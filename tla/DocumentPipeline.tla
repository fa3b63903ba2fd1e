--------------------------- MODULE DocumentPipeline ---------------------------
(***************************************************************************)
(* The documents of one case: upload_document (api.py) and the background  *)
(* task DocumentProcessor.process that follows it, over the S3 bucket, the *)
(* documents table and the audit trail.  Uploads overlap, so each await is *)
(* an action; a store call is one transaction.  Any call may raise, the    *)
(* recognition service may time out, and the process may be restarted.     *)
(*                                                                         *)
(* A record is identified by the bytes of the file, not by its name.       *)
(***************************************************************************)
EXTENDS Integers, FiniteSets

CONSTANTS
  Uploads,      \* activations of upload_document: a client retry is another one
  Contents,     \* file contents, hence document ids and content hashes
  Names,        \* file names
  HintOf,       \* HintOf[n]: the type the file name suggests
  TextOf,       \* TextOf[c]: the type the text suggests
  Injected,     \* contents with instruction-like text
  NoRow,        \* no record: None
  MaxFailures,  \* bound: calls that raise
  MaxRestarts   \* bound: restarts of the process

DocumentTypes == {"letter_of_credit", "other", "UNKNOWN"}

Recognised == {"EXTRACTED", "PARTIAL"}
Final      == Recognised \union {"FAILED"}
Statuses   == {"UPLOADED", "CLASSIFIED", "EXTRACTING"} \union Final

\* typed: fields of the schema of the type; raw: a dict that does not fit it.
Extractions == {"none", "typed", "raw"}

\* error_code: TimeoutError, or anything else that was raised.
Errors == {"DATA_UNAVAILABLE", "EXTRACTION_FAILED"}

Documents ==
  [type : DocumentTypes, status : Statuses, extraction : Extractions,
   flagged : BOOLEAN, error : Errors \union {"none"}]

\* A documents row: its columns, and the file name its s3_key ends in.
Rows == [name : Names, doc : Documents]

EventTypes ==
  {"DOCUMENT_UPLOADED", "DOCUMENT_CLASSIFIED", "AGENT_DECISION", "DOCUMENT_EXTRACTED",
   "LC_PARSED"}

Files == [content : Contents, name : Names]

ASSUME PipelineAssumption ==
  /\ HintOf \in [Names -> DocumentTypes]
  /\ TextOf \in [Contents -> DocumentTypes]
  /\ Injected \subseteq Contents
  /\ NoRow \notin Rows
  /\ NoRow \notin Files
  /\ MaxFailures \in Nat
  /\ MaxRestarts \in Nat

VARIABLES
  objects,   \* <<content, name>> of the objects in the bucket
  rows,      \* rows[c]: the record of the content c, or NoRow
  audit,     \* audit events of the case: [type, content]
  pc,        \* pc[u]: the call upload u, or its background task, makes next
  file,      \* file[u]: what was uploaded
  doc,       \* doc[u]: the DocumentRecord in the memory of u
  reply,     \* reply[u]: what the client was answered
  failures,  \* calls that raised
  restarts   \* restarts of the process

vars == <<objects, rows, audit, pc, file, doc, reply, failures, restarts>>

NewDocument ==
  [type |-> "UNKNOWN", status |-> "UPLOADED", extraction |-> "none", flagged |-> FALSE,
   error |-> "none"]

Init ==
  /\ objects = {}
  /\ rows = [c \in Contents |-> NoRow]
  /\ audit = {}
  /\ pc = [u \in Uploads |-> "idle"]
  /\ file = [u \in Uploads |-> NoRow]
  /\ doc = [u \in Uploads |-> NewDocument]
  /\ reply = [u \in Uploads |-> "none"]
  /\ failures = 0
  /\ restarts = 0

-------------------------------------------------------------------------------

Goto(u, label) == pc' = [pc EXCEPT ![u] = label]

Answer(u, code) == reply' = [reply EXCEPT ![u] = code]

\* INSERT ... ON CONFLICT (id) DO UPDATE: the name and the key of an existing
\* record stay, everything else is overwritten.
SaveDocument(u, d) ==
  LET c == file[u].content IN
  rows' = [rows EXCEPT ![c] =
             [name |-> IF @ = NoRow THEN file[u].name ELSE @.name, doc |-> d]]

Record(type, u) == audit' = audit \union {[type |-> type, content |-> file[u].content]}

\* _from_row validates the stored fields again: a dict that did not fit its
\* schema when it was extracted raises when it is read.
Readable(row) ==
  row # NoRow => ~(row.doc.extraction = "raw" /\ row.doc.type # "UNKNOWN")

-------------------------------------------------------------------------------
(* upload_document *)

\* Access, size, format and malware are checked before anything is stored.
Begin(u, f) ==
  /\ pc[u] = "idle"
  /\ file' = [file EXCEPT ![u] = f]
  /\ \/ Goto(u, "lookup") /\ UNCHANGED reply
     \/ Goto(u, "done") /\ Answer(u, "refused")
  /\ UNCHANGED <<objects, rows, audit, doc, failures, restarts>>

\* get_by_hash: a known content is answered from its record, whatever its status.
Lookup(u) ==
  LET row == rows[file[u].content] IN
  /\ pc[u] = "lookup"
  /\ \/ row = NoRow /\ Goto(u, "put") /\ UNCHANGED reply
     \/ row # NoRow /\ Readable(row) /\ Goto(u, "done") /\ Answer(u, "existing")
     \/ ~Readable(row) /\ Goto(u, "dead") /\ Answer(u, "error")
  /\ UNCHANGED <<objects, rows, audit, file, doc, failures, restarts>>

Put(u) ==
  /\ pc[u] = "put"
  /\ objects' = objects \union {<<file[u].content, file[u].name>>}
  /\ Goto(u, "insert")
  /\ UNCHANGED <<rows, audit, file, doc, reply, failures, restarts>>

Insert(u) ==
  /\ pc[u] = "insert"
  /\ SaveDocument(u, doc[u])
  /\ Goto(u, "audit_uploaded")
  /\ UNCHANGED <<objects, audit, file, doc, reply, failures, restarts>>

\* The client is answered 202; the background task starts.
AuditUploaded(u) ==
  /\ pc[u] = "audit_uploaded"
  /\ Record("DOCUMENT_UPLOADED", u)
  /\ Answer(u, "accepted")
  /\ Goto(u, "classify")
  /\ UNCHANGED <<objects, rows, file, doc, failures, restarts>>

-------------------------------------------------------------------------------
(* DocumentProcessor.process *)

\* The in-memory record becomes d and is saved.
SaveAndGoto(u, d, label) ==
  /\ doc' = [doc EXCEPT ![u] = d]
  /\ SaveDocument(u, d)
  /\ Goto(u, label)
  /\ UNCHANGED <<objects, audit, file, reply, failures, restarts>>

AuditAndGoto(u, type, label) ==
  /\ Record(type, u)
  /\ Goto(u, label)
  /\ UNCHANGED <<objects, rows, file, doc, reply, failures, restarts>>

Classify(u) ==
  /\ pc[u] = "classify"
  /\ SaveAndGoto(u, [doc[u] EXCEPT !.type = HintOf[file[u].name], !.status = "CLASSIFIED"],
                 "audit_classified")

AuditClassified(u) ==
  /\ pc[u] = "audit_classified"
  /\ AuditAndGoto(u, "DOCUMENT_CLASSIFIED", "extracting")

Extracting(u) ==
  /\ pc[u] = "extracting"
  /\ SaveAndGoto(u, [doc[u] EXCEPT !.status = "EXTRACTING"], "recognise")

\* What build_extraction makes of the recognised text: the confidence decides
\* the status, and fields that do not fit the schema stay a raw dict; an
\* UNKNOWN document has no schema.
Outcomes(type) ==
  {[status |-> s, extraction |-> "typed"] : s \in Recognised}
    \union (IF type = "UNKNOWN" THEN {[status |-> s, extraction |-> "raw"] : s \in Recognised}
            ELSE {[status |-> "PARTIAL", extraction |-> "raw"]})

\* Mutant: a failure starts the task again.
FailWithRetries(u, error) == Goto(u, "extracting") /\ UNCHANGED doc

\* Mutant: the error code is written as the status.
FailWithCode(u, error) ==
  /\ doc' = [doc EXCEPT ![u] = [@ EXCEPT !.status = error, !.error = error]]
  /\ Goto(u, "save_failed")

\* The exception handlers: the failed record is saved in a step of its own.
FailWith(u, error) ==
  /\ doc' = [doc EXCEPT ![u] = [@ EXCEPT !.status = "FAILED", !.error = error]]
  /\ Goto(u, "save_failed")

\* An UNKNOWN document is classified again by its text.
Corrected(u) ==
  [doc[u] EXCEPT !.type = IF @ = "UNKNOWN" THEN TextOf[file[u].content] ELSE @]

\* Mutant: the text is scanned for instructions only when its type is unknown.
SuspectUnknownOnly(u) == doc[u].type = "UNKNOWN" /\ file[u].content \in Injected

Suspect(u) == file[u].content \in Injected

\* analyze_document answers, or its polling times out.
Recognise(u) ==
  /\ pc[u] = "recognise"
  /\ \/ /\ Suspect(u)
        /\ doc' = [doc EXCEPT ![u] = [@ EXCEPT !.flagged = TRUE]]
        /\ Goto(u, "audit_flag")
     \/ /\ ~Suspect(u)
        /\ doc' = [doc EXCEPT ![u] = Corrected(u)]
        /\ Goto(u, "extract")
     \/ FailWith(u, "DATA_UNAVAILABLE")
  /\ UNCHANGED <<objects, rows, audit, file, reply, failures, restarts>>

AuditFlag(u) ==
  /\ pc[u] = "audit_flag"
  /\ Record("AGENT_DECISION", u)
  /\ doc' = [doc EXCEPT ![u] = Corrected(u)]
  /\ Goto(u, "extract")
  /\ UNCHANGED <<objects, rows, file, reply, failures, restarts>>

\* The LLM fallback for low confidence, and build_extraction.
Extract(u) ==
  /\ pc[u] = "extract"
  /\ \E o \in Outcomes(doc[u].type) :
       doc' = [doc EXCEPT ![u] = [@ EXCEPT !.status = o.status, !.extraction = o.extraction]]
  /\ Goto(u, "save_extraction")
  /\ UNCHANGED <<objects, rows, audit, file, reply, failures, restarts>>

SaveExtraction(u) ==
  /\ pc[u] = "save_extraction"
  /\ SaveAndGoto(u, doc[u], "audit_extracted")

\* Mutant: a partial extraction is not worth an event.
AuditExtractedIfWhole(u) ==
  /\ pc[u] = "audit_extracted"
  /\ IF doc[u].status = "EXTRACTED" THEN Record("DOCUMENT_EXTRACTED", u) ELSE UNCHANGED audit
  /\ Goto(u, IF doc[u].type = "letter_of_credit" THEN "audit_lc" ELSE "done")
  /\ UNCHANGED <<objects, rows, file, doc, reply, failures, restarts>>

AuditExtracted(u) ==
  /\ pc[u] = "audit_extracted"
  /\ AuditAndGoto(u, "DOCUMENT_EXTRACTED",
                  IF doc[u].type = "letter_of_credit" THEN "audit_lc" ELSE "done")

AuditLc(u) ==
  /\ pc[u] = "audit_lc"
  /\ AuditAndGoto(u, "LC_PARSED", "done")

\* Mutant: the failure stays in memory.
SaveFailedNever(u) ==
  /\ pc[u] = "save_failed"
  /\ Goto(u, "done")
  /\ UNCHANGED <<objects, rows, audit, file, doc, reply, failures, restarts>>

SaveFailed(u) ==
  /\ pc[u] = "save_failed"
  /\ SaveAndGoto(u, doc[u], "done")

-------------------------------------------------------------------------------
(* What goes wrong *)

RequestSteps == {"lookup", "put", "insert", "audit_uploaded"}

\* The calls after which the task saves again.
TaskSteps ==
  {"classify", "audit_classified", "extracting", "recognise", "audit_flag", "extract",
   "save_extraction"}

AuditSteps == {"audit_extracted", "audit_lc"}

Working == RequestSteps \union TaskSteps \union AuditSteps \union {"save_failed"}

\* A call raises before it has an effect.  The request answers 500; the task
\* saves its record as failed, with whatever was extracted, and dies if that
\* save raises too.
Raise(u) ==
  /\ failures < MaxFailures
  /\ failures' = failures + 1
  /\ \/ /\ pc[u] \in RequestSteps
        /\ Goto(u, "dead") /\ Answer(u, "error")
        /\ UNCHANGED doc
     \/ /\ pc[u] \in TaskSteps \union AuditSteps
        /\ \E error \in Errors : FailWith(u, error)
        /\ UNCHANGED reply
     \/ /\ pc[u] = "save_failed"
        /\ Goto(u, "dead")
        /\ UNCHANGED <<doc, reply>>
  /\ UNCHANGED <<objects, rows, audit, file, restarts>>

\* Requests and background tasks live in the memory of the process.
Restart ==
  /\ restarts < MaxRestarts
  /\ restarts' = restarts + 1
  /\ pc' = [u \in Uploads |-> IF pc[u] \in Working THEN "dead" ELSE pc[u]]
  /\ UNCHANGED <<objects, rows, audit, file, doc, reply, failures>>

-------------------------------------------------------------------------------

Step(u) ==
  \/ Lookup(u) \/ Put(u) \/ Insert(u) \/ AuditUploaded(u)
  \/ Classify(u) \/ AuditClassified(u) \/ Extracting(u) \/ Recognise(u) \/ AuditFlag(u)
  \/ Extract(u) \/ SaveExtraction(u) \/ AuditExtracted(u) \/ AuditLc(u) \/ SaveFailed(u)

Next ==
  \/ \E u \in Uploads, f \in Files : Begin(u, f)
  \/ \E u \in Uploads : Step(u) \/ Raise(u)
  \/ Restart

Spec == Init /\ [][Next]_vars

\* The event loop resumes every request and task, and analyze_document ends by
\* its polling time-out or by the client's own.
FairSpec == Spec /\ \A u \in Uploads : WF_vars(Step(u))

-------------------------------------------------------------------------------
(* Properties *)

Labels == {"idle", "done", "dead"} \union Working

Codes == {"none", "refused", "existing", "accepted", "error"}

Events == [type : EventTypes, content : Contents]

\* Each variable holds the kind of value the stores and the handlers keep there.
TypeOK ==
  /\ objects \subseteq Contents \X Names
  /\ rows \in [Contents -> Rows \union {NoRow}]
  /\ audit \subseteq Events
  /\ pc \in [Uploads -> Labels]
  /\ file \in [Uploads -> Files \union {NoRow}]
  /\ doc \in [Uploads -> Documents]
  /\ reply \in [Uploads -> Codes]
  /\ failures \in 0..MaxFailures
  /\ restarts \in 0..MaxRestarts

\* Whatever raises and however uploads overlap, the file of every record is in
\* the bucket, under the key the record names.
RecordHasObject ==
  \A c \in Contents : rows[c] # NoRow => <<c, rows[c].name>> \in objects

\* A client that was told its file is stored can rely on it, and a record that
\* a task has worked on was uploaded on the record.
Known(c, type) == [type |-> type, content |-> c] \in audit

AcceptedIsStored ==
  /\ \A u \in Uploads :
       reply[u] \in {"accepted", "existing"} => rows[file[u].content] # NoRow
  /\ \A c \in Contents :
       rows[c] # NoRow /\ rows[c].doc.status # "UPLOADED" => Known(c, "DOCUMENT_UPLOADED")

\* Uploads of a content that may still change its record.
At(c, labels) == \E u \in Uploads : pc[u] \in labels /\ file[u].content = c

\* Once nobody works on a content and nobody died over it, its record is in a
\* final state, although overlapping uploads overwrite each other's saves.
SettledIsFinal ==
  \A c \in Contents :
    rows[c] # NoRow /\ ~At(c, Working \union {"dead"}) => rows[c].doc.status \in Final

\* An extraction that an agent may read reaches the audit trail, unless the
\* task that saved it dies or fails before.
ExtractionAudited ==
  \A c \in Contents :
    /\ rows[c] # NoRow /\ rows[c].doc.status \in Recognised
    /\ ~At(c, Working \union {"dead"})
    => Known(c, "DOCUMENT_EXTRACTED")

\* Text that looks like instructions is never extracted unnoticed: the record
\* carries the advisory and the audit trail the event.
InjectionReported ==
  \A c \in Injected :
    rows[c] # NoRow /\ rows[c].doc.status \in Recognised =>
      rows[c].doc.flagged /\ Known(c, "AGENT_DECISION")

\* How far the work on a record has come; a failure is final.
Progress ==
  [UPLOADED |-> 0, CLASSIFIED |-> 1, EXTRACTING |-> 2, PARTIAL |-> 3, EXTRACTED |-> 3,
   FAILED |-> 4]

\* Uploads of c that were neither refused nor answered from its record: they write
\* the record, or died before they could.
Entered(c) ==
  {u \in Uploads : /\ pc[u] \notin {"idle", "lookup"}
                   /\ file[u].content = c
                   /\ reply[u] \notin {"refused", "existing"}}

\* A record is never deleted, and goes back to an earlier status, an extraction to
\* UPLOADED say, only where a second upload of the file missed it too, or died at its
\* lookup (api.py:124): one upload alone, with whatever fails in it, only moves its record forward.
RecordsGoForward ==
  [][\A c \in Contents : rows[c] # NoRow =>
       /\ rows'[c] # NoRow
       /\ \/ Progress[rows[c].doc.status] <= Progress[rows'[c].doc.status]
          \/ \E u, v \in Entered(c) : u # v]_vars

\* A started upload ends, and with it its background task.
EveryUploadEnds ==
  \A u \in Uploads : pc[u] = "lookup" ~> pc[u] \in {"done", "dead"}

-------------------------------------------------------------------------------
(* The inductive invariant *)

\* The calls of an upload whose file is in the bucket, whose record is stored,
\* and whose extraction is in memory.
ObjectSteps  == Working \ {"lookup", "put"}
RowSteps     == ObjectSteps \ {"insert"}
PassedSteps  == RowSteps \ {"audit_uploaded"}
ExtractSteps == {"save_extraction"} \union AuditSteps

\* What an upload remembers at each of its calls.
MemoryInv ==
  \A u \in Uploads :
    /\ pc[u] = "idle" => reply[u] = "none"
    /\ pc[u] # "idle" => file[u] \in Files
    /\ pc[u] \in RequestSteps \union {"idle"} => doc[u] = NewDocument
    /\ pc[u] \in ExtractSteps => doc[u].status \in Recognised
    /\ pc[u] = "save_failed" => doc[u].status = "FAILED"

\* What an upload has left behind in the stores at each of its calls.
TraceInv ==
  \A u \in Uploads :
    /\ pc[u] \in ObjectSteps => <<file[u].content, file[u].name>> \in objects
    /\ pc[u] \in RowSteps => rows[file[u].content] # NoRow
    /\ pc[u] \in PassedSteps => Known(file[u].content, "DOCUMENT_UPLOADED")

\* A record that is not final is still to be saved by somebody, who may die.
SettledInv ==
  \A c \in Contents :
    rows[c] # NoRow /\ rows[c].doc.status \notin Final =>
      At(c, {"audit_uploaded", "save_failed", "dead"} \union TaskSteps)

\* Between the save of an extraction and its event stands the task, or its death.
ExtractionInv ==
  \A c \in Contents :
    rows[c] # NoRow /\ rows[c].doc.status \in Recognised =>
      Known(c, "DOCUMENT_EXTRACTED") \/ At(c, {"audit_extracted", "save_failed", "dead"})

\* The advisory of a suspect text is in memory before the extraction.
FlagInv ==
  \A u \in Uploads :
    pc[u] # "idle" /\ file[u].content \in Injected =>
      /\ pc[u] \in {"audit_flag", "extract"} \union ExtractSteps => doc[u].flagged
      /\ pc[u] \in {"extract"} \union ExtractSteps => Known(file[u].content, "AGENT_DECISION")

\* Inductive; the safety properties follow from it.
PipelineInv ==
  /\ TypeOK
  /\ MemoryInv
  /\ TraceInv
  /\ RecordHasObject
  /\ AcceptedIsStored
  /\ SettledInv
  /\ ExtractionInv
  /\ FlagInv
  /\ InjectionReported

\* What an upload that is still wanted has in memory at each of its calls.
StatusInv ==
  \A u \in Uploads :
    /\ pc[u] \in RequestSteps \union {"classify"} => doc[u].status = "UPLOADED"
    /\ pc[u] \in {"audit_classified", "extracting"} => doc[u].status = "CLASSIFIED"
    /\ pc[u] \in {"recognise", "audit_flag", "extract"} => doc[u].status = "EXTRACTING"
    /\ pc[u] \in Working => reply[u] \in {"none", "accepted"}

\* A record was written by an upload that entered, and by the only one as far as
\* that one has come.
WriterInv ==
  \A c \in Contents : rows[c] # NoRow =>
    /\ \E u \in Entered(c) : pc[u] \notin {"put", "insert"}
    /\ \A u \in Entered(c) :
         Entered(c) = {u} => Progress[rows[c].doc.status] <= Progress[doc[u].status]

-------------------------------------------------------------------------------
(* What a comment says and the code does not do *)

\* Malformed documents fail safely: the records of the case stay readable.
CaseReadable == \A c \in Contents : Readable(rows[c])
===============================================================================
