------------------------ MODULE DocumentPipelineProofs ------------------------
(***************************************************************************)
(* Proofs about DocumentPipeline for any number of uploads, contents and   *)
(* file names, and any number of failures and restarts.                    *)
(***************************************************************************)
EXTENDS DocumentPipeline, TLAPS

-------------------------------------------------------------------------------
(* Saving a record, and failing *)

\* A save writes the record of the upload's content and no other, and keeps the
\* name an existing record has.
LEMMA SaveEffect ==
  ASSUME TypeOK, NEW u \in Uploads, file[u] \in Files, NEW d \in Documents,
         SaveDocument(u, d)
  PROVE  /\ file[u].content \in Contents
         /\ rows' \in [Contents -> Rows \union {NoRow}]
         /\ rows'[file[u].content] # NoRow
         /\ rows'[file[u].content].doc = d
         /\ rows'[file[u].content].name =
              IF rows[file[u].content] = NoRow THEN file[u].name ELSE rows[file[u].content].name
         /\ \A c \in Contents \ {file[u].content} : rows'[c] = rows[c]
<1> DEFINE c == file[u].content
           row == [name |-> IF rows[c] = NoRow THEN file[u].name ELSE rows[c].name, doc |-> d]
<1>1. c \in Contents /\ file[u].name \in Names
  BY DEF Files
<1>2. rows[c] \in Rows \union {NoRow} /\ rows \in [Contents -> Rows \union {NoRow}]
  BY <1>1 DEF TypeOK
<1>3. row \in Rows
  BY <1>1, <1>2 DEF Rows
<1>4. rows' = [rows EXCEPT ![c] = row]
  BY <1>1, <1>2 DEF SaveDocument
<1>5. row # NoRow
  BY <1>3, PipelineAssumption DEF PipelineAssumption
<1> QED
  BY <1>1, <1>2, <1>3, <1>4, <1>5

\* Failing makes a well typed record that waits to be saved.
LEMMA FailEffect ==
  ASSUME TypeOK, NEW u \in Uploads, NEW error \in Errors, FailWith(u, error)
  PROVE  /\ doc' \in [Uploads -> Documents]
         /\ doc'[u].status = "FAILED"
         /\ \A v \in Uploads \ {u} : doc'[v] = doc[v]
         /\ pc' = [pc EXCEPT ![u] = "save_failed"]
<1>1. doc[u] \in Documents /\ doc \in [Uploads -> Documents]
  BY DEF TypeOK
<1>2. [doc[u] EXCEPT !.status = "FAILED", !.error = error] \in Documents
  BY <1>1 DEF Documents, Statuses, Final
<1> QED
  BY <1>1, <1>2 DEF FailWith, Goto

\* Every change a task makes to its record keeps it a record.
LEMMA DocumentUpdates ==
  ASSUME NEW d \in Documents
  PROVE  /\ \A t \in DocumentTypes, s \in Statuses :
              [d EXCEPT !.type = t, !.status = s] \in Documents
         /\ \A t \in DocumentTypes : [d EXCEPT !.type = t] \in Documents
         /\ \A s \in Statuses : [d EXCEPT !.status = s] \in Documents
         /\ \A s \in Statuses, x \in Extractions :
              [d EXCEPT !.status = s, !.extraction = x] \in Documents
         /\ [d EXCEPT !.flagged = TRUE] \in Documents
BY DEF Documents

-------------------------------------------------------------------------------
(* The invariant is inductive *)

\* Nothing is stored or remembered at first.
LEMMA InitPipelineInv == Init => PipelineInv
<1> SUFFICES ASSUME Init PROVE PipelineInv
  OBVIOUS
<1> USE DEF Init
<1>1. TypeOK
  BY PipelineAssumption
  DEF TypeOK, Labels, Codes, Documents, DocumentTypes, Statuses, Extractions,
      NewDocument,
      PipelineAssumption
<1>2. MemoryInv /\ TraceInv
  BY DEF MemoryInv, TraceInv, ObjectSteps, RowSteps, PassedSteps, ExtractSteps,
         RequestSteps,
         TaskSteps, AuditSteps, Working
<1>3. RecordHasObject /\ AcceptedIsStored
  BY DEF RecordHasObject, AcceptedIsStored
<1>4. SettledInv /\ ExtractionInv
  BY DEF SettledInv, ExtractionInv
<1>5. FlagInv /\ InjectionReported
  BY PipelineAssumption DEF FlagInv, InjectionReported, PipelineAssumption
<1> QED
  BY <1>1, <1>2, <1>3, <1>4, <1>5 DEF PipelineInv

\* Every step keeps the types.
LEMMA TypeStep == PipelineInv /\ [Next]_vars => TypeOK'
<1> SUFFICES ASSUME PipelineInv, [Next]_vars PROVE TypeOK'
  OBVIOUS
<1> USE DEF PipelineInv, TypeOK, MemoryInv, Labels, RequestSteps, TaskSteps, AuditSteps,
            Working, Codes, Errors, Files, Events, EventTypes
<1>1. ASSUME NEW u \in Uploads, NEW g \in Files, Begin(u, g)
      PROVE  TypeOK'
  BY <1>1 DEF Begin, Goto, Answer
<1>2. ASSUME NEW u \in Uploads, Lookup(u)
      PROVE  TypeOK'
  BY <1>2 DEF Lookup, Goto, Answer
<1>3. ASSUME NEW u \in Uploads, Put(u)
      PROVE  TypeOK'
  BY <1>3 DEF Put, Goto
<1>4. ASSUME NEW u \in Uploads, Insert(u)
      PROVE  TypeOK'
  <2>1. file[u] \in Files /\ doc[u] \in Documents
    BY <1>4 DEF Insert
  <2>2. rows' \in [Contents -> Rows \union {NoRow}]
    BY <1>4, <2>1, SaveEffect DEF Insert, SaveAndGoto
  <2> QED
    BY <1>4, <2>1, <2>2 DEF Insert, SaveAndGoto, Goto
<1>5. ASSUME NEW u \in Uploads, AuditUploaded(u)
      PROVE  TypeOK'
  BY <1>5 DEF AuditUploaded, Goto, Answer, Record
<1>6. ASSUME NEW u \in Uploads, Classify(u)
      PROVE  TypeOK'
  <2> DEFINE d == [doc[u] EXCEPT !.type = HintOf[file[u].name], !.status = "CLASSIFIED"]
  <2>1. file[u] \in Files /\ doc[u] \in Documents
    BY <1>6 DEF Classify
  <2>2. HintOf[file[u].name] \in DocumentTypes
    BY <2>1, PipelineAssumption DEF PipelineAssumption, Files
  <2>3. d \in Documents
    BY <2>1, <2>2, DocumentUpdates DEF Statuses, Final
  <2>4. rows' \in [Contents -> Rows \union {NoRow}]
    BY <1>6, <2>1, <2>3, SaveEffect DEF Classify, SaveAndGoto
  <2> QED
    BY <1>6, <2>3, <2>4 DEF Classify, SaveAndGoto, Goto
<1>7. ASSUME NEW u \in Uploads, AuditClassified(u)
      PROVE  TypeOK'
  BY <1>7 DEF AuditClassified, Goto, AuditAndGoto, Record
<1>8. ASSUME NEW u \in Uploads, Extracting(u)
      PROVE  TypeOK'
  <2> DEFINE d == [doc[u] EXCEPT !.status = "EXTRACTING"]
  <2>1. file[u] \in Files /\ doc[u] \in Documents
    BY <1>8 DEF Extracting
  <2>3. d \in Documents
    BY <2>1, DocumentUpdates DEF Statuses, Final
  <2>4. rows' \in [Contents -> Rows \union {NoRow}]
    BY <1>8, <2>1, <2>3, SaveEffect DEF Extracting, SaveAndGoto
  <2> QED
    BY <1>8, <2>3, <2>4 DEF Extracting, SaveAndGoto, Goto
<1>9. ASSUME NEW u \in Uploads, Recognise(u)
      PROVE  TypeOK'
  <2>1. file[u] \in Files /\ doc[u] \in Documents
    BY <1>9 DEF Recognise
  <2>2. TextOf[file[u].content] \in DocumentTypes
    BY <2>1, PipelineAssumption DEF PipelineAssumption, Files
  <2>3. doc[u].type \in DocumentTypes
    BY <2>1 DEF Documents
  <2>4. Corrected(u) \in Documents
    BY <2>1, <2>2, <2>3, DocumentUpdates DEF Corrected
  <2>5. [doc[u] EXCEPT !.flagged = TRUE] \in Documents
    BY <2>1, DocumentUpdates
  <2>6. CASE FailWith(u, "DATA_UNAVAILABLE")
    BY <1>9, <2>6, FailEffect DEF Recognise
  <2>7. CASE doc' = [doc EXCEPT ![u] = [@ EXCEPT !.flagged = TRUE]] /\ Goto(u, "audit_flag")
    BY <1>9, <2>5, <2>7 DEF Recognise, Goto
  <2>8. CASE doc' = [doc EXCEPT ![u] = Corrected(u)] /\ Goto(u, "extract")
    BY <1>9, <2>4, <2>8 DEF Recognise, Goto
  <2> QED
    BY <1>9, <2>6, <2>7, <2>8 DEF Recognise
<1>10. ASSUME NEW u \in Uploads, AuditFlag(u)
      PROVE  TypeOK'
  <2>1. file[u] \in Files /\ doc[u] \in Documents
    BY <1>10 DEF AuditFlag
  <2>2. TextOf[file[u].content] \in DocumentTypes
    BY <2>1, PipelineAssumption DEF PipelineAssumption, Files
  <2>3. doc[u].type \in DocumentTypes
    BY <2>1 DEF Documents
  <2>4. Corrected(u) \in Documents
    BY <2>1, <2>2, <2>3, DocumentUpdates DEF Corrected
  <2> QED
    BY <1>10, <2>1, <2>4 DEF AuditFlag, Goto, Record
<1>11. ASSUME NEW u \in Uploads, Extract(u)
      PROVE  TypeOK'
  <2>1. PICK o \in Outcomes(doc[u].type) :
          doc' = [doc EXCEPT ![u] = [@ EXCEPT !.status = o.status, !.extraction = o.extraction]]
    BY <1>11 DEF Extract
  <2>2. o.status \in Statuses /\ o.extraction \in Extractions
    BY <2>1 DEF Outcomes, Recognised, Statuses, Final, Extractions
  <2>3. doc[u] \in Documents
    BY <1>11 DEF Extract
  <2>4. [doc[u] EXCEPT !.status = o.status, !.extraction = o.extraction] \in Documents
    BY <2>2, <2>3, DocumentUpdates
  <2> QED
    BY <1>11, <2>1, <2>4 DEF Extract, Goto
<1>12. ASSUME NEW u \in Uploads, SaveExtraction(u)
      PROVE  TypeOK'
  <2>1. file[u] \in Files /\ doc[u] \in Documents
    BY <1>12 DEF SaveExtraction
  <2>2. rows' \in [Contents -> Rows \union {NoRow}]
    BY <1>12, <2>1, SaveEffect DEF SaveExtraction, SaveAndGoto
  <2> QED
    BY <1>12, <2>1, <2>2 DEF SaveExtraction, SaveAndGoto, Goto
<1>13. ASSUME NEW u \in Uploads, AuditExtracted(u)
      PROVE  TypeOK'
  BY <1>13 DEF AuditExtracted, Goto, AuditAndGoto, Record
<1>14. ASSUME NEW u \in Uploads, AuditLc(u)
      PROVE  TypeOK'
  BY <1>14 DEF AuditLc, Goto, AuditAndGoto, Record
<1>15. ASSUME NEW u \in Uploads, SaveFailed(u)
      PROVE  TypeOK'
  <2>1. file[u] \in Files /\ doc[u] \in Documents
    BY <1>15 DEF SaveFailed
  <2>2. rows' \in [Contents -> Rows \union {NoRow}]
    BY <1>15, <2>1, SaveEffect DEF SaveFailed, SaveAndGoto
  <2> QED
    BY <1>15, <2>1, <2>2 DEF SaveFailed, SaveAndGoto, Goto
<1>16. ASSUME NEW u \in Uploads, Raise(u)
      PROVE  TypeOK'
  <2>1. CASE pc[u] \in RequestSteps /\ Goto(u, "dead") /\ Answer(u, "error") /\ UNCHANGED doc
    BY <1>16, <2>1, PipelineAssumption DEF Raise, PipelineAssumption, Goto, Answer
  <2>2. ASSUME pc[u] \in TaskSteps \union AuditSteps, UNCHANGED reply,
               NEW error \in Errors, FailWith(u, error)
        PROVE  TypeOK'
    BY <1>16, <2>2, FailEffect, PipelineAssumption DEF Raise, PipelineAssumption
  <2>3. CASE pc[u] = "save_failed" /\ Goto(u, "dead") /\ UNCHANGED <<doc, reply>>
    BY <1>16, <2>3, PipelineAssumption DEF Raise, PipelineAssumption, Goto
  <2> QED
    BY <1>16, <2>1, <2>2, <2>3 DEF Raise
<1>17. CASE Restart
  BY <1>17, PipelineAssumption DEF Restart, PipelineAssumption
<1>18. CASE UNCHANGED vars
  BY <1>18 DEF vars
<1> QED
  BY <1>1, <1>2, <1>3, <1>4, <1>5, <1>6, <1>7, <1>8, <1>9, <1>10, <1>11, <1>12, <1>13,
     <1>14, <1>15, <1>16, <1>17, <1>18 DEF Next, Step

\* Every step keeps what the uploads remember.
LEMMA MemoryStep == PipelineInv /\ [Next]_vars => MemoryInv'
<1> SUFFICES ASSUME PipelineInv, [Next]_vars PROVE MemoryInv'
  OBVIOUS
<1> USE DEF PipelineInv, TypeOK, MemoryInv, RequestSteps, TaskSteps, AuditSteps,
            Working, ExtractSteps, Recognised
<1>1. ASSUME NEW u \in Uploads, NEW g \in Files, Begin(u, g)
      PROVE  MemoryInv'
  BY <1>1 DEF Begin, Goto, Answer
<1>2. ASSUME NEW u \in Uploads, Lookup(u)
      PROVE  MemoryInv'
  BY <1>2 DEF Lookup, Goto, Answer
<1>3. ASSUME NEW u \in Uploads, Put(u)
      PROVE  MemoryInv'
  BY <1>3 DEF Put, Goto
<1>4. ASSUME NEW u \in Uploads, Insert(u)
      PROVE  MemoryInv'
  BY <1>4 DEF Insert, Goto, SaveDocument
<1>5. ASSUME NEW u \in Uploads, AuditUploaded(u)
      PROVE  MemoryInv'
  BY <1>5 DEF AuditUploaded, Goto, Answer, Record
<1>6. ASSUME NEW u \in Uploads, Classify(u)
      PROVE  MemoryInv'
  BY <1>6 DEF Classify, Goto, SaveAndGoto, SaveDocument
<1>7. ASSUME NEW u \in Uploads, AuditClassified(u)
      PROVE  MemoryInv'
  BY <1>7 DEF AuditClassified, Goto, AuditAndGoto, Record
<1>8. ASSUME NEW u \in Uploads, Extracting(u)
      PROVE  MemoryInv'
  BY <1>8 DEF Extracting, Goto, SaveAndGoto, SaveDocument
<1>9. ASSUME NEW u \in Uploads, Recognise(u)
      PROVE  MemoryInv'
  <2>1. CASE FailWith(u, "DATA_UNAVAILABLE")
    BY <1>9, <2>1, FailEffect DEF Recognise, Errors
  <2>2. CASE ~FailWith(u, "DATA_UNAVAILABLE")
    BY <1>9, <2>2 DEF Recognise, Goto
  <2> QED
    BY <2>1, <2>2
<1>10. ASSUME NEW u \in Uploads, AuditFlag(u)
      PROVE  MemoryInv'
  BY <1>10 DEF AuditFlag, Goto, Record, Corrected
<1>11. ASSUME NEW u \in Uploads, Extract(u)
      PROVE  MemoryInv'
  BY <1>11 DEF Extract, Goto, Outcomes
<1>12. ASSUME NEW u \in Uploads, SaveExtraction(u)
      PROVE  MemoryInv'
  BY <1>12 DEF SaveExtraction, Goto, SaveAndGoto, SaveDocument
<1>13. ASSUME NEW u \in Uploads, AuditExtracted(u)
      PROVE  MemoryInv'
  BY <1>13 DEF AuditExtracted, Goto, AuditAndGoto, Record
<1>14. ASSUME NEW u \in Uploads, AuditLc(u)
      PROVE  MemoryInv'
  BY <1>14 DEF AuditLc, Goto, AuditAndGoto, Record
<1>15. ASSUME NEW u \in Uploads, SaveFailed(u)
      PROVE  MemoryInv'
  BY <1>15 DEF SaveFailed, Goto, SaveAndGoto, SaveDocument
<1>16. ASSUME NEW u \in Uploads, Raise(u)
      PROVE  MemoryInv'
  <2>1. CASE pc[u] \in RequestSteps /\ Goto(u, "dead") /\ Answer(u, "error") /\ UNCHANGED doc
    BY <1>16, <2>1 DEF Raise, Goto, Answer
  <2>2. ASSUME pc[u] \in TaskSteps \union AuditSteps, UNCHANGED reply,
               NEW error \in Errors, FailWith(u, error)
        PROVE  MemoryInv'
    BY <1>16, <2>2, FailEffect DEF Raise
  <2>3. CASE pc[u] = "save_failed" /\ Goto(u, "dead") /\ UNCHANGED <<doc, reply>>
    BY <1>16, <2>3 DEF Raise, Goto
  <2> QED
    BY <1>16, <2>1, <2>2, <2>3 DEF Raise
<1>17. CASE Restart
  BY <1>17 DEF Restart
<1>18. CASE UNCHANGED vars
  BY <1>18 DEF vars
<1> QED
  BY <1>1, <1>2, <1>3, <1>4, <1>5, <1>6, <1>7, <1>8, <1>9, <1>10, <1>11, <1>12, <1>13,
     <1>14, <1>15, <1>16, <1>17, <1>18 DEF Next, Step

\* Every step keeps what the uploads left in the stores.
LEMMA TraceStep ==
  PipelineInv /\ [Next]_vars => TraceInv' /\ RecordHasObject' /\ AcceptedIsStored'
<1> SUFFICES ASSUME PipelineInv, [Next]_vars
             PROVE  TraceInv' /\ RecordHasObject' /\ AcceptedIsStored'
  OBVIOUS
<1> USE DEF PipelineInv, TypeOK, MemoryInv, TraceInv, RecordHasObject, AcceptedIsStored,
            Known, RequestSteps, TaskSteps, AuditSteps, Working, ObjectSteps, RowSteps,
            PassedSteps, NewDocument
<1>1. ASSUME NEW u \in Uploads, NEW g \in Files, Begin(u, g)
      PROVE  TraceInv' /\ RecordHasObject' /\ AcceptedIsStored'
  BY <1>1 DEF Begin, Goto, Answer
<1>2. ASSUME NEW u \in Uploads, Lookup(u)
      PROVE  TraceInv' /\ RecordHasObject' /\ AcceptedIsStored'
  BY <1>2 DEF Lookup, Goto, Answer
<1>3. ASSUME NEW u \in Uploads, Put(u)
      PROVE  TraceInv' /\ RecordHasObject' /\ AcceptedIsStored'
  BY <1>3 DEF Put, Goto
<1>4. ASSUME NEW u \in Uploads, Insert(u)
      PROVE  TraceInv' /\ RecordHasObject' /\ AcceptedIsStored'
  <2> DEFINE d == doc[u]
  <2>1. file[u] \in Files /\ doc[u] \in Documents
    BY <1>4 DEF Insert
  <2>3. d \in Documents
    BY <2>1
  <2>4. SaveDocument(u, d)
    BY <1>4 DEF Insert
  <2>5. TraceInv'
    BY <1>4, <2>1, <2>3, <2>4, SaveEffect DEF Insert, Goto
  <2>6. ASSUME NEW c \in Contents
        PROVE  /\ rows[c] # NoRow => rows'[c] # NoRow
               /\ rows'[c] # NoRow => <<c, rows'[c].name>> \in objects
               /\ rows'[c] # NoRow /\ rows'[c].doc.status # "UPLOADED" =>
                    Known(c, "DOCUMENT_UPLOADED")
    <3>1. CASE c = file[u].content
      BY <1>4, <2>1, <2>3, <2>4, <3>1, SaveEffect DEF Insert
    <3>2. CASE c # file[u].content
      BY <2>1, <2>3, <2>4, <3>2, SaveEffect
    <3> QED
      BY <3>1, <3>2
  <2>7. UNCHANGED <<objects, audit, file, reply>>
    BY <1>4 DEF Insert
  <2>8. RecordHasObject'
    BY <2>6, <2>7
  <2>9. \A v \in Uploads : reply[v] \in {"accepted", "existing"} => file[v].content \in Contents
    BY DEF Files
  <2>10. AcceptedIsStored'
    BY <2>6, <2>7, <2>9
  <2> QED
    BY <2>5, <2>8, <2>10
<1>5. ASSUME NEW u \in Uploads, AuditUploaded(u)
      PROVE  TraceInv' /\ RecordHasObject' /\ AcceptedIsStored'
  BY <1>5 DEF AuditUploaded, Goto, Answer, Record
<1>6. ASSUME NEW u \in Uploads, Classify(u)
      PROVE  TraceInv' /\ RecordHasObject' /\ AcceptedIsStored'
  <2> DEFINE d == [doc[u] EXCEPT !.type = HintOf[file[u].name], !.status = "CLASSIFIED"]
  <2>1. file[u] \in Files /\ doc[u] \in Documents
    BY <1>6 DEF Classify
  <2>2. HintOf[file[u].name] \in DocumentTypes
    BY <2>1, PipelineAssumption DEF PipelineAssumption, Files
  <2>3. d \in Documents
    BY <2>1, <2>2, DocumentUpdates DEF Statuses, Final
  <2>4. SaveDocument(u, d)
    BY <1>6 DEF Classify, SaveAndGoto
  <2>5. TraceInv'
    BY <1>6, <2>1, <2>3, <2>4, SaveEffect DEF Classify, SaveAndGoto, Goto
  <2>6. ASSUME NEW c \in Contents
        PROVE  /\ rows[c] # NoRow => rows'[c] # NoRow
               /\ rows'[c] # NoRow => <<c, rows'[c].name>> \in objects
               /\ rows'[c] # NoRow /\ rows'[c].doc.status # "UPLOADED" =>
                    Known(c, "DOCUMENT_UPLOADED")
    <3>1. CASE c = file[u].content
      BY <1>6, <2>1, <2>3, <2>4, <3>1, SaveEffect DEF Classify
    <3>2. CASE c # file[u].content
      BY <2>1, <2>3, <2>4, <3>2, SaveEffect
    <3> QED
      BY <3>1, <3>2
  <2>7. UNCHANGED <<objects, audit, file, reply>>
    BY <1>6 DEF Classify, SaveAndGoto
  <2>8. RecordHasObject'
    BY <2>6, <2>7
  <2>9. \A v \in Uploads : reply[v] \in {"accepted", "existing"} => file[v].content \in Contents
    BY DEF Files
  <2>10. AcceptedIsStored'
    BY <2>6, <2>7, <2>9
  <2> QED
    BY <2>5, <2>8, <2>10
<1>7. ASSUME NEW u \in Uploads, AuditClassified(u)
      PROVE  TraceInv' /\ RecordHasObject' /\ AcceptedIsStored'
  BY <1>7 DEF AuditClassified, Goto, AuditAndGoto, Record
<1>8. ASSUME NEW u \in Uploads, Extracting(u)
      PROVE  TraceInv' /\ RecordHasObject' /\ AcceptedIsStored'
  <2> DEFINE d == [doc[u] EXCEPT !.status = "EXTRACTING"]
  <2>1. file[u] \in Files /\ doc[u] \in Documents
    BY <1>8 DEF Extracting
  <2>3. d \in Documents
    BY <2>1, DocumentUpdates DEF Statuses, Final
  <2>4. SaveDocument(u, d)
    BY <1>8 DEF Extracting, SaveAndGoto
  <2>5. TraceInv'
    BY <1>8, <2>1, <2>3, <2>4, SaveEffect DEF Extracting, SaveAndGoto, Goto
  <2>6. ASSUME NEW c \in Contents
        PROVE  /\ rows[c] # NoRow => rows'[c] # NoRow
               /\ rows'[c] # NoRow => <<c, rows'[c].name>> \in objects
               /\ rows'[c] # NoRow /\ rows'[c].doc.status # "UPLOADED" =>
                    Known(c, "DOCUMENT_UPLOADED")
    <3>1. CASE c = file[u].content
      BY <1>8, <2>1, <2>3, <2>4, <3>1, SaveEffect DEF Extracting
    <3>2. CASE c # file[u].content
      BY <2>1, <2>3, <2>4, <3>2, SaveEffect
    <3> QED
      BY <3>1, <3>2
  <2>7. UNCHANGED <<objects, audit, file, reply>>
    BY <1>8 DEF Extracting, SaveAndGoto
  <2>8. RecordHasObject'
    BY <2>6, <2>7
  <2>9. \A v \in Uploads : reply[v] \in {"accepted", "existing"} => file[v].content \in Contents
    BY DEF Files
  <2>10. AcceptedIsStored'
    BY <2>6, <2>7, <2>9
  <2> QED
    BY <2>5, <2>8, <2>10
<1>9. ASSUME NEW u \in Uploads, Recognise(u)
      PROVE  TraceInv' /\ RecordHasObject' /\ AcceptedIsStored'
  BY <1>9 DEF Recognise, Goto, FailWith, Corrected, Suspect
<1>10. ASSUME NEW u \in Uploads, AuditFlag(u)
      PROVE  TraceInv' /\ RecordHasObject' /\ AcceptedIsStored'
  BY <1>10 DEF AuditFlag, Goto, Record, Corrected
<1>11. ASSUME NEW u \in Uploads, Extract(u)
      PROVE  TraceInv' /\ RecordHasObject' /\ AcceptedIsStored'
  BY <1>11 DEF Extract, Goto, Outcomes
<1>12. ASSUME NEW u \in Uploads, SaveExtraction(u)
      PROVE  TraceInv' /\ RecordHasObject' /\ AcceptedIsStored'
  <2> DEFINE d == doc[u]
  <2>1. file[u] \in Files /\ doc[u] \in Documents
    BY <1>12 DEF SaveExtraction
  <2>3. d \in Documents
    BY <2>1
  <2>4. SaveDocument(u, d)
    BY <1>12 DEF SaveExtraction, SaveAndGoto
  <2>5. TraceInv'
    BY <1>12, <2>1, <2>3, <2>4, SaveEffect DEF SaveExtraction, SaveAndGoto, Goto
  <2>6. ASSUME NEW c \in Contents
        PROVE  /\ rows[c] # NoRow => rows'[c] # NoRow
               /\ rows'[c] # NoRow => <<c, rows'[c].name>> \in objects
               /\ rows'[c] # NoRow /\ rows'[c].doc.status # "UPLOADED" =>
                    Known(c, "DOCUMENT_UPLOADED")
    <3>1. CASE c = file[u].content
      BY <1>12, <2>1, <2>3, <2>4, <3>1, SaveEffect DEF SaveExtraction
    <3>2. CASE c # file[u].content
      BY <2>1, <2>3, <2>4, <3>2, SaveEffect
    <3> QED
      BY <3>1, <3>2
  <2>7. UNCHANGED <<objects, audit, file, reply>>
    BY <1>12 DEF SaveExtraction, SaveAndGoto
  <2>8. RecordHasObject'
    BY <2>6, <2>7
  <2>9. \A v \in Uploads : reply[v] \in {"accepted", "existing"} => file[v].content \in Contents
    BY DEF Files
  <2>10. AcceptedIsStored'
    BY <2>6, <2>7, <2>9
  <2> QED
    BY <2>5, <2>8, <2>10
<1>13. ASSUME NEW u \in Uploads, AuditExtracted(u)
      PROVE  TraceInv' /\ RecordHasObject' /\ AcceptedIsStored'
  BY <1>13 DEF AuditExtracted, Goto, AuditAndGoto, Record
<1>14. ASSUME NEW u \in Uploads, AuditLc(u)
      PROVE  TraceInv' /\ RecordHasObject' /\ AcceptedIsStored'
  BY <1>14 DEF AuditLc, Goto, AuditAndGoto, Record
<1>15. ASSUME NEW u \in Uploads, SaveFailed(u)
      PROVE  TraceInv' /\ RecordHasObject' /\ AcceptedIsStored'
  <2> DEFINE d == doc[u]
  <2>1. file[u] \in Files /\ doc[u] \in Documents
    BY <1>15 DEF SaveFailed
  <2>3. d \in Documents
    BY <2>1
  <2>4. SaveDocument(u, d)
    BY <1>15 DEF SaveFailed, SaveAndGoto
  <2>5. TraceInv'
    BY <1>15, <2>1, <2>3, <2>4, SaveEffect DEF SaveFailed, SaveAndGoto, Goto
  <2>6. ASSUME NEW c \in Contents
        PROVE  /\ rows[c] # NoRow => rows'[c] # NoRow
               /\ rows'[c] # NoRow => <<c, rows'[c].name>> \in objects
               /\ rows'[c] # NoRow /\ rows'[c].doc.status # "UPLOADED" =>
                    Known(c, "DOCUMENT_UPLOADED")
    <3>1. CASE c = file[u].content
      BY <1>15, <2>1, <2>3, <2>4, <3>1, SaveEffect DEF SaveFailed
    <3>2. CASE c # file[u].content
      BY <2>1, <2>3, <2>4, <3>2, SaveEffect
    <3> QED
      BY <3>1, <3>2
  <2>7. UNCHANGED <<objects, audit, file, reply>>
    BY <1>15 DEF SaveFailed, SaveAndGoto
  <2>8. RecordHasObject'
    BY <2>6, <2>7
  <2>9. \A v \in Uploads : reply[v] \in {"accepted", "existing"} => file[v].content \in Contents
    BY DEF Files
  <2>10. AcceptedIsStored'
    BY <2>6, <2>7, <2>9
  <2> QED
    BY <2>5, <2>8, <2>10
<1>16. ASSUME NEW u \in Uploads, Raise(u)
      PROVE  TraceInv' /\ RecordHasObject' /\ AcceptedIsStored'
  <2>1. CASE pc[u] \in RequestSteps /\ Goto(u, "dead") /\ Answer(u, "error") /\ UNCHANGED doc
    BY <1>16, <2>1 DEF Raise, Goto, Answer
  <2>2. ASSUME pc[u] \in TaskSteps \union AuditSteps, UNCHANGED reply,
               NEW error \in Errors, FailWith(u, error)
        PROVE  TraceInv' /\ RecordHasObject' /\ AcceptedIsStored'
    BY <1>16, <2>2, FailEffect DEF Raise
  <2>3. CASE pc[u] = "save_failed" /\ Goto(u, "dead") /\ UNCHANGED <<doc, reply>>
    BY <1>16, <2>3 DEF Raise, Goto
  <2> QED
    BY <1>16, <2>1, <2>2, <2>3 DEF Raise
<1>17. CASE Restart
  BY <1>17 DEF Restart
<1>18. CASE UNCHANGED vars
  BY <1>18 DEF vars
<1> QED
  BY <1>1, <1>2, <1>3, <1>4, <1>5, <1>6, <1>7, <1>8, <1>9, <1>10, <1>11, <1>12, <1>13,
     <1>14, <1>15, <1>16, <1>17, <1>18 DEF Next, Step

\* A record that is not final keeps somebody who will save it.
LEMMA SettledStep == PipelineInv /\ [Next]_vars => SettledInv'
<1> SUFFICES ASSUME PipelineInv, [Next]_vars PROVE SettledInv'
  OBVIOUS
<1> USE DEF PipelineInv, TypeOK, MemoryInv, SettledInv, At, RequestSteps, TaskSteps,
            AuditSteps, Working, ExtractSteps, Final, Recognised
<1>1. ASSUME NEW u \in Uploads, NEW g \in Files, Begin(u, g)
      PROVE  SettledInv'
  BY <1>1 DEF Begin, Goto, Answer
<1>2. ASSUME NEW u \in Uploads, Lookup(u)
      PROVE  SettledInv'
  BY <1>2 DEF Lookup, Goto, Answer
<1>3. ASSUME NEW u \in Uploads, Put(u)
      PROVE  SettledInv'
  BY <1>3 DEF Put, Goto
<1>4. ASSUME NEW u \in Uploads, Insert(u)
      PROVE  SettledInv'
  BY <1>4 DEF Insert, Goto, SaveDocument
<1>5. ASSUME NEW u \in Uploads, AuditUploaded(u)
      PROVE  SettledInv'
  BY <1>5 DEF AuditUploaded, Goto, Answer, Record
<1>6. ASSUME NEW u \in Uploads, Classify(u)
      PROVE  SettledInv'
  BY <1>6 DEF Classify, Goto, SaveAndGoto, SaveDocument
<1>7. ASSUME NEW u \in Uploads, AuditClassified(u)
      PROVE  SettledInv'
  BY <1>7 DEF AuditClassified, Goto, AuditAndGoto, Record
<1>8. ASSUME NEW u \in Uploads, Extracting(u)
      PROVE  SettledInv'
  BY <1>8 DEF Extracting, Goto, SaveAndGoto, SaveDocument
<1>9. ASSUME NEW u \in Uploads, Recognise(u)
      PROVE  SettledInv'
  BY <1>9 DEF Recognise, Goto, FailWith, Corrected, Suspect
<1>10. ASSUME NEW u \in Uploads, AuditFlag(u)
      PROVE  SettledInv'
  BY <1>10 DEF AuditFlag, Goto, Record, Corrected
<1>11. ASSUME NEW u \in Uploads, Extract(u)
      PROVE  SettledInv'
  BY <1>11 DEF Extract, Goto, Outcomes
<1>12. ASSUME NEW u \in Uploads, SaveExtraction(u)
      PROVE  SettledInv'
  BY <1>12 DEF SaveExtraction, Goto, SaveAndGoto, SaveDocument
<1>13. ASSUME NEW u \in Uploads, AuditExtracted(u)
      PROVE  SettledInv'
  BY <1>13 DEF AuditExtracted, Goto, AuditAndGoto, Record
<1>14. ASSUME NEW u \in Uploads, AuditLc(u)
      PROVE  SettledInv'
  BY <1>14 DEF AuditLc, Goto, AuditAndGoto, Record
<1>15. ASSUME NEW u \in Uploads, SaveFailed(u)
      PROVE  SettledInv'
  BY <1>15 DEF SaveFailed, Goto, SaveAndGoto, SaveDocument
<1>16. ASSUME NEW u \in Uploads, Raise(u)
      PROVE  SettledInv'
  <2>1. CASE pc[u] \in RequestSteps /\ Goto(u, "dead") /\ Answer(u, "error") /\ UNCHANGED doc
    BY <1>16, <2>1 DEF Raise, Goto, Answer
  <2>2. ASSUME pc[u] \in TaskSteps \union AuditSteps, UNCHANGED reply,
               NEW error \in Errors, FailWith(u, error)
        PROVE  SettledInv'
    BY <1>16, <2>2, FailEffect DEF Raise
  <2>3. CASE pc[u] = "save_failed" /\ Goto(u, "dead") /\ UNCHANGED <<doc, reply>>
    BY <1>16, <2>3 DEF Raise, Goto
  <2> QED
    BY <1>16, <2>1, <2>2, <2>3 DEF Raise
<1>17. CASE Restart
  BY <1>17 DEF Restart
<1>18. CASE UNCHANGED vars
  BY <1>18 DEF vars
<1> QED
  BY <1>1, <1>2, <1>3, <1>4, <1>5, <1>6, <1>7, <1>8, <1>9, <1>10, <1>11, <1>12, <1>13,
     <1>14, <1>15, <1>16, <1>17, <1>18 DEF Next, Step

\* An extraction is audited or still watched.
LEMMA ExtractionStep == PipelineInv /\ [Next]_vars => ExtractionInv'
<1> SUFFICES ASSUME PipelineInv, [Next]_vars PROVE ExtractionInv'
  OBVIOUS
<1> USE DEF PipelineInv, TypeOK, MemoryInv, ExtractionInv, At, Known, RequestSteps,
            TaskSteps, AuditSteps, Working, ExtractSteps, Recognised, NewDocument
<1>1. ASSUME NEW u \in Uploads, NEW g \in Files, Begin(u, g)
      PROVE  ExtractionInv'
  BY <1>1 DEF Begin, Goto, Answer
<1>2. ASSUME NEW u \in Uploads, Lookup(u)
      PROVE  ExtractionInv'
  BY <1>2 DEF Lookup, Goto, Answer
<1>3. ASSUME NEW u \in Uploads, Put(u)
      PROVE  ExtractionInv'
  BY <1>3 DEF Put, Goto
<1>4. ASSUME NEW u \in Uploads, Insert(u)
      PROVE  ExtractionInv'
  BY <1>4 DEF Insert, Goto, SaveDocument
<1>5. ASSUME NEW u \in Uploads, AuditUploaded(u)
      PROVE  ExtractionInv'
  BY <1>5 DEF AuditUploaded, Goto, Answer, Record
<1>6. ASSUME NEW u \in Uploads, Classify(u)
      PROVE  ExtractionInv'
  BY <1>6 DEF Classify, Goto, SaveAndGoto, SaveDocument
<1>7. ASSUME NEW u \in Uploads, AuditClassified(u)
      PROVE  ExtractionInv'
  BY <1>7 DEF AuditClassified, Goto, AuditAndGoto, Record
<1>8. ASSUME NEW u \in Uploads, Extracting(u)
      PROVE  ExtractionInv'
  BY <1>8 DEF Extracting, Goto, SaveAndGoto, SaveDocument
<1>9. ASSUME NEW u \in Uploads, Recognise(u)
      PROVE  ExtractionInv'
  BY <1>9 DEF Recognise, Goto, FailWith, Corrected, Suspect
<1>10. ASSUME NEW u \in Uploads, AuditFlag(u)
      PROVE  ExtractionInv'
  BY <1>10 DEF AuditFlag, Goto, Record, Corrected
<1>11. ASSUME NEW u \in Uploads, Extract(u)
      PROVE  ExtractionInv'
  BY <1>11 DEF Extract, Goto, Outcomes
<1>12. ASSUME NEW u \in Uploads, SaveExtraction(u)
      PROVE  ExtractionInv'
  BY <1>12 DEF SaveExtraction, Goto, SaveAndGoto, SaveDocument
<1>13. ASSUME NEW u \in Uploads, AuditExtracted(u)
      PROVE  ExtractionInv'
  BY <1>13 DEF AuditExtracted, Goto, AuditAndGoto, Record
<1>14. ASSUME NEW u \in Uploads, AuditLc(u)
      PROVE  ExtractionInv'
  BY <1>14 DEF AuditLc, Goto, AuditAndGoto, Record
<1>15. ASSUME NEW u \in Uploads, SaveFailed(u)
      PROVE  ExtractionInv'
  BY <1>15 DEF SaveFailed, Goto, SaveAndGoto, SaveDocument
<1>16. ASSUME NEW u \in Uploads, Raise(u)
      PROVE  ExtractionInv'
  <2>1. CASE pc[u] \in RequestSteps /\ Goto(u, "dead") /\ Answer(u, "error") /\ UNCHANGED doc
    BY <1>16, <2>1 DEF Raise, Goto, Answer
  <2>2. ASSUME pc[u] \in TaskSteps \union AuditSteps, UNCHANGED reply,
               NEW error \in Errors, FailWith(u, error)
        PROVE  ExtractionInv'
    BY <1>16, <2>2, FailEffect DEF Raise
  <2>3. CASE pc[u] = "save_failed" /\ Goto(u, "dead") /\ UNCHANGED <<doc, reply>>
    BY <1>16, <2>3 DEF Raise, Goto
  <2> QED
    BY <1>16, <2>1, <2>2, <2>3 DEF Raise
<1>17. CASE Restart
  BY <1>17 DEF Restart
<1>18. CASE UNCHANGED vars
  BY <1>18 DEF vars
<1> QED
  BY <1>1, <1>2, <1>3, <1>4, <1>5, <1>6, <1>7, <1>8, <1>9, <1>10, <1>11, <1>12, <1>13,
     <1>14, <1>15, <1>16, <1>17, <1>18 DEF Next, Step

\* The advisory goes with the extraction.
LEMMA FlagStep == PipelineInv /\ [Next]_vars => FlagInv' /\ InjectionReported'
<1> SUFFICES ASSUME PipelineInv, [Next]_vars PROVE FlagInv' /\ InjectionReported'
  OBVIOUS
<1> USE DEF PipelineInv, TypeOK, MemoryInv, FlagInv, InjectionReported, Known,
            RequestSteps, TaskSteps, AuditSteps, Working, ExtractSteps, Recognised,
            NewDocument
<1>1. ASSUME NEW u \in Uploads, NEW g \in Files, Begin(u, g)
      PROVE  FlagInv' /\ InjectionReported'
  BY <1>1 DEF Begin, Goto, Answer
<1>2. ASSUME NEW u \in Uploads, Lookup(u)
      PROVE  FlagInv' /\ InjectionReported'
  BY <1>2 DEF Lookup, Goto, Answer
<1>3. ASSUME NEW u \in Uploads, Put(u)
      PROVE  FlagInv' /\ InjectionReported'
  BY <1>3 DEF Put, Goto
<1>4. ASSUME NEW u \in Uploads, Insert(u)
      PROVE  FlagInv' /\ InjectionReported'
  BY <1>4 DEF Insert, Goto, SaveDocument
<1>5. ASSUME NEW u \in Uploads, AuditUploaded(u)
      PROVE  FlagInv' /\ InjectionReported'
  BY <1>5 DEF AuditUploaded, Goto, Answer, Record
<1>6. ASSUME NEW u \in Uploads, Classify(u)
      PROVE  FlagInv' /\ InjectionReported'
  BY <1>6 DEF Classify, Goto, SaveAndGoto, SaveDocument
<1>7. ASSUME NEW u \in Uploads, AuditClassified(u)
      PROVE  FlagInv' /\ InjectionReported'
  BY <1>7 DEF AuditClassified, Goto, AuditAndGoto, Record
<1>8. ASSUME NEW u \in Uploads, Extracting(u)
      PROVE  FlagInv' /\ InjectionReported'
  BY <1>8 DEF Extracting, Goto, SaveAndGoto, SaveDocument
<1>9. ASSUME NEW u \in Uploads, Recognise(u)
      PROVE  FlagInv' /\ InjectionReported'
  <2>1. CASE FailWith(u, "DATA_UNAVAILABLE")
    BY <1>9, <2>1, FailEffect DEF Recognise, Errors
  <2>2. CASE Suspect(u) /\ doc' = [doc EXCEPT ![u] = [@ EXCEPT !.flagged = TRUE]]
                       /\ Goto(u, "audit_flag")
    <3>1. doc[u] \in Documents
      BY <1>9 DEF Recognise
    <3>2. doc'[u].flagged
      BY <2>2, <3>1 DEF Documents
    <3> QED
      BY <1>9, <2>2, <3>2 DEF Recognise, Goto
  <2>3. CASE ~Suspect(u) /\ doc' = [doc EXCEPT ![u] = Corrected(u)] /\ Goto(u, "extract")
    BY <1>9, <2>3 DEF Recognise, Goto, Suspect
  <2> QED
    BY <1>9, <2>1, <2>2, <2>3 DEF Recognise
<1>10. ASSUME NEW u \in Uploads, AuditFlag(u)
      PROVE  FlagInv' /\ InjectionReported'
  BY <1>10 DEF AuditFlag, Goto, Record, Corrected
<1>11. ASSUME NEW u \in Uploads, Extract(u)
      PROVE  FlagInv' /\ InjectionReported'
  BY <1>11 DEF Extract, Goto, Outcomes
<1>12. ASSUME NEW u \in Uploads, SaveExtraction(u)
      PROVE  FlagInv' /\ InjectionReported'
  BY <1>12 DEF SaveExtraction, Goto, SaveAndGoto, SaveDocument
<1>13. ASSUME NEW u \in Uploads, AuditExtracted(u)
      PROVE  FlagInv' /\ InjectionReported'
  BY <1>13 DEF AuditExtracted, Goto, AuditAndGoto, Record
<1>14. ASSUME NEW u \in Uploads, AuditLc(u)
      PROVE  FlagInv' /\ InjectionReported'
  BY <1>14 DEF AuditLc, Goto, AuditAndGoto, Record
<1>15. ASSUME NEW u \in Uploads, SaveFailed(u)
      PROVE  FlagInv' /\ InjectionReported'
  BY <1>15 DEF SaveFailed, Goto, SaveAndGoto, SaveDocument
<1>16. ASSUME NEW u \in Uploads, Raise(u)
      PROVE  FlagInv' /\ InjectionReported'
  <2>1. CASE pc[u] \in RequestSteps /\ Goto(u, "dead") /\ Answer(u, "error") /\ UNCHANGED doc
    BY <1>16, <2>1 DEF Raise, Goto, Answer
  <2>2. ASSUME pc[u] \in TaskSteps \union AuditSteps, UNCHANGED reply,
               NEW error \in Errors, FailWith(u, error)
        PROVE  FlagInv' /\ InjectionReported'
    BY <1>16, <2>2, FailEffect DEF Raise
  <2>3. CASE pc[u] = "save_failed" /\ Goto(u, "dead") /\ UNCHANGED <<doc, reply>>
    BY <1>16, <2>3 DEF Raise, Goto
  <2> QED
    BY <1>16, <2>1, <2>2, <2>3 DEF Raise
<1>17. CASE Restart
  BY <1>17 DEF Restart
<1>18. CASE UNCHANGED vars
  BY <1>18 DEF vars
<1> QED
  BY <1>1, <1>2, <1>3, <1>4, <1>5, <1>6, <1>7, <1>8, <1>9, <1>10, <1>11, <1>12, <1>13,
     <1>14, <1>15, <1>16, <1>17, <1>18 DEF Next, Step

-------------------------------------------------------------------------------
(* The theorems *)

\* The invariant the safety of the document pipeline rests on.
THEOREM PipelineInvariance == Spec => []PipelineInv
<1>1. Init => PipelineInv
  BY InitPipelineInv
<1>2. PipelineInv /\ [Next]_vars => PipelineInv'
  BY TypeStep, MemoryStep, TraceStep, SettledStep, ExtractionStep, FlagStep DEF PipelineInv
<1> QED
  BY <1>1, <1>2, PTL DEF Spec

\* The stores and the handlers keep the kind of values they are meant to keep.
THEOREM PipelineTypeCorrect == Spec => []TypeOK
<1>1. PipelineInv => TypeOK
  BY DEF PipelineInv
<1> QED
  BY <1>1, PipelineInvariance, PTL

\* However uploads race, fail or die, no record lacks its file.
THEOREM RecordsHaveObjects == Spec => []RecordHasObject
<1>1. PipelineInv => RecordHasObject
  BY DEF PipelineInv
<1> QED
  BY <1>1, PipelineInvariance, PTL

\* What a client was told is stored is stored, and what was worked on was
\* uploaded on the record.
THEOREM AcceptedAreStored == Spec => []AcceptedIsStored
<1>1. PipelineInv => AcceptedIsStored
  BY DEF PipelineInv
<1> QED
  BY <1>1, PipelineInvariance, PTL

\* However many uploads of one file overwrite each other's saves, the record is
\* final when the last of them is done and none of them died.
THEOREM SettledAreFinal == Spec => []SettledIsFinal
<1>1. PipelineInv => SettledIsFinal
  BY DEF PipelineInv, SettledInv, SettledIsFinal, At, Working, RequestSteps
<1> QED
  BY <1>1, PipelineInvariance, PTL

\* No extraction stays unaudited unless the task that saved it died.
THEOREM ExtractionsAreAudited == Spec => []ExtractionAudited
<1>1. PipelineInv => ExtractionAudited
  BY DEF PipelineInv, ExtractionInv, ExtractionAudited, At, Working, AuditSteps
<1> QED
  BY <1>1, PipelineInvariance, PTL

\* Instruction-like text never reaches an extraction without advisory and event.
THEOREM InjectionsAreReported == Spec => []InjectionReported
<1>1. PipelineInv => InjectionReported
  BY DEF PipelineInv
<1> QED
  BY <1>1, PipelineInvariance, PTL

-------------------------------------------------------------------------------
(* An upload alone moves its record forward *)

\* Every step keeps what the uploads have in memory.
LEMMA StatusStep == PipelineInv /\ StatusInv /\ [Next]_vars => StatusInv'
<1> SUFFICES ASSUME PipelineInv, StatusInv, [Next]_vars PROVE StatusInv'
  OBVIOUS
<1> USE DEF PipelineInv, TypeOK, MemoryInv, StatusInv, RequestSteps, TaskSteps, AuditSteps,
            Working
<1>1. ASSUME NEW u \in Uploads, NEW g \in Files, Begin(u, g)
      PROVE  StatusInv'
  BY <1>1 DEF Begin, Goto, Answer, NewDocument
<1>2. ASSUME NEW u \in Uploads, Lookup(u)
      PROVE  StatusInv'
  BY <1>2 DEF Lookup, Goto, Answer
<1>3. ASSUME NEW u \in Uploads, Put(u) \/ Insert(u) \/ AuditUploaded(u)
      PROVE  StatusInv'
  BY <1>3 DEF Put, Insert, AuditUploaded, Goto, Answer
<1>4. ASSUME NEW u \in Uploads, Classify(u) \/ AuditClassified(u) \/ Extracting(u)
      PROVE  StatusInv'
  <2>1. /\ [doc[u] EXCEPT !.type = HintOf[file[u].name], !.status = "CLASSIFIED"].status
             = "CLASSIFIED"
        /\ [doc[u] EXCEPT !.status = "EXTRACTING"].status = "EXTRACTING"
    <3>1. doc[u] \in Documents
      OBVIOUS
    <3> QED
      BY <3>1 DEF Documents
  <2>2. CASE Classify(u)
    BY <2>1, <2>2 DEF Classify, SaveAndGoto, Goto
  <2>3. CASE AuditClassified(u)
    BY <2>3 DEF AuditClassified, AuditAndGoto, Goto
  <2>4. CASE Extracting(u)
    BY <2>1, <2>4 DEF Extracting, SaveAndGoto, Goto
  <2> QED
    BY <1>4, <2>2, <2>3, <2>4
<1>5. ASSUME NEW u \in Uploads, Recognise(u) \/ AuditFlag(u)
      PROVE  StatusInv'
  <2>1. doc[u] \in Documents
    OBVIOUS
  <2>2. /\ Corrected(u).status = doc[u].status
        /\ [doc[u] EXCEPT !.flagged = TRUE].status = doc[u].status
    BY <2>1 DEF Corrected, Documents
  <2>3. CASE FailWith(u, "DATA_UNAVAILABLE") /\ UNCHANGED reply /\ pc[u] = "recognise"
    BY <2>3 DEF FailWith, Goto
  <2>4. CASE /\ doc' = [doc EXCEPT ![u] = [@ EXCEPT !.flagged = TRUE]]
             /\ Goto(u, "audit_flag") /\ UNCHANGED reply /\ pc[u] = "recognise"
    BY <2>2, <2>4 DEF Goto
  <2>5. CASE /\ doc' = [doc EXCEPT ![u] = Corrected(u)] /\ Goto(u, "extract")
             /\ UNCHANGED reply /\ pc[u] \in {"recognise", "audit_flag"}
    BY <2>2, <2>5 DEF Goto
  <2> QED
    BY <1>5, <2>3, <2>4, <2>5 DEF Recognise, AuditFlag
<1>6. ASSUME NEW u \in Uploads, Extract(u) \/ SaveExtraction(u)
      PROVE  StatusInv'
  <2>1. CASE Extract(u)
    <3>1. \A v \in Uploads \ {u} : doc'[v] = doc[v]
      BY <2>1 DEF Extract
    <3> QED
      BY <2>1, <3>1 DEF Extract, Goto
  <2>2. CASE SaveExtraction(u)
    BY <2>2 DEF SaveExtraction, SaveAndGoto, Goto
  <2> QED
    BY <1>6, <2>1, <2>2
<1>7. ASSUME NEW u \in Uploads, AuditExtracted(u) \/ AuditLc(u) \/ SaveFailed(u)
      PROVE  StatusInv'
  BY <1>7 DEF AuditExtracted, AuditLc, SaveFailed, SaveAndGoto, AuditAndGoto, Goto
<1>8. ASSUME NEW u \in Uploads, Raise(u)
      PROVE  StatusInv'
  <2>1. CASE pc[u] \in RequestSteps /\ Goto(u, "dead") /\ Answer(u, "error") /\ UNCHANGED doc
    BY <2>1 DEF Goto, Answer
  <2>2. ASSUME pc[u] \in TaskSteps \union AuditSteps, UNCHANGED reply,
               NEW error \in Errors, FailWith(u, error)
        PROVE  StatusInv'
    BY <2>2, FailEffect
  <2>3. CASE pc[u] = "save_failed" /\ Goto(u, "dead") /\ UNCHANGED <<doc, reply>>
    BY <2>3 DEF Goto
  <2> QED
    BY <1>8, <2>1, <2>2, <2>3 DEF Raise
<1>9. CASE Restart
  BY <1>9 DEF Restart
<1>10. CASE UNCHANGED vars
  BY <1>10 DEF vars
<1> QED
  BY <1>1, <1>2, <1>3, <1>4, <1>5, <1>6, <1>7, <1>8, <1>9, <1>10 DEF Next, Step

\* What the other uploads see of a step of u: nothing, or a save of u's record.
Others(u) ==
  \A v \in Uploads \ {u} :
    pc'[v] = pc[v] /\ file'[v] = file[v] /\ doc'[v] = doc[v] /\ reply'[v] = reply[v]

Starts(u) ==
  /\ pc[u] = "idle" /\ Others(u) /\ rows' = rows
  /\ pc'[u] = "lookup" \/ reply'[u] = "refused"

Looks(u) ==
  /\ pc[u] = "lookup" /\ Others(u) /\ rows' = rows /\ file' = file /\ doc' = doc
  /\ \/ pc'[u] = "put" /\ rows[file[u].content] = NoRow
     \/ pc'[u] = "done" /\ reply'[u] = "existing"
     \/ pc'[u] = "dead"

Works(u) ==
  /\ pc[u] \in Working \ {"lookup"} /\ Others(u) /\ file' = file
  /\ pc'[u] \in Labels \ {"idle", "lookup", "put"}
  /\ pc'[u] = "insert" => pc[u] = "put"
  /\ reply'[u] \notin {"refused", "existing"}
  /\ Progress[doc[u].status] <= Progress[doc'[u].status]
  /\ \/ rows' = rows
     \/ /\ pc'[u] # "insert"
        /\ rows'[file[u].content] # NoRow
        /\ rows'[file[u].content].doc = doc'[u]
        /\ \A c \in Contents \ {file[u].content} : rows'[c] = rows[c]

\* The order of the statuses, in numbers.
LEMMA ProgressOrder ==
  /\ \A s \in Statuses : Progress[s] \in Nat /\ Progress[s] <= Progress["FAILED"]
  /\ Progress["UPLOADED"] <= Progress["CLASSIFIED"]
  /\ Progress["CLASSIFIED"] <= Progress["EXTRACTING"]
  /\ \A s \in Recognised : Progress["EXTRACTING"] <= Progress[s]
BY DEF Progress, Statuses, Final, Recognised

\* Every call of an upload past its lookup works on its record alone.
LEMMA WorkStep ==
  ASSUME PipelineInv, StatusInv, NEW u \in Uploads, Step(u) \/ Raise(u), pc[u] # "lookup"
  PROVE  Works(u)
<1> USE DEF PipelineInv, TypeOK, MemoryInv, StatusInv, RequestSteps, TaskSteps, AuditSteps,
            Working, Labels, Others
<1>1. /\ doc[u] \in Documents /\ doc[u].status \in Statuses
      /\ Progress[doc[u].status] <= Progress[doc[u].status]
      /\ pc[u] \in Labels
  <2>1. doc[u] \in Documents /\ doc[u].status \in Statuses
    BY DEF Documents
  <2>2. Progress[doc[u].status] \in Nat
    BY <2>1, ProgressOrder
  <2>3. \A n \in Nat : n <= n
    OBVIOUS
  <2> QED
    BY <2>1, <2>2, <2>3
<1>2. ASSUME Put(u) \/ AuditUploaded(u)
      PROVE  Works(u)
  BY <1>1, <1>2 DEF Put, AuditUploaded, Goto, Answer, Works
<1>3. ASSUME AuditClassified(u) \/ AuditExtracted(u) \/ AuditLc(u)
      PROVE  Works(u)
  BY <1>1, <1>3 DEF AuditClassified, AuditExtracted, AuditLc, AuditAndGoto, Goto, Works
<1>4. ASSUME Insert(u)
      PROVE  Works(u)
  <2>1. /\ rows'[file[u].content] # NoRow
        /\ rows'[file[u].content].doc = doc[u]
        /\ \A c \in Contents \ {file[u].content} : rows'[c] = rows[c]
    BY <1>1, <1>4, SaveEffect DEF Insert
  <2> QED
    BY <1>1, <1>4, <2>1 DEF Insert, Goto, Works
<1>5. ASSUME NEW d \in Documents, NEW label \in Labels \ {"idle", "lookup", "put", "insert"},
             SaveAndGoto(u, d, label), pc[u] \in Working \ RequestSteps,
             Progress[doc[u].status] <= Progress[d.status]
      PROVE  Works(u)
  <2>1. /\ rows'[file[u].content] # NoRow
        /\ rows'[file[u].content].doc = d
        /\ \A c \in Contents \ {file[u].content} : rows'[c] = rows[c]
    BY <1>5, SaveEffect DEF SaveAndGoto
  <2>2. doc'[u] = d /\ \A v \in Uploads \ {u} : doc'[v] = doc[v]
    BY <1>5 DEF SaveAndGoto
  <2>3. pc'[u] = label /\ \A v \in Uploads \ {u} : pc'[v] = pc[v]
    BY <1>5 DEF SaveAndGoto, Goto
  <2> QED
    BY <1>5, <2>1, <2>2, <2>3 DEF SaveAndGoto, Works
<1>6. ASSUME Classify(u)
      PROVE  Works(u)
  <2> DEFINE d == [doc[u] EXCEPT !.type = HintOf[file[u].name], !.status = "CLASSIFIED"]
  <2>1. HintOf[file[u].name] \in DocumentTypes
    BY <1>6, PipelineAssumption DEF Classify, PipelineAssumption, Files
  <2>2. d \in Documents /\ d.status = "CLASSIFIED" /\ doc[u].status = "UPLOADED"
    BY <1>1, <1>6, <2>1, DocumentUpdates DEF Classify, Statuses, Final, Documents
  <2> QED
    BY <1>5, <1>6, <2>2, ProgressOrder DEF Classify
<1>7. ASSUME Extracting(u)
      PROVE  Works(u)
  <2> DEFINE d == [doc[u] EXCEPT !.status = "EXTRACTING"]
  <2>1. d \in Documents /\ d.status = "EXTRACTING" /\ doc[u].status = "CLASSIFIED"
    BY <1>1, <1>7, DocumentUpdates DEF Extracting, Statuses, Final, Documents
  <2> QED
    BY <1>5, <1>7, <2>1, ProgressOrder DEF Extracting
<1>8. ASSUME SaveExtraction(u) \/ SaveFailed(u)
      PROVE  Works(u)
  BY <1>1, <1>5, <1>8 DEF SaveExtraction, SaveFailed
<1>9. ASSUME NEW d, NEW label \in Labels \ {"idle", "lookup", "put", "insert"},
             doc' = [doc EXCEPT ![u] = d], Goto(u, label), UNCHANGED <<rows, file, reply>>,
             pc[u] \in Working \ RequestSteps, Progress[doc[u].status] <= Progress[d.status]
      PROVE  Works(u)
  BY <1>9 DEF Goto, Works
<1>10. ASSUME NEW error \in Errors, FailWith(u, error), UNCHANGED <<rows, file, reply>>,
              pc[u] \in Working \ RequestSteps
       PROVE  Works(u)
  <2>1. doc'[u].status = "FAILED" /\ pc'[u] = "save_failed"
    BY <1>10, FailEffect
  <2>2. \A v \in Uploads \ {u} : doc'[v] = doc[v] /\ pc'[v] = pc[v]
    BY <1>10, FailEffect
  <2>3. Progress[doc[u].status] <= Progress[doc'[u].status]
    BY <1>1, <2>1, ProgressOrder
  <2> QED
    BY <1>10, <2>1, <2>2, <2>3 DEF Works
<1>11. ASSUME Recognise(u) \/ AuditFlag(u)
       PROVE  Works(u)
  <2>1. /\ Corrected(u).status = doc[u].status
        /\ [doc[u] EXCEPT !.flagged = TRUE].status = doc[u].status
    BY <1>1 DEF Corrected, Documents
  <2>2. CASE FailWith(u, "DATA_UNAVAILABLE") /\ Recognise(u)
    BY <1>10, <2>2 DEF Recognise, Errors
  <2>3. CASE /\ doc' = [doc EXCEPT ![u] = [@ EXCEPT !.flagged = TRUE]]
             /\ Goto(u, "audit_flag") /\ Recognise(u)
    BY <1>1, <1>9, <2>1, <2>3 DEF Recognise
  <2>4. CASE doc' = [doc EXCEPT ![u] = Corrected(u)] /\ Goto(u, "extract")
    BY <1>1, <1>9, <1>11, <2>1, <2>4 DEF Recognise, AuditFlag
  <2> QED
    BY <1>11, <2>2, <2>3, <2>4 DEF Recognise, AuditFlag
<1>12. ASSUME Extract(u)
       PROVE  Works(u)
  <2>1. PICK o \in Outcomes(doc[u].type) :
          doc' = [doc EXCEPT ![u] = [@ EXCEPT !.status = o.status, !.extraction = o.extraction]]
    BY <1>12 DEF Extract
  <2>2. o.status \in Recognised
    BY <2>1 DEF Outcomes, Recognised
  <2>3. [doc[u] EXCEPT !.status = o.status, !.extraction = o.extraction].status = o.status
    BY <1>1 DEF Documents
  <2>4. doc[u].status = "EXTRACTING"
    BY <1>12 DEF Extract
  <2> QED
    BY <1>9, <1>12, <2>1, <2>2, <2>3, <2>4, ProgressOrder DEF Extract
<1>13. ASSUME Raise(u)
       PROVE  Works(u)
  <2>1. CASE pc[u] \in RequestSteps /\ Goto(u, "dead") /\ Answer(u, "error") /\ UNCHANGED doc
    BY <1>1, <1>13, <2>1 DEF Raise, Goto, Answer, Works
  <2>2. CASE /\ pc[u] \in TaskSteps \union AuditSteps /\ UNCHANGED reply
             /\ \E error \in Errors : FailWith(u, error)
    BY <1>10, <1>13, <2>2 DEF Raise
  <2>3. CASE pc[u] = "save_failed" /\ Goto(u, "dead") /\ UNCHANGED <<doc, reply>>
    BY <1>1, <1>13, <2>3 DEF Raise, Goto, Works
  <2> QED
    BY <1>13, <2>1, <2>2, <2>3 DEF Raise
<1> QED
  BY <1>2, <1>3, <1>4, <1>6, <1>7, <1>8, <1>11, <1>12, <1>13 DEF Step, Lookup

\* Every step of the pipeline is of one of these kinds.
LEMMA StepKinds ==
  ASSUME PipelineInv, StatusInv, [Next]_vars
  PROVE  \/ \E u \in Uploads : Starts(u) \/ Looks(u) \/ Works(u)
         \/ Restart
         \/ UNCHANGED vars
<1> USE DEF PipelineInv, TypeOK, Others
<1>1. ASSUME NEW u \in Uploads, NEW g \in Files, Begin(u, g)
      PROVE  Starts(u)
  BY <1>1 DEF Begin, Goto, Answer, Starts
<1>2. ASSUME NEW u \in Uploads, Lookup(u)
      PROVE  Looks(u)
  BY <1>2 DEF Lookup, Goto, Answer, Looks
<1>3. ASSUME NEW u \in Uploads, Raise(u), pc[u] = "lookup"
      PROVE  Looks(u)
  BY <1>3 DEF Raise, Goto, Answer, Looks, RequestSteps, TaskSteps, AuditSteps
<1>4. ASSUME NEW u \in Uploads, Step(u), pc[u] = "lookup"
      PROVE  Lookup(u)
  BY <1>4 DEF Step, Put, Insert, AuditUploaded, Classify, AuditClassified, Extracting, Recognise,
              AuditFlag, Extract, SaveExtraction, AuditExtracted, AuditLc, SaveFailed
<1>5. ASSUME NEW u \in Uploads, Step(u) \/ Raise(u)
      PROVE  Looks(u) \/ Works(u)
  BY <1>2, <1>3, <1>4, <1>5, WorkStep
<1> QED
  BY <1>1, <1>5 DEF Next

\* Once an upload has entered it stays among those who write the record.
LEMMA EnteredStays ==
  ASSUME PipelineInv, StatusInv, [Next]_vars, NEW c
  PROVE  Entered(c) \subseteq Entered(c)'
<1> USE DEF Entered
<1>1. ASSUME NEW u \in Uploads, Starts(u) \/ Looks(u) \/ Works(u)
      PROVE  Entered(c) \subseteq Entered(c)'
  BY <1>1 DEF Starts, Looks, Works, Others
<1>2. CASE Restart
  BY <1>2 DEF Restart
<1>3. CASE UNCHANGED vars
  BY <1>3 DEF vars
<1> QED
  BY <1>1, <1>2, <1>3, StepKinds

\* A change of a record is the save of an upload that has entered; it leaves the
\* record where that upload is.
LEMMA RowChange ==
  ASSUME PipelineInv, StatusInv, [Next]_vars, NEW c \in Contents, rows'[c] # rows[c]
  PROVE  \E u \in Entered(c) :
           /\ pc'[u] \notin {"put", "insert"}
           /\ rows'[c] # NoRow /\ rows'[c].doc = doc'[u]
           /\ Progress[doc[u].status] <= Progress[doc'[u].status]
<1>1. PICK u \in Uploads : Works(u) /\ file[u].content = c
  BY StepKinds DEF Starts, Looks, Works, Restart, vars
<1>2. u \in Entered(c)
  BY <1>1 DEF Entered, Works, StatusInv, Working, RequestSteps, TaskSteps, AuditSteps
<1>3. /\ pc'[u] \notin {"put", "insert"}
      /\ rows'[c] # NoRow /\ rows'[c].doc = doc'[u]
  BY <1>1 DEF Works
<1> QED
  BY <1>1, <1>2, <1>3 DEF Works

\* What an upload has in memory only moves forward, and it does not return to its
\* first calls.
LEMMA MemoryForward ==
  ASSUME PipelineInv, StatusInv, [Next]_vars, NEW c, NEW u \in Entered(c)
  PROVE  /\ pc[u] \notin {"put", "insert"} => pc'[u] \notin {"put", "insert"}
         /\ Progress[doc[u].status] <= Progress[doc'[u].status]
<1>1. u \in Uploads /\ pc[u] \notin {"idle", "lookup"}
  BY DEF Entered
<1>2. Progress[doc[u].status] <= Progress[doc[u].status]
  <2>1. doc[u] \in Documents
    BY <1>1 DEF PipelineInv, TypeOK
  <2>2. Progress[doc[u].status] \in Nat
    BY <2>1, ProgressOrder DEF Documents
  <2>3. \A n \in Nat : n <= n
    OBVIOUS
  <2> QED
    BY <2>2, <2>3
<1>3. ASSUME NEW v \in Uploads, Starts(v) \/ Looks(v) \/ Works(v)
      PROVE  /\ pc[u] \notin {"put", "insert"} => pc'[u] \notin {"put", "insert"}
             /\ Progress[doc[u].status] <= Progress[doc'[u].status]
  <2>1. CASE v = u
    BY <1>1, <1>3, <2>1 DEF Starts, Looks, Works
  <2>2. CASE v # u
    BY <1>1, <1>2, <1>3, <2>2 DEF Starts, Looks, Works, Others
  <2> QED
    BY <2>1, <2>2
<1>4. CASE Restart
  BY <1>1, <1>2, <1>4 DEF Restart
<1>5. CASE UNCHANGED vars
  BY <1>2, <1>5 DEF vars
<1> QED
  BY <1>3, <1>4, <1>5, StepKinds

LEMMA WriterStep == PipelineInv /\ StatusInv /\ WriterInv /\ [Next]_vars => WriterInv'
<1> SUFFICES ASSUME PipelineInv, StatusInv, WriterInv, [Next]_vars,
                    NEW c \in Contents, rows'[c] # NoRow
             PROVE  /\ \E u \in Entered(c)' : pc'[u] \notin {"put", "insert"}
                    /\ \A u \in Entered(c)' :
                         Entered(c)' = {u} =>
                           Progress[rows'[c].doc.status] <= Progress[doc'[u].status]
  BY DEF WriterInv
<1>1. CASE rows'[c] = rows[c]
  <2>1. PICK w \in Entered(c) : pc[w] \notin {"put", "insert"}
    BY <1>1 DEF WriterInv
  <2>2. w \in Entered(c)' /\ pc'[w] \notin {"put", "insert"}
    BY <2>1, EnteredStays, MemoryForward
  <2>3. ASSUME NEW u, Entered(c)' = {u}
        PROVE  Progress[rows'[c].doc.status] <= Progress[doc'[u].status]
    <3>1. u = w /\ Entered(c) = {w}
      BY <2>1, <2>2, <2>3, EnteredStays
    <3>2. Progress[rows[c].doc.status] <= Progress[doc[w].status]
      BY <1>1, <2>1, <3>1 DEF WriterInv
    <3>3. Progress[doc[w].status] <= Progress[doc'[w].status]
      BY <2>1, MemoryForward
    <3>4. /\ Progress[rows[c].doc.status] \in Nat
          /\ Progress[doc[w].status] \in Nat
          /\ Progress[doc'[w].status] \in Nat
      <4>1. doc[w] \in Documents /\ rows[c] \in Rows
        BY <1>1, <2>1 DEF PipelineInv, TypeOK, Entered
      <4>2. doc'[w] \in Documents
        BY <2>1, TypeStep DEF TypeOK, Entered
      <4> QED
        BY <4>1, <4>2, ProgressOrder DEF Documents, Rows
    <3>5. \A i, j, k \in Nat : i <= j /\ j <= k => i <= k
      OBVIOUS
    <3> QED
      BY <1>1, <3>1, <3>2, <3>3, <3>4, <3>5
  <2> QED
    BY <2>2, <2>3
<1>2. CASE rows'[c] # rows[c]
  <2>1. PICK w \in Entered(c) :
          pc'[w] \notin {"put", "insert"} /\ rows'[c].doc = doc'[w]
    BY <1>2, RowChange
  <2>2. w \in Entered(c)'
    BY <2>1, EnteredStays
  <2>3. ASSUME NEW u, Entered(c)' = {u}
        PROVE  Progress[rows'[c].doc.status] <= Progress[doc'[u].status]
    <3>1. u = w
      BY <2>2, <2>3
    <3>2. doc'[w] \in Documents
      BY <2>1, TypeStep DEF TypeOK, Entered
    <3>3. Progress[doc'[w].status] \in Nat
      BY <3>2, ProgressOrder DEF Documents
    <3>4. \A n \in Nat : n <= n
      OBVIOUS
    <3> QED
      BY <2>1, <3>1, <3>3, <3>4
  <2> QED
    BY <2>1, <2>2, <2>3
<1> QED
  BY <1>1, <1>2

\* Whatever fails in it, an upload that has the file for itself only moves its
\* record forward; a record is never deleted.
THEOREM RecordsOnlyGoForward == Spec => RecordsGoForward
<1> DEFINE A == \A c \in Contents : rows[c] # NoRow =>
                  /\ rows'[c] # NoRow
                  /\ \/ Progress[rows[c].doc.status] <= Progress[rows'[c].doc.status]
                     \/ \E u, v \in Entered(c) : u # v
<1>1. Init => StatusInv /\ WriterInv
  BY DEF Init, StatusInv, WriterInv, NewDocument, RequestSteps, TaskSteps, AuditSteps, Working
<1>2. PipelineInv /\ StatusInv /\ WriterInv /\ [Next]_vars => StatusInv' /\ WriterInv'
  BY StatusStep, WriterStep
<1>3. ASSUME PipelineInv, StatusInv, WriterInv, Next
      PROVE  A
  <2> SUFFICES ASSUME NEW c \in Contents, rows[c] # NoRow
               PROVE  /\ rows'[c] # NoRow
                      /\ \/ Progress[rows[c].doc.status] <= Progress[rows'[c].doc.status]
                         \/ \E u, v \in Entered(c) : u # v
    OBVIOUS
  <2>1. CASE rows'[c] = rows[c]
    <3>1. rows[c] \in Rows
      BY <1>3 DEF PipelineInv, TypeOK
    <3>2. Progress[rows[c].doc.status] \in Nat
      BY <3>1, ProgressOrder DEF Rows, Documents
    <3>3. \A n \in Nat : n <= n
      OBVIOUS
    <3> QED
      BY <2>1, <3>2, <3>3
  <2>2. CASE rows'[c] # rows[c]
    <3>1. PICK w \in Entered(c) :
            /\ rows'[c] # NoRow /\ rows'[c].doc = doc'[w]
            /\ Progress[doc[w].status] <= Progress[doc'[w].status]
      BY <1>3, <2>2, RowChange
    <3>2. ASSUME Entered(c) = {w}
          PROVE  Progress[rows[c].doc.status] <= Progress[rows'[c].doc.status]
      <4>1. Progress[rows[c].doc.status] <= Progress[doc[w].status]
        BY <1>3, <3>1, <3>2 DEF WriterInv
      <4>2. /\ Progress[rows[c].doc.status] \in Nat
            /\ Progress[doc[w].status] \in Nat
            /\ Progress[doc'[w].status] \in Nat
        <5>1. doc[w] \in Documents /\ rows[c] \in Rows
          BY <1>3, <3>1 DEF PipelineInv, TypeOK, Entered
        <5>2. doc'[w] \in Documents
          BY <1>3, <3>1, TypeStep DEF TypeOK, Entered
        <5> QED
          BY <5>1, <5>2, ProgressOrder DEF Documents, Rows
      <4>3. \A i, j, k \in Nat : i <= j /\ j <= k => i <= k
        OBVIOUS
      <4> QED
        BY <3>1, <4>1, <4>2, <4>3
    <3> QED
      BY <3>1, <3>2
  <2> QED
    BY <2>1, <2>2
<1>4. PipelineInv /\ StatusInv /\ WriterInv /\ [Next]_vars => [A]_vars
  BY <1>3
<1> QED
  BY <1>1, <1>2, <1>4, PipelineInvariance, PTL DEF Spec, RecordsGoForward
===============================================================================
