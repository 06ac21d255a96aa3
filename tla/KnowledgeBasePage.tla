---------------------------- MODULE KnowledgeBasePage ----------------------------
(* pages/KnowledgeBasePage.tsx: the documents the AI answers from.  The     *)
(* dialog has one field for the content and two more, for a FAQ and for an  *)
(* address, which replace the content when the document is of that type.    *)
EXTENDS ConsoleStores

OnKnowledge == section = "knowledge"

\* loadDocuments: no answer is told from an earlier one, nor from one for
\* another workspace.
DocumentsRead(r) ==
  /\ r \in reads /\ r.what = "documents"
  /\ reads' = reads \ {r} /\ UNCHANGED <<server, isSuperAdmin, stores, section, excused>>
  /\ \/ view' = [view EXCEPT !.loading = FALSE]
     \/ \E l \in Listed("document", r.of) : view' = [view EXCEPT !.list = l, !.loading = FALSE]

\* The search and the categories read the list again.
Filter ==
  /\ OnKnowledge /\ Quiet /\ current # None /\ Cardinality(reads) < MaxReads
  /\ UNCHANGED <<server, isSuperAdmin, stores, section, excused>>
  /\ reads' = reads \union {Read("documents", current)} /\ view' = [view EXCEPT !.loading = TRUE]

DocumentShown(d) == OnKnowledge /\ Quiet /\ ~view.loading /\ d \in view.list

HandleOpenAdd ==
  /\ OnKnowledge /\ Quiet
  /\ Show([view EXCEPT !.dialog = "edit", !.of = None, !.form = "unsaved", !.left = "new"])

\* handleOpenAddModal(doc) fills the content and leaves the other two fields as
\* an earlier dialog left them: an exception.
HandleOpenAddModal(d) ==
  /\ DocumentShown(d)
  /\ view' = [view EXCEPT !.dialog = "edit", !.of = d, !.form = d]
  /\ excused' = IF view.left \in {"new", d} THEN excused ELSE excused \union {d}
  /\ UNCHANGED <<server, reads, isSuperAdmin, stores, section>>

Editing == OnKnowledge /\ view.dialog = "edit"

\* The fields of a FAQ, or of an address.
TypeOther == Editing /\ Show([view EXCEPT !.left = IF view.of = None THEN "unsaved" ELSE view.of])

\* handleFileUpload, and reader.onload: the file is read while the operator may
\* open the dialog for another document, which takes its content: an exception.
HandleFileUpload ==
  /\ Editing /\ Cardinality(reads) < MaxReads
  /\ UNCHANGED <<server, isSuperAdmin, stores, section, view, excused>>
  /\ reads' = reads \union {Read("file", view.of)}

FileLoaded(r) ==
  /\ r \in reads /\ r.what = "file"
  /\ reads' = reads \ {r} /\ UNCHANGED <<server, isSuperAdmin, stores, section>>
  /\ view' = IF ~Editing THEN view
             ELSE [view EXCEPT !.form = IF r.of = None THEN "unsaved" ELSE r.of]
  /\ excused' = IF ~Editing \/ view.of = r.of THEN excused
                ELSE excused \union IF view.of = None
                                    THEN {d \in Documents : stored[d] = "free"} ELSE {view.of}

\* A dialog closes.  Of what it keeps, the next one to open takes the document
\* and the content anew, so that they need not be kept here.
ClosedIf(d) ==
  IF view.dialog = d THEN [view EXCEPT !.dialog = "none", !.of = None, !.form = "new"] ELSE view

Saving == Waiting("update", "document") \/ Waiting("create", "document")

\* The content, or the fields of the type, which may not be empty.
HandleSaveDocument ==
  /\ Editing /\ ~Saving /\ current # None
  /\ \E text \in {view.form, view.left} :
       /\ text # "new"
       /\ Post(IF view.of = None THEN "create" ELSE "update", "document", view.of, text)
  /\ UNCHANGED view

CloseDocument ==
  \* Cancel waits for the answer and Esc does not
  OnKnowledge /\ view.dialog # "none" /\ Show(ClosedIf(view.dialog))

HandleToggle(d) ==
  DocumentShown(d) /\ current # None /\ Post("touch", "toggle", None, "new") /\ UNCHANGED view

OpenDelete(d) == DocumentShown(d) /\ Show([view EXCEPT !.dialog = "delete", !.of = d])

HandleDeleteConfirm ==
  /\ OnKnowledge /\ view.dialog = "delete" /\ ~Waiting("delete", "document") /\ current # None
  /\ Post("delete", "document", view.of, "new") /\ UNCHANGED view

OpenTest == OnKnowledge /\ Quiet /\ Show([view EXCEPT !.dialog = "test"])

HandleTestSearch ==
  /\ OnKnowledge /\ view.dialog = "test" /\ ~Waiting("touch", "search") /\ current # None
  /\ Post("touch", "search", None, "new") /\ UNCHANGED view

\* After a save the list of the closure's workspace is read; a deletion, done
\* or not, closes the dialog it finds.
DocumentReturns(r, ok) ==
  /\ Answered(r, ok) /\ r.msg.kind \in {"document", "toggle", "search"}
  /\ UNCHANGED <<stored, isSuperAdmin, stores, section, excused>>
  /\ CASE ~r.msg.mine \/ r.msg.what = "touch" -> UNCHANGED <<reads, view>>
       [] r.msg.mine /\ r.msg.what = "delete" ->
            /\ UNCHANGED reads
            /\ view' = [ClosedIf("delete") EXCEPT !.list = IF ok THEN @ \ {r.id} ELSE @]
       [] OTHER ->
            IF ok THEN /\ reads' = reads \union {Read("documents", r.msg.ws)}
                         /\ view' = [ClosedIf("edit") EXCEPT !.loading = TRUE]
            ELSE UNCHANGED <<reads, view>>

KnowledgeNext ==
  \/ Filter \/ HandleOpenAdd \/ TypeOther \/ HandleFileUpload \/ HandleSaveDocument
  \/ CloseDocument \/ HandleDeleteConfirm \/ OpenTest \/ HandleTestSearch
  \/ \E d \in Documents : HandleOpenAddModal(d) \/ HandleToggle(d) \/ OpenDelete(d)
  \/ \E r \in reads : DocumentsRead(r) \/ FileLoaded(r)
  \/ \E r \in Pending, ok \in BOOLEAN : DocumentReturns(r, ok)

=============================================================================
