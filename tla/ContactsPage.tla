------------------------------ MODULE ContactsPage ------------------------------
(* pages/ContactsPage.tsx: the contacts of a workspace, the sheet of one of *)
(* them, the dialog that creates or edits one, and the one that deletes.    *)
EXTENDS ConsoleStores

OnContacts == section = "contacts"

\* useContacts: the answer of another workspace's query is not shown, and a
\* query that fails leaves the list as it is.
ContactsRead(r) ==
  /\ r \in reads /\ r.what = "contacts"
  /\ reads' = reads \ {r} /\ UNCHANGED <<server, isSuperAdmin, stores, section, excused>>
  /\ \/ view' = [view EXCEPT !.loading = FALSE]
     \/ r.of = current
        /\ \E l \in Listed("contact", r.of) : view' = [view EXCEPT !.list = l, !.loading = FALSE]

\* The page under its dialogs: the cards, or rows, and the toolbar.
CardShown(c) == OnContacts /\ Quiet /\ ~view.loading /\ c \in view.list

\* The sheet of a contact, which its dialogs cover.
SheetShown(c) == OnContacts /\ view.under = c /\ view.dialog = "none"

OpenSheet(c) == CardShown(c) /\ Show([view EXCEPT !.under = c])
CloseSheet == OnContacts /\ view.under # None /\ view.dialog = "none" /\ Show([view EXCEPT !.under = None])

\* Mutant: the contact edited last is kept.
HandleOpenCreateKeeps ==
  /\ OnContacts /\ Quiet /\ Show([view EXCEPT !.dialog = "edit", !.form = "unsaved"])

HandleOpenCreate ==
  /\ OnContacts /\ Quiet /\ Show([view EXCEPT !.dialog = "edit", !.of = None, !.form = "unsaved"])

HandleOpenEdit(c) ==
  /\ CardShown(c) \/ SheetShown(c)
  /\ Show([view EXCEPT !.dialog = "edit", !.of = c, !.form = c])

HandleOpenDelete(c) ==
  /\ CardShown(c) \/ SheetShown(c)
  /\ Show([view EXCEPT !.dialog = "delete", !.left = c])

\* Cancel and Esc work while a request is under way.
CloseDialog == OnContacts /\ view.dialog # "none" /\ Show([view EXCEPT !.dialog = "none"])

HandleSaveContact ==
  /\ OnContacts /\ view.dialog = "edit" /\ current # None
  /\ ~Waiting("update", "contact") /\ ~Waiting("create", "contact")
  /\ Post(IF view.of = None THEN "create" ELSE "update", "contact", view.of, view.form)
  /\ UNCHANGED view

ConfirmDeleteContact ==
  /\ OnContacts /\ view.dialog = "delete" /\ current # None /\ ~Waiting("delete", "contact")
  /\ Post("delete", "contact", view.left, "new") /\ UNCHANGED view

HandleDial(c) ==
  /\ CardShown(c) \/ SheetShown(c)
  /\ UNCHANGED stores /\ GoTo("elsewhere")

\* The answer closes the dialog it finds, perhaps of another contact, and asks
\* for the list again.  A deletion closes the sheet, whichever it shows, if the
\* contact was the one selected when it was confirmed.
ContactReturns(r, ok) ==
  /\ Answered(r, ok) /\ r.msg.kind = "contact"
  /\ UNCHANGED <<stored, isSuperAdmin, stores, section, excused>>
  /\ reads' = IF ok /\ OnContacts THEN reads \union PageReads(section, None, current, Sid) ELSE reads
  /\ \E shut \in BOOLEAN : view' =
       IF ~(ok /\ r.msg.mine) THEN view
       ELSE IF r.msg.what = "delete"
            THEN [view EXCEPT !.dialog = IF @ = "delete" THEN "none" ELSE @,
                              !.under = IF shut THEN None ELSE @]
            ELSE [view EXCEPT !.dialog = IF @ = "edit" THEN "none" ELSE @]

ContactsNext ==
  \/ HandleOpenCreate \/ CloseSheet \/ CloseDialog \/ HandleSaveContact \/ ConfirmDeleteContact
  \/ \E c \in Contacts : OpenSheet(c) \/ HandleOpenEdit(c) \/ HandleOpenDelete(c) \/ HandleDial(c)
  \/ \E r \in reads : ContactsRead(r)
  \/ \E r \in Pending, ok \in BOOLEAN : ContactReturns(r, ok)

=============================================================================
