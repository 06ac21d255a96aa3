-------------------------------- MODULE Console --------------------------------
(* The console: its shell and stores with each of the pages that edit the   *)
(* server's records, one of which is on the screen.                         *)
EXTENDS ContactsPage, ConnectionsPage, KnowledgeBasePage, SessionPanes, ProfilePage

Shell ==
  \/ SessionList \/ HandleCreateWorkspace
  \/ \E sec \in Sections : Navigate(sec)
  \/ \E w \in Workspaces : SelectWorkspace(w)
  \/ \E r \in reads : StoreAnswer(r)
  \/ \E r \in Pending, ok \in BOOLEAN : WorkspaceCreated(r, ok)
  \/ \E m \in sent : Serve(m)

Next ==
  Shell \/ ContactsNext \/ ConnectionsNext \/ KnowledgeNext \/ PanesNext \/ ProfileNext

Spec == Init /\ [][Next]_vars

-----------------------------------------------------------------------------
(* Properties. *)

\* Whatever the operator opens, closes and saves while answers are late, and
\* however the workspace and the session change under an open page, no record
\* is written, nor created, with a text or a key that was typed for another,
\* except where one of the named exceptions has made it possible: a document
\* whose dialog was opened over fields an earlier one had left, or over a file
\* still being read, and a pane that stayed open while its session or workspace
\* changed.
RecordsKeepTheirs == \A r \in Records : stored[r] \in {Owner(r), "free", "gone"} \/ r \in excused

=============================================================================
