---------------------------- MODULE ConnectionsPage ----------------------------
(* pages/ConnectionsPage.tsx: the sessions of a workspace and their dialogs; *)
(* and WorkspaceSettingsModal, which the page shows over itself.             *)
EXTENDS ConsoleStores

OnConnections == section = "connections"

\* workspaceSessions: loads that overtake one another, and that fall back on
\* the store's list when they fail, leave there any sessions that exist or have
\* existed, of any workspace.
SessionShown(s) == OnConnections /\ Quiet /\ stored[s] # "free"

-----------------------------------------------------------------------------
(* refreshSessionsList: three requests one after the other, whose answers   *)
(* are one step here, and then what the handler that awaits it does, if it  *)
(* does more than that ("list").  It goes on when the page has gone.        *)

RefreshSessionsList(m, then, id) ==
  {[Read("refresh", current') EXCEPT
      !.then = IF m.mine \/ then = "created" THEN then ELSE "list",
      !.id = IF then = "created" THEN id ELSE None,
      !.mine = m.mine \/ then # "created"]}

\* What onNewSessionSubmit, onRenameSubmit and handleRotateKeySubmit do last:
\* each closes its dialog, for whichever session it is open by now.
Finish(r, v) ==
  CASE r.mine /\ r.then = "created" -> [v EXCEPT !.dialog = IF @ = "create" THEN "none" ELSE @]
    [] r.mine /\ r.then = "renamed" -> [v EXCEPT !.dialog = IF @ = "rename" THEN "none" ELSE @]
    [] r.mine /\ r.then = "rotated" ->
         [v EXCEPT !.dialog = IF @ = "rotate" THEN "none" ELSE @, !.left = "new"]
    [] OTHER -> v

Refreshed(r) ==
  /\ r \in reads /\ r.what = "refresh"
  /\ UNCHANGED <<server, isSuperAdmin, section>>
  /\ \/ \E l \in Listed("workspace", None) : FetchedWorkspaces(l)
     \/ UNCHANGED <<workspaces, current>>
  /\ \E l \in Listed("session", r.of) \union {sessions} :
       LET a == IF l = sessions THEN activeId ELSE PickActive(l, activeId) IN
       sessions' = l /\ activeId' = IF r.then = "created" THEN r.id ELSE a
  /\ Commit(Finish(r, view), reads \ {r})

-----------------------------------------------------------------------------
(* Sessions. *)

SetActiveSession(s) ==
  /\ SessionShown(s) /\ activeId' = s
  /\ UNCHANGED <<server, isSuperAdmin, workspaces, current, sessions, section>>
  /\ Commit(view, reads)

OpenWebphone(s) ==
  /\ SessionShown(s) /\ activeId' = s /\ UNCHANGED <<workspaces, current, sessions>>
  /\ GoTo("elsewhere")

\* Below the plan's limit; at the limit another dialog opens, from which
\* nothing but the profile can be reached.
HandleOpenCreateModal ==
  OnConnections /\ Quiet /\ Show([view EXCEPT !.dialog = "create", !.of = None])

HandleOpenRenameModal(s) ==
  SessionShown(s) /\ Show([view EXCEPT !.dialog = "rename", !.of = s, !.form = s])

OpenRotate(s) ==
  SessionShown(s) /\ Show([view EXCEPT !.dialog = "rotate", !.of = s, !.left = "new"])

TypeApiKey ==
  OnConnections /\ view.dialog = "rotate" /\ Show([view EXCEPT !.left = view.of])

OpenRemove(s) == SessionShown(s) /\ Show([view EXCEPT !.dialog = "remove", !.of = s])

\* Of what a dialog keeps, the next one to open takes all it uses anew.
CloseConnectionDialog ==
  /\ OnConnections /\ view.dialog # "none"
  /\ Show([view EXCEPT !.dialog = "none", !.of = None, !.form = "new", !.left = "new"])

\* Enter in the field of the name submits whether or not a request is under way.
OnNewSessionSubmit ==
  /\ OnConnections /\ view.dialog = "create" /\ current # None
  /\ Post("create", "session", None, "new") /\ UNCHANGED view

OnRenameSubmit ==
  /\ OnConnections /\ view.dialog = "rename"
  /\ Post("update", "session", view.of, view.form) /\ UNCHANGED view

Rotating == Waiting("update", "key") \/ \E r \in reads : r.then = "rotated" /\ r.mine

HandleRotateKeySubmit ==
  /\ OnConnections /\ view.dialog = "rotate" /\ ~Rotating
  /\ Post("update", "key", view.of, view.left) /\ UNCHANGED view

\* ConfirmDialog closes at once.
OnRemoveSession ==
  /\ OnConnections /\ view.dialog = "remove"
  /\ Post("delete", "session", view.of, "new")
  /\ view' = [view EXCEPT !.dialog = "none", !.of = None]

\* onLogout, handlePair, handleSetDefaultSession.
TouchSession(s) ==
  /\ SessionShown(s) /\ current # None
  /\ Post("touch", "line", None, "new") /\ UNCHANGED view

SessionReturns(r, ok) ==
  /\ Answered(r, ok) /\ r.msg.kind \in {"session", "key"}
  /\ UNCHANGED <<stored, isSuperAdmin, stores, section>>
  /\ LET then == CASE r.msg.what = "create" -> "created"
                   [] r.msg.what = "update" /\ r.msg.kind = "key" -> "rotated"
                   [] r.msg.what = "update" /\ r.msg.kind = "session" -> "renamed"
                   [] OTHER -> "list" IN
     Commit(view, reads \union IF ok THEN RefreshSessionsList(r.msg, then, r.id) ELSE {})

-----------------------------------------------------------------------------
(* WorkspaceSettingsModal. *)

SettingsShown == OnConnections /\ view.under = "settings" /\ view.dialog = "none" /\ current # None

OpenSettings ==
  /\ OnConnections /\ Quiet /\ current # None /\ Cardinality(reads) < MaxReads
  /\ UNCHANGED <<server, isSuperAdmin, stores, section>>
  /\ Commit([view EXCEPT !.under = "settings"], reads)

CloseSettings ==
  OnConnections /\ view.under = "settings" /\ view.dialog = "none" /\ Show([view EXCEPT !.under = None])

HandleSaveName ==
  /\ SettingsShown /\ ~Waiting("update", "workspace")
  /\ Post("update", "workspace", current, view.name) /\ UNCHANGED view

HandleSaveDefaultSession ==
  /\ SettingsShown /\ ~Waiting("touch", "line") /\ \E s \in sessions : Home[s] = current
  /\ Post("touch", "line", None, "new") /\ UNCHANGED view

HandleInviteMember ==
  /\ SettingsShown /\ ~Waiting("touch", "members")
  /\ Post("touch", "members", None, "new") /\ UNCHANGED view

\* A member of the list of the store, which is not modelled.
AskRemoveMember == SettingsShown /\ Show([view EXCEPT !.dialog = "member"])

HandleRemoveMember ==
  /\ OnConnections /\ view.dialog = "member" /\ current # None
  /\ Post("touch", "members", None, "new") /\ view' = [view EXCEPT !.dialog = "none"]

AskDeleteWorkspace ==
  /\ SettingsShown /\ ~Waiting("delete", "workspace")
  /\ Show([view EXCEPT !.dialog = "workspace"])

HandleDeleteWorkspace ==
  /\ OnConnections /\ view.dialog = "workspace" /\ current # None
  /\ Post("delete", "workspace", current, "new") /\ view' = [view EXCEPT !.dialog = "none"]

\* updateWorkspace, inviteMember, removeMember and deleteWorkspace of the store,
\* and the handler of the page, or of the settings, that called them.
WorkspaceReturns(r, ok) ==
  /\ Answered(r, ok) /\ r.msg.kind \in {"workspace", "line", "members"} /\ r.msg.what # "create"
  /\ UNCHANGED <<stored, isSuperAdmin, sessions, activeId, section>>
  /\ IF ok /\ r.msg.what = "delete"
     THEN /\ workspaces' = workspaces \ {r.id}
          /\ current' = IF workspaces' = {} THEN None ELSE CHOOSE w \in workspaces' : TRUE
     ELSE UNCHANGED <<workspaces, current>>
  /\ Commit(IF ok /\ r.msg.what = "delete" /\ r.msg.mine
            THEN [view EXCEPT !.under = None, !.dialog = IF @ = "workspace" THEN "none" ELSE @]
            ELSE view,
            reads \union IF ok /\ r.msg.kind = "line"
                         THEN RefreshSessionsList(r.msg, "list", None) ELSE {})

ConnectionsNext ==
  \/ HandleOpenCreateModal \/ TypeApiKey \/ CloseConnectionDialog
  \/ OnNewSessionSubmit \/ OnRenameSubmit \/ HandleRotateKeySubmit \/ OnRemoveSession
  \/ OpenSettings \/ CloseSettings \/ HandleSaveName \/ HandleSaveDefaultSession
  \/ HandleInviteMember \/ AskRemoveMember \/ HandleRemoveMember
  \/ AskDeleteWorkspace \/ HandleDeleteWorkspace
  \/ \E s \in Sessions :
       \/ SetActiveSession(s) \/ OpenWebphone(s) \/ HandleOpenRenameModal(s)
       \/ OpenRotate(s) \/ OpenRemove(s) \/ TouchSession(s)
  \/ \E r \in reads : Refreshed(r)
  \/ \E r \in Pending, ok \in BOOLEAN : SessionReturns(r, ok) \/ WorkspaceReturns(r, ok)

=============================================================================
