------------------------------- MODULE ProfilePage -------------------------------
(* pages/ProfilePage.tsx: the operator's account, the choice of a workspace, *)
(* and the panel of the administrators of the service.                       *)
EXTENDS ConsoleStores

OnProfile == section = "profile"

\* The tabs of the operator's own account, whose forms write nothing but it,
\* and the one with the cards of the operator's workspaces.
AccountShown == OnProfile /\ view.under = None
SecurityShown == OnProfile /\ view.under = None
WorkspacesShown == OnProfile /\ view.under = None

\* The tabs; loadAdminData runs when the panel is shown.
SetActiveTab ==
  /\ OnProfile /\ Cardinality(reads) < MaxReads
  /\ view.under = None => isSuperAdmin
  /\ UNCHANGED <<server, isSuperAdmin, stores, section, excused>>
  /\ IF view.under = None
     THEN /\ view' = [view EXCEPT !.under = "admin", !.loading = TRUE]
          /\ reads' = reads \union {Read("admin", None)}
     ELSE view' = [view EXCEPT !.under = None] /\ UNCHANGED reads

AdminRead(r) ==
  /\ r \in reads /\ r.what = "admin"
  /\ reads' = reads \ {r} /\ UNCHANGED <<server, isSuperAdmin, stores, section, excused>>
  /\ \E l \in Listed("workspace", None) \union {{}} :
       view' = [view EXCEPT !.list = l, !.loading = FALSE]

\* updateUserProfile and changeUserPassword, each behind its own flag.
HandleSaveProfile ==
  /\ AccountShown /\ ~Waiting("touch", "profile")
  /\ Post("touch", "profile", None, "new") /\ UNCHANGED view

HandleChangePassword ==
  /\ SecurityShown /\ ~Waiting("touch", "password")
  /\ Post("touch", "password", None, "new") /\ UNCHANGED view

\* The profile stays on the screen.
HandleSelectWorkspace(w) ==
  /\ WorkspacesShown /\ w \in workspaces /\ w # current
  /\ ~\E r \in reads : r.what = "workspaces"
  /\ current' = w /\ UNCHANGED <<server, isSuperAdmin, workspaces, sessions, activeId, section>>
  /\ Commit(view, reads)

AdminShown == OnProfile /\ view.under = "admin" /\ ~view.loading

HandleSuperadminEnterWorkspace(w) == AdminShown /\ w \in view.list /\ EnterWorkspace(w)

\* handleRoleChange, handlePlanChange: a select that writes at once.
ChangeRoleOrPlan ==
  /\ AdminShown /\ \E kind \in {"role", "plan"} : Post("touch", kind, None, "new")
  /\ UNCHANGED view

AccountReturns(r, ok) ==
  /\ Answered(r, ok) /\ r.msg.kind \in {"profile", "password", "role", "plan"}
  /\ UNCHANGED <<stored, reads, isSuperAdmin, stores, shell>>

ProfileNext ==
  \/ SetActiveTab \/ ChangeRoleOrPlan \/ HandleSaveProfile \/ HandleChangePassword
  \/ \E w \in Workspaces : HandleSelectWorkspace(w) \/ HandleSuperadminEnterWorkspace(w)
  \/ \E r \in reads : AdminRead(r)
  \/ \E r \in Pending, ok \in BOOLEAN : AccountReturns(r, ok)

=============================================================================
