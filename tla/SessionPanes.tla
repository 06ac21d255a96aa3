------------------------------ MODULE SessionPanes ------------------------------
(* The panes that hold the settings of the console's session, or of its     *)
(* workspace, in one form: ChatwootForm (section "integrations"),           *)
(* AIProvidersSettingsPane ("settings") and SchedulesTab ("schedules").     *)
(* Each reads them when it mounts and when the session, or the workspace,   *)
(* changes, and shows what it has in the meantime (LeftInPane).             *)
EXTENDS ConsoleStores

\* The panes, and the session or workspace without which they show nothing.
ChatwootShown == section = "integrations" /\ Sid # None
SchedulesShown == section = "schedules" /\ Sid # None
ProvidersShown == section = "settings" /\ view.under = "providers" /\ current # None

\* The answer, whomever it is for by now.  The schedules of a session without
\* a configuration leave the pane as it is.
PaneRead(r) ==
  /\ r \in reads /\ r.what \in {"chatwoot", "schedules", "providers"}
  /\ reads' = reads \ {r} /\ UNCHANGED <<server, isSuperAdmin, stores, section, excused>>
  /\ \/ view' = [view EXCEPT !.loading = FALSE]
     \/ /\ r.of # None
        /\ view' = [view EXCEPT !.loading = FALSE, !.form = r.of]

\* IntegrationsTab and SettingsTab mount another pane; the panes of the general
\* settings and of the webhooks keep nothing.
SwitchTab ==
  /\ section \in {"integrations", "settings"} /\ Cardinality(reads) < MaxReads
  /\ UNCHANGED <<stored, isSuperAdmin, stores, section>> /\ Unmount
  /\ excused' = StillExcused
  /\ LET tab == IF section = "settings" /\ view.under = None THEN "providers" ELSE None IN
     /\ view' = [NoView EXCEPT !.under = tab]
     /\ reads' = Kept \union PageReads(section, tab, current, Sid)

\* ChatwootForm: busy covers reads and writes alike.
SaveChatwoot ==
  /\ ChatwootShown /\ ~view.loading
  /\ Post("update", "chatwoot", Sid, view.form) /\ view' = [view EXCEPT !.loading = TRUE]

DisconnectChatwoot ==
  /\ ChatwootShown /\ ~view.loading
  /\ Post("touch", "chatwoot", None, "new") /\ view' = [view EXCEPT !.loading = TRUE]

\* AIProvidersSettingsPane: hidden while it loads.
SaveProvider ==
  /\ ProvidersShown /\ ~view.loading /\ view.form # "new"
  /\ ~Waiting("update", "providers")
  /\ Post("update", "providers", current, view.form) /\ UNCHANGED view

\* SchedulesTab: handleAdd and handleDelete, by persistSchedules, which writes
\* the whole configuration and waits for no answer.
PersistSchedules ==
  /\ SchedulesShown /\ view.form # "new"
  /\ Post("update", "schedules", Sid, view.form) /\ UNCHANGED view

PaneReturns(r, ok) ==
  /\ Answered(r, ok) /\ r.msg.kind \in {"chatwoot", "providers", "schedules"}
  /\ UNCHANGED <<stored, isSuperAdmin, stores, section, excused>>
  /\ CASE ~r.msg.mine -> UNCHANGED <<reads, view>>
       [] r.msg.mine /\ r.msg.kind = "chatwoot" ->
            /\ UNCHANGED reads
            /\ view' = [view EXCEPT !.loading = FALSE,
                          !.form = IF ok /\ r.msg.what = "touch" THEN "new" ELSE @]
       [] r.msg.mine /\ r.msg.kind = "schedules" ->
            UNCHANGED reads /\ view' = [view EXCEPT !.form = IF ok THEN r.msg.for ELSE @]
       [] OTHER -> \* loadProviders of the handler's workspace
            IF ok THEN /\ reads' = reads \union {Read("providers", r.msg.ws)}
                         /\ view' = [view EXCEPT !.loading = TRUE]
            ELSE UNCHANGED <<reads, view>>

PanesNext ==
  \/ SwitchTab \/ SaveChatwoot \/ DisconnectChatwoot \/ SaveProvider \/ PersistSchedules
  \/ \E r \in reads : PaneRead(r)
  \/ \E r \in Pending, ok \in BOOLEAN : PaneReturns(r, ok)

=============================================================================
