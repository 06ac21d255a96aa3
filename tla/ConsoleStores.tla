----------------------------- MODULE ConsoleStores -----------------------------
(***************************************************************************)
(* What the pages of the console share: the server's records, the requests *)
(* under way, the stores of workspaces and sessions, which outlive a page, *)
(* and the shell (App, Sidebar, WorkspaceSelector) that shows one page.    *)
(*                                                                         *)
(* A record's text is abstracted to the record it was typed for.  A list   *)
(* shows ids, as the text that it shows with each is the record's own      *)
(* until the property of Console breaks.  One variable, view, holds what   *)
(* the page on the screen keeps in useState; leaving a page loses it, and  *)
(* not the requests the page has sent.                                     *)
(***************************************************************************)
EXTENDS Naturals, FiniteSets

CONSTANTS Workspaces, Sessions, Contacts, Documents, \* ids of what there may be
          Home,       \* the workspace of each session, contact and document
          Fresh,      \* those that do not exist at first
          None,
          MaxWrites,  \* bound: writes under way at once
          MaxReads,   \* bound: reads under way when another is asked for by hand
          MaxChanged  \* bound: records created, deleted or lost to an exception

Named == Workspaces \union Sessions \union Contacts \union Documents
Settings == ({"chatwoot", "schedules", "key"} \X Sessions)
              \union ({"providers"} \X Workspaces)
Records == Named \union Settings

\* "new" are empty fields; "unsaved" a text typed for what is yet to be created.
Texts == Named \union {"new", "unsaved"}

ASSUME ConsoleAssumption ==
  /\ Home \in [Sessions \union Contacts \union Documents -> Workspaces]
  /\ Fresh \subseteq Named
  /\ {None, "new", "unsaved", "free", "gone"} \intersect Named = {}
  /\ Named \intersect Settings = {}
  /\ {MaxWrites, MaxReads, MaxChanged} \subseteq Nat

VARIABLES
  stored,     \* (server) whom each record's text was typed for; "free", "gone"
  sent,       \* writes on their way
  replies,    \* their answers
  excused,    \* (history) records that one of the known exceptions may reach
  reads,      \* reads under way
  isSuperAdmin,
  workspaces, current, \* stores/workspace.ts: ids listed, currentWorkspace
  sessions, activeId,  \* stores/sessions.ts
  section,    \* activeSection
  view        \* the state of the page shown

server == <<stored, sent, replies>>
stores == <<workspaces, current, sessions, activeId>>
shell == <<section, view, excused>>
vars == <<server, reads, isSuperAdmin, stores, shell>>

Sections == {"contacts", "connections", "knowledge", "integrations", "settings",
             "schedules", "profile", "elsewhere"}

\* What is written, and what is read.
Kinds ==
  {"workspace", "session", "contact", "document", "chatwoot", "schedules", "providers", "key",
   "line", "members", "toggle", "search", "profile", "password", "role", "plan"}

Lists ==
  {"workspaces", "sessions", "contacts", "documents", "file", "refresh", "chatwoot",
   "schedules", "providers", "admin"}

Writes ==
  [what : {"create", "update", "delete", "touch"}, kind : Kinds,
   id : Named \union {None}, for : Texts,
   ws : Workspaces \union {None}, \* currentWorkspace in the handler's closure
   mine : BOOLEAN]                \* the page that sent it is still mounted

Reads ==
  [what : Lists, of : Named \union {None},
   then : {"none", "list", "created", "renamed", "rotated"},
                                  \* what the handler that awaits it does next
   id : Sessions \union {None}, mine : BOOLEAN]

NoView == [list |-> {}, loading |-> TRUE, under |-> None, dialog |-> "none", of |-> None,
           form |-> "new", left |-> "new", name |-> "new"]

TypeOK ==
  /\ stored \in [Records -> Texts \union {"free", "gone"}]
  /\ \A m \in sent : m \in Writes
  /\ \A r \in replies : r.msg \in Writes /\ r.id \in Named \union {None}
  /\ excused \subseteq Records
  /\ \A r \in reads : r \in Reads
  /\ isSuperAdmin \in BOOLEAN
  /\ workspaces \subseteq Workspaces /\ current \in Workspaces \union {None}
  /\ sessions \subseteq Sessions /\ activeId \in Sessions \union {None}
  /\ section \in Sections
  /\ view.list \subseteq Named /\ view.loading \in BOOLEAN
  /\ view.under \in Contacts \union {None, "settings", "providers", "admin"}
  /\ view.of \in Named \union {None}
  /\ {view.form, view.left, view.name} \subseteq Texts

-----------------------------------------------------------------------------
(* Server. *)

Owner(r) == IF r \in Settings THEN r[2] ELSE r
Live(r) == stored[r] \notin {"free", "gone"}

OfKind(k) ==
  CASE k = "workspace" -> Workspaces [] k = "session" -> Sessions
    [] k = "contact" -> Contacts [] OTHER -> Documents

Target(m) ==
  IF m.kind \in {"chatwoot", "schedules", "key", "providers"} THEN <<m.kind, m.id>>
  ELSE m.id

\* Ids the server may give what it is asked to create in workspace m.ws.
Ids(m) ==
  IF m.what # "create" THEN {m.id}
  ELSE {i \in OfKind(m.kind) : stored[i] = "free" /\ (m.kind = "workspace" \/ Home[i] = m.ws)}

\* A write of settings replaces them; "new" stands for what is typed into empty
\* fields, for the record the page shows.
Written(m, i) ==
  CASE m.what = "create" -> [stored EXCEPT ![i] = IF m.for \notin Named THEN i ELSE m.for]
    [] m.what = "update" /\ Live(Target(m)) ->
         [stored EXCEPT ![Target(m)] = IF m.for = "new" THEN Owner(Target(m)) ELSE m.for]
    [] m.what = "delete" /\ m.id \in Named -> [stored EXCEPT ![m.id] = "gone"]
    [] OTHER -> stored

\* Answers that only the page that asked looks at: nothing follows once it has
\* gone, and they are forgotten.
Ignored(m) ==
  ~m.mine /\ m.what # "create" /\ m.kind \notin {"contact", "session", "key", "line", "workspace"}

\* A write is carried out.
Serve(m) ==
  /\ m \in sent /\ sent' = sent \ {m}
  /\ \E i \in Ids(m) :
       /\ stored' = Written(m, i)
       /\ replies' = IF Ignored(m) THEN replies ELSE replies \union {[msg |-> m, id |-> i]}
  /\ UNCHANGED <<reads, isSuperAdmin, stores, shell>>

Pending == replies \union {[msg |-> m, id |-> None] : m \in sent}

\* The answer reaches the client: that it is done, or a failure, of the request
\* or, when it has been carried out, of the network.
Answered(r, ok) ==
  /\ r \in Pending /\ (ok => r \in replies)
  /\ IF r \in replies THEN replies' = replies \ {r} /\ UNCHANGED sent
     ELSE sent' = sent \ {r.msg} /\ UNCHANGED replies

Room == Cardinality(sent) + Cardinality(replies) < MaxWrites /\ Cardinality(reads) <= MaxReads
Lost == {r \in Records : stored[r] \notin {"free", Owner(r)}}
Changed == Lost \union {r \in Fresh : stored[r] # "free"}

\* A request that writes no text ("touch") needs no step of the server.
Post(what, kind, id, for) ==
  LET m == [what |-> what, kind |-> kind, id |-> id, for |-> for, mine |-> TRUE,
            ws |-> IF \/ what = "create" /\ kind # "workspace"
                      \/ kind \in {"document", "providers"} THEN current ELSE None] IN
  /\ Room
  /\ IF what = "touch"
     THEN replies' = replies \union {[msg |-> m, id |-> id]} /\ UNCHANGED sent
     ELSE sent' = sent \union {m} /\ UNCHANGED replies
  /\ what \in {"create", "delete"} \/ (what = "update" /\ Target(m) \in excused)
       => Cardinality(Changed) < MaxChanged
  /\ UNCHANGED <<stored, reads, isSuperAdmin, stores, section, excused>>

\* A handler of the page waits for the answer.
Waiting(what, kind) ==
  \E m \in {r.msg : r \in Pending} : m.mine /\ m.what = what /\ m.kind = kind

Show(v) == view' = v /\ UNCHANGED <<server, reads, isSuperAdmin, stores, section, excused>>

Read(what, of) ==
  [what |-> what, of |-> of, then |-> "none", id |-> None, mine |-> TRUE]

\* What a list may hold when it arrives: what is there, and perhaps what has
\* been deleted since it was made, of the workspace asked for, if any.
Listed(kind, of) ==
  LET all(S) == {i \in S : kind = "workspace" \/ of = None \/ Home[i] = of} IN
  {{i \in all(OfKind(kind)) : Live(i) \/ (stored[i] = "gone" /\ late)} : late \in BOOLEAN}

-----------------------------------------------------------------------------
(* What a commit of React does after a change of the stores. *)

\* The session of the console (App): the active one, if it is listed.
Sid == IF activeId \in sessions THEN activeId ELSE None

PickActive(ids, a) ==
  IF a \in ids THEN a ELSE IF ids = {} THEN None ELSE CHOOSE i \in ids : TRUE

\* What each page reads when it mounts, and when its workspace or session has
\* changed.  Contacts are read for the session when there is no workspace.
PageReads(sec, tab, w, s) ==
  CASE sec = "contacts" /\ (w # None \/ s # None) ->
         {Read("contacts", IF w # None THEN w ELSE Home[s])}
    [] sec = "connections" ->
         {[Read("refresh", w) EXCEPT !.then = "list"]}
    [] sec = "knowledge" /\ w # None -> {Read("documents", w)}
    [] sec = "integrations" -> {Read("chatwoot", s)}
    [] sec = "settings" /\ tab = "providers" -> {Read("providers", w)}
    [] sec = "schedules" -> {Read("schedules", s)}
    [] sec = "profile" -> {Read("workspaces", None)}
    [] OTHER -> {}

\* Panes keep what they hold of one session, or workspace, for the next, until
\* it has been read, or for good if it cannot be: an exception.
LeftInPane(w, s) ==
  CASE section = "integrations" /\ s # Sid /\ s # None -> {<<"chatwoot", s>>}
    [] section = "schedules" /\ s # Sid /\ s # None -> {<<"schedules", s>>}
    [] section = "settings" /\ w # current /\ w # None -> {<<"providers", w>>}
    [] OTHER -> {}

\* Mutant: it does so when there is none.
SettingsEffectUnguarded(v) ==
  IF section' = "connections" THEN [v EXCEPT !.name = current'] ELSE v

\* WorkspaceSettingsModal, which is mounted with the page of the connections,
\* takes the workspace's name whenever the store has a new currentWorkspace.
SettingsEffect(v) ==
  IF section' = "connections" /\ current' # None THEN [v EXCEPT !.name = current'] ELSE v

\* What an exception has left right is right again, once the page has gone.
StillExcused ==
  {r \in excused :
     \/ r \in Lost
     \/ \E m \in {q.msg : q \in Pending} :
          Target(m) = r \/ (m.what = "create" /\ r \in OfKind(m.kind))}

\* The effects of App, of the page and of its dialog, for what an action has
\* made of the stores, of the view (v) and of the reads under way (rs).
Commit(v, rs) ==
  LET s == Sid'
      asks == IF \/ section' # section \/ current' # current
                 \/ s # Sid /\ section' \in {"integrations", "schedules"}
                 \/ s # Sid /\ section' = "contacts" /\ current' = None
              THEN PageReads(section', v.under, current', s) ELSE {} IN
  /\ view' = SettingsEffect(
       IF asks # {} /\ section' \in {"knowledge", "integrations", "settings", "schedules"}
       THEN [v EXCEPT !.loading = TRUE] ELSE v)
  /\ reads' = rs \union asks
       \union (IF current' # current /\ current' # None
               THEN {Read("sessions", current')} ELSE {})
  /\ excused' = IF section' = section THEN excused \union LeftInPane(current', s)
                ELSE StillExcused

-----------------------------------------------------------------------------
(* Stores. *)

\* fetchWorkspaces, for the list l.
FetchedWorkspaces(l) ==
  /\ workspaces' = l
  /\ current' = IF current \in l \/ (isSuperAdmin /\ current # None) THEN current
                ELSE IF l = {} THEN None ELSE CHOOSE w \in l : TRUE

\* The list of the sessions, for an event, for App, or for refreshSessions.
FetchedSessions(l) == sessions' = l /\ activeId' = PickActive(l, activeId)

\* Reads that no handler awaits and that only the stores look at.
StoreAnswer(r) ==
  /\ r \in reads /\ r.then = "none" /\ UNCHANGED <<server, isSuperAdmin, section>>
  /\ \/ /\ r.what = "sessions" \/ (r.what = "workspaces" /\ workspaces # {})
        \* it fails; not the first of the workspaces: a bound
        /\ reads' = reads \ {r} /\ UNCHANGED <<stores, view, excused>>
     \/ /\ r.what = "workspaces"
        /\ \E l \in Listed("workspace", None) : FetchedWorkspaces(l)
        /\ UNCHANGED <<sessions, activeId>>
        /\ Commit(view, reads \ {r})
     \/ /\ r.what = "sessions"
        /\ \E l \in Listed("session", r.of) : FetchedSessions(l)
        /\ UNCHANGED <<workspaces, current>>
        /\ Commit(view, reads \ {r})

\* An event: session-list; session-qr and auth-state change no text and no choice.
SessionList ==
  /\ Cardinality(reads) < MaxReads
  /\ UNCHANGED <<server, isSuperAdmin, stores, shell>>
  /\ reads' = reads \union {Read("sessions", current)}

-----------------------------------------------------------------------------
(* Shell. *)

Init ==
  /\ stored = [r \in Records |-> IF r \in Fresh THEN "free" ELSE Owner(r)]
  /\ sent = {} /\ replies = {} /\ excused = {}
  /\ isSuperAdmin = TRUE
  /\ current \in (Workspaces \ Fresh) \union {None} \* kept by the browser
  /\ workspaces = {} /\ sessions = {} /\ activeId = None
  /\ section = "elsewhere" /\ view = NoView
  /\ reads = {[what |-> w, of |-> IF w = "sessions" THEN current ELSE None, then |-> "none",
               id |-> None, mine |-> TRUE] : w \in {"workspaces", "sessions"}}

\* Dialogs and the sheet of a contact cover the rest of the page and the shell.
Quiet == view.dialog = "none" /\ view.under \in {None, "providers", "admin"}

\* The page goes; what it has asked the server for goes on without it.
Unmount ==
  /\ sent' = {[m EXCEPT !.mine = FALSE] : m \in sent}
  /\ replies' = {r \in {[q EXCEPT !.msg.mine = FALSE] : q \in replies} : ~Ignored(r.msg)}

Kept ==
  {CASE r.then \in {"renamed", "rotated"} -> [r EXCEPT !.then = "list"]
     [] r.then = "created" -> [r EXCEPT !.mine = FALSE]
     [] OTHER -> r :
     r \in {q \in reads : q.what \in {"workspaces", "sessions"} \/ q.then # "none"}}

GoTo(sec) ==
  /\ section' = sec /\ UNCHANGED <<stored, isSuperAdmin>>
  /\ IF sec = section THEN Commit(view, reads) /\ UNCHANGED <<sent, replies>>
     ELSE Unmount /\ Commit(NoView, Kept)

Navigate(sec) ==
  /\ Quiet /\ Cardinality(reads) < MaxReads /\ sec # section
  /\ UNCHANGED stores /\ GoTo(sec)

\* setCurrentWorkspace and setActiveSection.
EnterWorkspace(w) ==
  /\ Cardinality(reads) < MaxReads
  /\ current' = w /\ UNCHANGED <<workspaces, sessions, activeId>>
  /\ GoTo("connections")

SelectWorkspace(w) == Quiet /\ w \in workspaces /\ EnterWorkspace(w)

CanCreateMore == isSuperAdmin \/ workspaces = {}

HandleCreateWorkspace ==
  /\ Quiet /\ CanCreateMore
  /\ ~\E m \in {r.msg : r \in Pending} : m.kind = "workspace" /\ m.what = "create"
  /\ Post("create", "workspace", None, "new") /\ UNCHANGED view

\* createWorkspace: the page on the screen stays and its workspace changes.
WorkspaceCreated(r, ok) ==
  /\ Answered(r, ok) /\ r.msg.kind = "workspace" /\ r.msg.what = "create"
  /\ UNCHANGED <<stored, isSuperAdmin, section>>
  /\ IF ok
     THEN workspaces' = workspaces \union {r.id} /\ current' = r.id
     ELSE UNCHANGED <<workspaces, current>>
  /\ UNCHANGED <<sessions, activeId>>
  /\ Commit(view, reads)

=============================================================================
