----------------------------- MODULE ConsoleProofs -----------------------------
(***************************************************************************)
(* Proofs about Console, for any ids and any bounds: the types, and that   *)
(* no record is written, or created, with what was typed for another       *)
(* unless one of the exceptions has made it possible.                      *)
(*                                                                         *)
(* A write is right when it is sent (Right), because of what the dialog    *)
(* that sends it holds (Dialogs) or because of what the pane holds         *)
(* (Fits); what a pane holds is what was read for it, or the answer to     *)
(* what it wrote, so that both must be for the session, or workspace, that *)
(* the pane is of by now (Asked, Placed).                                  *)
(***************************************************************************)
EXTENDS Console, TLAPS

-----------------------------------------------------------------------------
(* The inductive invariant. *)

Made == {"workspace", "session", "contact", "document"}
PaneKinds == {"chatwoot", "schedules", "providers"}

\* The writes under way, carried out or not.
Msgs == sent \union {r.msg : r \in replies}

\* The session, or the workspace, of the pane that the section shows.
OnPane == section \in {"integrations", "schedules", "settings"}
PaneKind ==
  CASE section = "integrations" -> "chatwoot" [] section = "schedules" -> "schedules"
    [] OTHER -> "providers"
PaneOwner ==
  CASE section \in {"integrations", "schedules"} -> Sid
    [] section = "settings" -> current [] OTHER -> None

\* What the pane may hold.
Fits(t) ==
  \/ PaneOwner = None \/ <<PaneKind, PaneOwner>> \in excused
  \/ t \in {"new", PaneOwner}

\* A text with which a record may be created, and written.
MayCreate(k, t) == t \in Named => \A i \in OfKind(k) : stored[i] = "free" => i \in excused
MayWrite(r, t) == r \in Records /\ (t \in {"new", Owner(r)} \/ r \in excused)

Right(m) ==
  /\ m.what = "create" => m.kind \in Made /\ MayCreate(m.kind, m.for)
  /\ m.what = "update" => MayWrite(Target(m), m.for)

\* The page on the screen waits for this answer.
Placed(m) ==
  m.mine => /\ m.kind \in PaneKinds =>
                 OnPane /\ m.kind = PaneKind /\ Fits(m.for) /\ (m.ws # None => Fits(m.ws))
            /\ m.kind = "key" => section = "connections"

Mail(m) == m \in Writes /\ Right(m) /\ Placed(m)

Answer(r) ==
  /\ r = [msg |-> r.msg, id |-> r.id] /\ r.id \in Named \union {None}
  /\ r.msg.what = "create" => r.id \in OfKind(r.msg.kind)

Asked(r) ==
  /\ r \in Reads
  /\ r.what \in PaneKinds =>
       OnPane /\ r.what = PaneKind /\ (r.of # None => Fits(r.of)) /\ r.then = "none"
  /\ r.then = "rotated" => section = "connections"

Views ==
  [list : SUBSET Named, loading : BOOLEAN,
   under : Contacts \union {None, "settings", "providers", "admin"},
   dialog : {"none", "edit", "delete", "create", "rename", "rotate", "remove", "member",
             "workspace", "test"},
   of : Named \union {None}, form : Texts, left : Texts, name : Texts]

\* What the dialogs of each page hold.
ContactsDialog(v) ==
  /\ v.dialog = "edit" => \/ v.of = None /\ v.form = "unsaved"
                          \/ v.of \in Contacts /\ v.form = v.of
  /\ v.dialog = "delete" => v.left \in Contacts

ConnectionsDialog(v) ==
  /\ v.dialog = "rename" => v.of \in Sessions /\ v.form = v.of
  /\ v.dialog = "rotate" => v.of \in Sessions /\ v.left \in {"new", v.of}
  /\ current # None => v.name = current

KnowledgeDialog(v) ==
  v.dialog = "edit" =>
    \/ v.of = None /\ MayCreate("document", v.form) /\ v.left \in {"new", "unsaved"}
    \/ /\ v.of \in Documents
       /\ v.of \in excused \/ (v.form = v.of /\ v.left \in {"new", v.of})

Dialogs(v) ==
  /\ section = "contacts" => ContactsDialog(v)
  /\ section = "connections" => ConnectionsDialog(v)
  /\ section = "knowledge" => KnowledgeDialog(v)

Shows(v) == v \in Views /\ Dialogs(v) /\ Fits(v.form)

Stores ==
  /\ isSuperAdmin \in BOOLEAN
  /\ workspaces \subseteq Workspaces /\ current \in Workspaces \union {None}
  /\ sessions \subseteq Sessions /\ activeId \in Sessions \union {None}
  /\ section \in Sections

ServerTypes ==
  /\ stored \in [Records -> Texts \union {"free", "gone"}]
  /\ excused \subseteq Records

IInv ==
  /\ ServerTypes /\ RecordsKeepTheirs /\ Stores
  /\ \A m \in Msgs : Mail(m)
  /\ \A r \in replies : Answer(r)
  /\ \A r \in reads : Asked(r)
  /\ Shows(view)

\* A step of the page that is shown.
InPlace ==
  /\ section' = section /\ excused \subseteq excused'
  /\ \A i \in Records : stored'[i] = "free" => stored[i] = "free"
  /\ \/ PaneOwner' = PaneOwner \/ PaneOwner' = None
     \/ <<PaneKind, PaneOwner'>> \in excused'

-----------------------------------------------------------------------------
(* Ids and texts. *)

\* A record that is not one of the settings is its own owner.
LEMMA OwnerOfNamed == \A i \in Named : i \in Records /\ Owner(i) = i
BY ConsoleAssumption DEF Owner, Records

\* Settings are owned by their session, or workspace.
LEMMA OwnerOfSettings == \A r \in Settings : r \in Records /\ Owner(r) = r[2] /\ r[2] \in Named
BY DEF Owner, Records, Settings, Named

\* The owner of a record is an id.
LEMMA OwnerNamed == \A r \in Records : Owner(r) \in Named
BY OwnerOfNamed, OwnerOfSettings DEF Records

\* Ids are texts, and no text is one of the marks of the server.
LEMMA TextsNamed ==
  /\ Named \subseteq Texts /\ Named \subseteq Records
  /\ "new" \in Texts /\ "unsaved" \in Texts
  /\ "new" \notin Named /\ "unsaved" \notin Named /\ None \notin Named
  /\ \A t \in Texts : t \notin {"free", "gone"}
BY ConsoleAssumption DEF Texts, Records

\* What is created is an id.
LEMMA OfKindNamed == \A k : OfKind(k) \subseteq Named
BY DEF OfKind, Named

\* The ids of each kind.
LEMMA OfKinds ==
  /\ OfKind("workspace") = Workspaces /\ OfKind("session") = Sessions
  /\ OfKind("contact") = Contacts /\ OfKind("document") = Documents
BY DEF OfKind

\* A list is of its kind.
LEMMA ListedOfKind == \A k, w : \A l \in Listed(k, w) : l \subseteq OfKind(k)
BY DEF Listed

-----------------------------------------------------------------------------
(* What a step of the page that is shown leaves as it was. *)

\* What the pane may hold, it may hold after it.
LEMMA FitsStays == ASSUME InPlace, NEW t, Fits(t) PROVE Fits(t)'
BY DEF InPlace, Fits, PaneKind, PaneOwner

\* What may be written, and created, may be so after it.
LEMMA MayStay ==
  ASSUME InPlace
  PROVE  /\ \A r, t : MayWrite(r, t) => MayWrite(r, t)'
         /\ \A k, t : MayCreate(k, t) => MayCreate(k, t)'
<1>1. ASSUME NEW r, NEW t, MayWrite(r, t) PROVE MayWrite(r, t)'
  BY <1>1 DEF MayWrite, InPlace
<1>2. ASSUME NEW k, NEW t, MayCreate(k, t) PROVE MayCreate(k, t)'
  <2> SUFFICES ASSUME t \in Named, NEW i \in OfKind(k), stored'[i] = "free" PROVE i \in excused'
    BY DEF MayCreate
  <2>1. i \in Records
    BY OfKindNamed, TextsNamed
  <2> QED
    BY <1>2, <2>1 DEF MayCreate, InPlace
<1> QED
  BY <1>1, <1>2

\* A write under way stays right and in its place.
LEMMA MailStays == ASSUME InPlace, NEW m, Mail(m) PROVE Mail(m)'
<1>1. Right(m)'
  BY MayStay DEF Mail, Right
<1>2. Placed(m)'
  <2> SUFFICES ASSUME m.mine PROVE /\ m.kind \in PaneKinds =>
                                        (OnPane /\ m.kind = PaneKind /\ Fits(m.for)
                                           /\ (m.ws # None => Fits(m.ws)))'
                                   /\ m.kind = "key" => (section = "connections")'
    BY DEF Placed
  <2>1. OnPane' = OnPane /\ PaneKind' = PaneKind /\ section' = section
    BY DEF InPlace, OnPane, PaneKind
  <2>2. (Fits(m.for) => Fits(m.for)') /\ (Fits(m.ws) => Fits(m.ws)')
    BY FitsStays
  <2> QED
    BY <2>1, <2>2 DEF Mail, Placed
<1> QED
  BY <1>1, <1>2 DEF Mail

\* A read under way stays in its place.
LEMMA AskedStays == ASSUME InPlace, NEW r, Asked(r) PROVE Asked(r)'
<1>1. OnPane' = OnPane /\ PaneKind' = PaneKind /\ section' = section
  BY DEF InPlace, OnPane, PaneKind
<1>2. Fits(r.of) => Fits(r.of)'
  BY FitsStays
<1> QED
  BY <1>1, <1>2 DEF Asked

\* So does what the dialogs hold, when the workspace stays.
LEMMA DialogsStay ==
  ASSUME InPlace, current' = current, NEW v, Dialogs(v) PROVE Dialogs(v)'
<1>1. ContactsDialog(v)' <=> ContactsDialog(v)
  BY DEF ContactsDialog
<1>2. ConnectionsDialog(v)' <=> ConnectionsDialog(v)
  BY DEF ConnectionsDialog
<1>3. KnowledgeDialog(v) => KnowledgeDialog(v)'
  BY MayStay DEF KnowledgeDialog, InPlace
<1> QED
  BY <1>1, <1>2, <1>3 DEF Dialogs, InPlace

\* A step of the page that is shown keeps the invariant if what it adds is right.
LEMMA StepInPlace ==
  ASSUME IInv, InPlace, ServerTypes', RecordsKeepTheirs', Stores',
         \A m \in Msgs' : m \in Msgs \/ Mail(m)',
         \A r \in replies' : r \in replies \/ Answer(r),
         \A r \in reads' : r \in reads \/ Asked(r)',
         Shows(view)'
  PROVE  IInv'
<1>1. \A m \in Msgs' : Mail(m)'
  BY MailStays DEF IInv
<1>2. \A r \in replies' : Answer(r)'
  BY DEF IInv, Answer
<1>3. \A r \in reads' : Asked(r)'
  BY AskedStays DEF IInv
<1> QED
  BY <1>1, <1>2, <1>3 DEF IInv

\* So does one that changes only the view, what is read and the exceptions.
LEMMA StepOfView ==
  ASSUME IInv, UNCHANGED <<server, isSuperAdmin, stores, section>>,
         excused \subseteq excused', excused' \subseteq Records,
         \A r \in reads' : r \in reads \/ Asked(r)',
         NEW v, view' = v, v \in Views, Dialogs(v)', Fits(v.form)'
  PROVE  IInv'
<1>1. InPlace
  BY DEF InPlace, PaneOwner, Sid, server, stores
<1>2. ServerTypes' /\ RecordsKeepTheirs' /\ Stores'
  BY DEF IInv, ServerTypes, RecordsKeepTheirs, Stores, server, stores
<1>3. Msgs' = Msgs /\ replies' = replies
  BY DEF Msgs, server
<1>4. Shows(view)'
  BY DEF Shows, Views
<1> QED
  BY <1>1, <1>2, <1>3, <1>4, StepInPlace

\* And one that changes only the view.
LEMMA ShowKeeps ==
  ASSUME IInv, NEW v, Show(v), v \in Views, Dialogs(v), Fits(v.form) PROVE IInv'
<1>1. InPlace /\ current' = current
  BY DEF Show, InPlace, PaneOwner, PaneKind, Sid, server, stores
<1>2. Dialogs(v)' /\ Fits(v.form)'
  BY <1>1, DialogsStay, FitsStays
<1>3. excused' = excused /\ excused \subseteq Records /\ reads' = reads
  BY DEF Show, IInv, ServerTypes
<1> QED
  BY <1>2, <1>3, StepOfView DEF Show, stores

-----------------------------------------------------------------------------
(* Writes, and their answers. *)

\* What the request of a page is to be.
Fit(what, kind, id, for) ==
  LET r == IF kind \in {"chatwoot", "schedules", "key", "providers"} THEN <<kind, id>> ELSE id IN
  /\ what \in {"create", "update", "delete", "touch"} /\ kind \in Kinds
  /\ id \in Named \union {None} /\ for \in Texts
  /\ what = "create" => kind \in Made /\ MayCreate(kind, for)
  /\ what = "update" => MayWrite(r, for)
  /\ kind \in PaneKinds => OnPane /\ kind = PaneKind /\ Fits(for)
  /\ kind = "key" => section = "connections"

\* A page that sends a request that is right keeps the invariant.
LEMMA PostKeeps ==
  ASSUME IInv, NEW what, NEW kind, NEW id, NEW for, Post(what, kind, id, for),
         Fit(what, kind, id, for), NEW v, view' = v, Shows(v)
  PROVE  IInv'
<1> PICK m :
      m = [what |-> what, kind |-> kind, id |-> id, for |-> for, mine |-> TRUE,
           ws |-> IF \/ what = "create" /\ kind # "workspace"
                     \/ kind \in {"document", "providers"} THEN current ELSE None]
  OBVIOUS
<1>1. UNCHANGED <<stored, reads, isSuperAdmin, stores, section, excused>>
  BY DEF Post
<1>2. InPlace /\ current' = current
  BY <1>1 DEF InPlace, PaneOwner, PaneKind, Sid, stores
<1>3. m \in Writes
  BY DEF Fit, Writes, IInv, Stores
<1>4. Right(m)
  <2>1. m.what = "create" => m.kind \in Made /\ MayCreate(m.kind, m.for)
    BY DEF Fit
  <2>2. Target(m) = IF kind \in {"chatwoot", "schedules", "key", "providers"}
                    THEN <<kind, id>> ELSE id
    BY DEF Target
  <2>3. m.what = "update" => MayWrite(Target(m), m.for)
    BY <2>2 DEF Fit
  <2> QED
    BY <2>1, <2>3 DEF Right
<1>5. Placed(m)
  <2>1. m.ws # None /\ m.kind \in PaneKinds /\ OnPane /\ kind = PaneKind => Fits(m.ws)
    <3> SUFFICES ASSUME m.ws # None, kind \in PaneKinds, OnPane, kind = PaneKind
                 PROVE  Fits(m.ws)
      OBVIOUS
    <3>1. m.ws = current
      OBVIOUS
    <3>2. what # "create"
      BY DEF Fit, Made, PaneKinds
    <3>3. kind = "providers"
      BY <3>2 DEF PaneKinds
    <3>4. section = "settings"
      BY <3>3 DEF OnPane, PaneKind
    <3> QED
      BY <3>1, <3>4 DEF Fits, PaneOwner
  <2> QED
    BY <2>1 DEF Placed, Fit
<1>6. Mail(m)'
  BY <1>2, <1>3, <1>4, <1>5, MailStays DEF Mail
<1>7. CASE what = "touch"
  <2>1. replies' = replies \union {[msg |-> m, id |-> id]} /\ sent' = sent
    BY <1>7 DEF Post
  <2>2. \A q \in Msgs' : q \in Msgs \/ Mail(q)'
    <3> SUFFICES ASSUME NEW q \in Msgs' PROVE q \in Msgs \/ q = m
      BY <1>6
    <3>1. ASSUME NEW r \in replies' PROVE r.msg \in Msgs \/ r.msg = m
      <4>1. r \in replies \/ r = [msg |-> m, id |-> id]
        BY <2>1
      <4>2. r = [msg |-> m, id |-> id] => r.msg = m
        OBVIOUS
      <4> QED
        BY <4>1, <4>2 DEF Msgs
    <3> QED
      BY <2>1, <3>1 DEF Msgs
  <2>3. m.what # "create"
    BY <1>7
  <2>4. \A r \in replies' : r \in replies \/ Answer(r)
    BY <2>1, <2>3 DEF Answer, Fit
  <2> QED
    BY <2>2, <2>4, <1>1, <1>2, StepInPlace, DialogsStay, FitsStays
       DEF IInv, ServerTypes, RecordsKeepTheirs, Stores, stores, Shows
<1>8. CASE what # "touch"
  <2>1. replies' = replies /\ sent' = sent \union {m}
    BY <1>8 DEF Post
  <2>2. \A q \in Msgs' : q \in Msgs \/ q = m
    BY <2>1 DEF Msgs
  <2> QED
    BY <2>1, <2>2, <1>1, <1>2, <1>6, StepInPlace, DialogsStay, FitsStays
       DEF IInv, ServerTypes, RecordsKeepTheirs, Stores, stores, Shows
<1> QED
  BY <1>7, <1>8

\* An answer that arrives is of a request under way, and nothing more is.
LEMMA AnsweredFacts ==
  ASSUME NEW r, NEW ok \in BOOLEAN, Answered(r, ok)
  PROVE  /\ Msgs' \subseteq Msgs /\ replies' \subseteq replies
         /\ r.msg \in Msgs /\ (ok => r \in replies)
<1>1. CASE r \in replies
  BY <1>1 DEF Answered, Msgs
<1>2. CASE r \notin replies
  <2>1. r \in Pending /\ ~ok /\ sent' = sent \ {r.msg} /\ replies' = replies
    BY <1>2 DEF Answered
  <2>2. PICK m \in sent : r = [msg |-> m, id |-> None]
    BY <1>2, <2>1 DEF Pending
  <2>3. r.msg = m
    BY <2>2
  <2> QED
    BY <2>1, <2>3 DEF Msgs
<1> QED
  BY <1>1, <1>2

\* The requests under way are those that answers are pending for.
LEMMA MsgsPending == Msgs = {r.msg : r \in Pending}
<1>1. ASSUME NEW m \in sent PROVE m \in {r.msg : r \in Pending}
  <2> DEFINE r == [msg |-> m, id |-> None]
  <2>1. r \in Pending /\ r.msg = m
    BY DEF Pending
  <2> QED
    BY <2>1
<1>2. \A r \in Pending : r.msg \in Msgs
  BY DEF Pending, Msgs
<1> QED
  BY <1>1, <1>2 DEF Msgs, Pending

-----------------------------------------------------------------------------
(* Commit. *)

\* What a page reads when it mounts is for what it shows.
LEMMA PageReadsAsked ==
  ASSUME Stores', NEW tab
  PROVE  \A r \in PageReads(section', tab, current', Sid') : Asked(r)'
<1> PICK w, s : w = current' /\ s = Sid'
  OBVIOUS
<1>1. w \in Workspaces \union {None} /\ s \in Sessions \union {None} /\ section' \in Sections
  BY DEF Stores, Sid
<1>2. s # None => Home[s] \in Workspaces
  BY <1>1, ConsoleAssumption
<1> SUFFICES ASSUME NEW r \in PageReads(section', tab, w, s) PROVE Asked(r)'
  OBVIOUS
<1>3. Workspaces \subseteq Named /\ Sessions \subseteq Named
  BY DEF Named
<1>4. CASE section' = "contacts"
  <2>1. PICK x \in Workspaces : r = Read("contacts", x)
    BY <1>1, <1>2, <1>4 DEF PageReads
  <2> QED
    BY <2>1, <1>3 DEF Read, Asked, Reads, Lists, PaneKinds
<1>5. CASE section' = "connections"
  <2>1. r = [Read("refresh", w) EXCEPT !.then = "list"]
    BY <1>5 DEF PageReads
  <2> QED
    BY <2>1, <1>1, <1>3 DEF Read, Asked, Reads, Lists, PaneKinds
<1>6. CASE section' = "knowledge"
  <2>1. r = Read("documents", w)
    BY <1>6 DEF PageReads
  <2> QED
    BY <2>1, <1>1, <1>3 DEF Read, Asked, Reads, Lists, PaneKinds
<1>7. CASE section' = "integrations"
  <2>1. r = Read("chatwoot", s)
    BY <1>7 DEF PageReads
  <2>2. Fits(s)' /\ OnPane' /\ PaneKind' = "chatwoot"
    BY <1>7 DEF Fits, OnPane, PaneOwner, PaneKind
  <2>3. r \in Reads /\ r.what = "chatwoot" /\ r.of = s /\ r.then = "none"
    BY <2>1, <1>1, <1>3 DEF Read, Reads, Lists
  <2> QED
    BY <2>2, <2>3 DEF Asked
<1>8. CASE section' = "settings"
  <2>1. r = Read("providers", w)
    BY <1>8 DEF PageReads
  <2>2. Fits(w)' /\ OnPane' /\ PaneKind' = "providers"
    BY <1>8 DEF Fits, OnPane, PaneOwner, PaneKind
  <2>3. r \in Reads /\ r.what = "providers" /\ r.of = w /\ r.then = "none"
    BY <2>1, <1>1, <1>3 DEF Read, Reads, Lists
  <2> QED
    BY <2>2, <2>3 DEF Asked
<1>9. CASE section' = "schedules"
  <2>1. r = Read("schedules", s)
    BY <1>9 DEF PageReads
  <2>2. Fits(s)' /\ OnPane' /\ PaneKind' = "schedules"
    BY <1>9 DEF Fits, OnPane, PaneOwner, PaneKind
  <2>3. r \in Reads /\ r.what = "schedules" /\ r.of = s /\ r.then = "none"
    BY <2>1, <1>1, <1>3 DEF Read, Reads, Lists
  <2> QED
    BY <2>2, <2>3 DEF Asked
<1>10. CASE section' = "profile"
  <2>1. r = Read("workspaces", None)
    BY <1>10 DEF PageReads
  <2> QED
    BY <2>1 DEF Read, Asked, Reads, Lists, PaneKinds
<1>11. CASE section' = "elsewhere"
  BY <1>11 DEF PageReads
<1> QED
  BY <1>1, <1>4, <1>5, <1>6, <1>7, <1>8, <1>9, <1>10, <1>11 DEF Sections

\* The list of the sessions is asked for of the workspace.
LEMMA SessionsAsked ==
  ASSUME NEW w \in Workspaces \union {None}
  PROVE  Asked(Read("sessions", w)) /\ Asked(Read("sessions", w))'
BY DEF Read, Asked, Reads, Lists, PaneKinds, Named

\* What Commit reads is what was under way (rs) and what the page needs now.
LEMMA CommitReads ==
  ASSUME Stores', NEW v, NEW rs, Commit(v, rs)
  PROVE  \A r \in reads' : r \in rs \/ Asked(r)'
<1> DEFINE page == PageReads(section', v.under, current', Sid')
           list == IF current' # current /\ current' # None
                   THEN {Read("sessions", current')} ELSE {}
<1>1. reads' \subseteq rs \union page \union list
  BY DEF Commit
<1>2. \A r \in page : Asked(r)'
  BY PageReadsAsked
<1>3. \A r \in list : Asked(r)'
  BY SessionsAsked DEF Stores
<1> QED
  BY <1>1, <1>2, <1>3

\* It shows v, but for the name and that it loads.
LEMMA CommitView ==
  ASSUME Stores', NEW v \in Views, NEW rs, Commit(v, rs)
  PROVE  /\ view' \in Views
         /\ view'.dialog = v.dialog /\ view'.of = v.of /\ view'.form = v.form
         /\ view'.left = v.left
         /\ section' = "connections" /\ current' # None => view'.name = current'
<1> DEFINE u == [v EXCEPT !.loading = TRUE]
<1>1. view' \in {SettingsEffect(v), SettingsEffect(u)}
  BY DEF Commit
<1>2. current' # None => current' \in Texts
  BY DEF Stores, Texts, Named
<1>3. u \in Views /\ u.dialog = v.dialog /\ u.of = v.of /\ u.form = v.form /\ u.left = v.left
  BY DEF Views
<1> HIDE DEF u
<1>4. ASSUME NEW x \in Views
      PROVE  LET y == SettingsEffect(x) IN
             /\ y \in Views
             /\ y.dialog = x.dialog /\ y.of = x.of /\ y.form = x.form /\ y.left = x.left
             /\ section' = "connections" /\ current' # None => y.name = current'
  BY <1>2 DEF SettingsEffect, Views
<1> QED
  BY <1>1, <1>3, <1>4

\* A step of the stores, and of the view, of the page that is shown.
LEMMA CommitKeeps ==
  ASSUME IInv, NEW v, NEW rs, Commit(v, rs), section' = section, stored' = stored,
         Msgs' \subseteq Msgs, replies' \subseteq replies, Stores', Shows(v),
         \A r \in rs : r \in reads \/ Asked(r)'
  PROVE  IInv'
<1>1. Sid \in Sessions \union {None} /\ Sid' \in Sessions \union {None}
  BY DEF IInv, Stores, Sid
<1> DEFINE left == LeftInPane(current', Sid')
<1>2. excused' = excused \union left
  BY DEF Commit
<1>3. left \subseteq Records
  BY <1>1 DEF LeftInPane, Records, Settings, Stores
<1>4. \/ PaneOwner' = PaneOwner \/ PaneOwner' = None \/ <<PaneKind, PaneOwner'>> \in left
  <2>1. CASE section = "integrations"
    BY <2>1 DEF PaneOwner, PaneKind, LeftInPane
  <2>2. CASE section = "schedules"
    BY <2>2 DEF PaneOwner, PaneKind, LeftInPane
  <2>3. CASE section = "settings"
    BY <2>3 DEF PaneOwner, PaneKind, LeftInPane
  <2> QED
    BY <2>1, <2>2, <2>3 DEF PaneOwner
<1> HIDE DEF left
<1>5. InPlace
  BY <1>2, <1>4 DEF InPlace
<1>6. ServerTypes' /\ RecordsKeepTheirs'
  BY <1>2, <1>3 DEF IInv, ServerTypes, RecordsKeepTheirs
<1>7. \A r \in reads' : r \in reads \/ Asked(r)'
  BY CommitReads
<1>8. Shows(view)'
  <2>1. v \in Views
    BY DEF Shows
  <2>2. PICK u : u = view'
    OBVIOUS
  <2>3. /\ u \in Views
        /\ u.dialog = v.dialog /\ u.of = v.of /\ u.form = v.form /\ u.left = v.left
        /\ section' = "connections" /\ current' # None => u.name = current'
    BY <2>1, <2>2, CommitView
  <2>4. Fits(u.form)'
    BY <2>3, <1>5, FitsStays DEF Shows
  <2>5. section' = "contacts" => ContactsDialog(u)'
    BY <2>3 DEF ContactsDialog, Shows, Dialogs
  <2>6. section' = "connections" => ConnectionsDialog(u)'
    BY <2>3 DEF ConnectionsDialog, Shows, Dialogs
  <2>7. section' = "knowledge" => KnowledgeDialog(u)'
    <3>1. section' = "knowledge" => KnowledgeDialog(v)
      BY DEF Shows, Dialogs
    <3>2. KnowledgeDialog(v) => KnowledgeDialog(u)'
      BY <2>3, <1>5, MayStay DEF KnowledgeDialog, InPlace
    <3> QED
      BY <3>1, <3>2
  <2>8. Shows(u)'
    BY <2>3, <2>4, <2>5, <2>6, <2>7 DEF Shows, Dialogs, Views
  <2> QED
    BY <2>2, <2>8 DEF Shows, Dialogs, ContactsDialog, ConnectionsDialog, KnowledgeDialog
<1> QED
  BY <1>5, <1>6, <1>7, <1>8, StepInPlace

-----------------------------------------------------------------------------
(* A page goes. *)

\* What the requests under way may write stays excused.
LEMMA ExcusedForMsgs ==
  ASSUME NEW m \in Msgs
  PROVE  /\ Target(m) \in excused => Target(m) \in StillExcused
         /\ m.what = "create" => \A i \in OfKind(m.kind) : i \in excused => i \in StillExcused
BY MsgsPending DEF StillExcused

\* They belong to no page any more.
LEMMA UnmountMsgs ==
  ASSUME Unmount, \A r \in replies : Answer(r)
  PROVE  /\ \A m \in Msgs' : \E q \in Msgs : m = [q EXCEPT !.mine = FALSE]
         /\ \A r \in replies' : \E q \in replies : r = [q EXCEPT !.msg.mine = FALSE]
<1>1. \A r \in replies' : \E q \in replies : r = [q EXCEPT !.msg.mine = FALSE]
  BY DEF Unmount
<1>2. ASSUME NEW r \in replies'
      PROVE  \E q \in Msgs : r.msg = [q EXCEPT !.mine = FALSE]
  <2>1. PICK q \in replies : r = [q EXCEPT !.msg.mine = FALSE]
    BY <1>1
  <2>2. q = [msg |-> q.msg, id |-> q.id]
    BY DEF Answer
  <2>3. r.msg = [q.msg EXCEPT !.mine = FALSE]
    BY <2>1, <2>2
  <2> QED
    BY <2>3 DEF Msgs
<1>3. \A m \in sent' : \E q \in sent : m = [q EXCEPT !.mine = FALSE]
  BY DEF Unmount
<1>4. ASSUME NEW m \in Msgs' PROVE \E q \in Msgs : m = [q EXCEPT !.mine = FALSE]
  <2>1. CASE m \in sent'
    BY <1>3, <2>1 DEF Msgs
  <2>2. CASE m \notin sent'
    <3>1. PICK r \in replies' : m = r.msg
      BY <2>2 DEF Msgs
    <3> QED
      BY <1>2, <3>1
  <2> QED
    BY <2>1, <2>2
<1> QED
  BY <1>1, <1>4

\* The page that was shown keeps nothing, and the next one starts with what
\* it reads.
LEMMA Departs ==
  ASSUME IInv, Unmount, excused' = StillExcused, stored' = stored, Stores',
         \A r \in reads' : r \in Kept \/ Asked(r)',
         Shows(view)'
  PROVE  IInv'
<1>1. ServerTypes' /\ RecordsKeepTheirs'
  <2>1. \A r \in Records : r \in excused /\ r \notin StillExcused =>
                             stored[r] \in {"free", Owner(r)}
    BY DEF StillExcused, Lost
  <2> QED
    BY <2>1 DEF IInv, ServerTypes, RecordsKeepTheirs, StillExcused
<1>2. ASSUME NEW m \in Msgs' PROVE Mail(m)'
  <2>1. PICK q \in Msgs : m = [q EXCEPT !.mine = FALSE]
    BY UnmountMsgs DEF IInv
  <2>2. Mail(q)
    BY DEF IInv
  <2>3. /\ m \in Writes /\ m.mine = FALSE
        /\ m.what = q.what /\ m.kind = q.kind /\ m.id = q.id /\ m.for = q.for
    BY <2>1, <2>2 DEF Mail, Writes
  <2>4. Target(m) = Target(q)
    BY <2>3 DEF Target
  <2>5. m.what = "create" => m.kind \in Made /\ MayCreate(m.kind, m.for)'
    BY <2>2, <2>3, ExcusedForMsgs DEF Mail, Right, MayCreate
  <2>6. m.what = "update" => MayWrite(Target(m), m.for)'
    BY <2>2, <2>3, <2>4, ExcusedForMsgs DEF Mail, Right, MayWrite
  <2> QED
    BY <2>3, <2>5, <2>6 DEF Mail, Right, Placed
<1>3. ASSUME NEW r \in replies' PROVE Answer(r)'
  <2>1. PICK q \in replies : r = [q EXCEPT !.msg.mine = FALSE]
    BY UnmountMsgs DEF IInv
  <2>2. Answer(q) /\ q.msg \in Writes
    BY DEF IInv, Mail, Msgs
  <2>3. r = [msg |-> [q.msg EXCEPT !.mine = FALSE], id |-> q.id]
    BY <2>1, <2>2 DEF Answer
  <2>4. r.msg.what = q.msg.what /\ r.msg.kind = q.msg.kind /\ r.id = q.id
    BY <2>2, <2>3 DEF Writes
  <2> QED
    BY <2>2, <2>3, <2>4 DEF Answer
<1>4. ASSUME NEW r \in Kept PROVE Asked(r)'
  <2>1. PICK q \in reads :
          /\ q.what \in {"workspaces", "sessions"} \/ q.then # "none"
          /\ r = CASE q.then \in {"renamed", "rotated"} -> [q EXCEPT !.then = "list"]
                   [] q.then = "created" -> [q EXCEPT !.mine = FALSE]
                   [] OTHER -> q
    BY DEF Kept
  <2>2. Asked(q)
    BY DEF IInv
  <2>3. q.what \notin PaneKinds
    BY <2>1, <2>2 DEF Asked, PaneKinds
  <2>4. r \in Reads /\ r.what = q.what /\ r.then # "rotated"
    BY <2>1, <2>2 DEF Asked, Reads
  <2> QED
    BY <2>3, <2>4 DEF Asked
<1> QED
  BY <1>1, <1>2, <1>3, <1>4 DEF IInv

\* The view of a page that mounts.
LEMMA NoViewTypes ==
  NoView \in Views /\ NoView.dialog = "none" /\ NoView.form = "new" /\ NoView.under = None
BY TextsNamed DEF NoView, Views

\* Another page is shown, or this one is chosen once more.
LEMMA GoToKeeps == ASSUME IInv, NEW sec \in Sections, GoTo(sec), Stores' PROVE IInv'
<1>1. CASE sec = section
  <2>1. Commit(view, reads) /\ UNCHANGED <<stored, sent, replies, section>>
    BY <1>1 DEF GoTo
  <2>2. Msgs' = Msgs /\ replies' = replies
    BY <2>1 DEF Msgs
  <2> QED
    BY <2>1, <2>2, CommitKeeps DEF IInv
<1>2. CASE sec # section
  <2>1. Unmount /\ Commit(NoView, Kept) /\ section' = sec /\ stored' = stored
    BY <1>2 DEF GoTo
  <2>2. excused' = StillExcused
    BY <1>2, <2>1 DEF Commit
  <2>3. \A r \in reads' : r \in Kept \/ Asked(r)'
    BY <2>1, CommitReads
  <2>4. PICK u : u = view'
    OBVIOUS
  <2>5. /\ u \in Views /\ u.dialog = "none" /\ u.form = "new"
        /\ section' = "connections" /\ current' # None => u.name = current'
    BY <2>1, <2>4, NoViewTypes, CommitView
  <2>6. Shows(u)'
    BY <2>5 DEF Shows, Dialogs, ContactsDialog, ConnectionsDialog, KnowledgeDialog, Fits, Views
  <2>7. Shows(view)'
    BY <2>4, <2>6 DEF Shows, Dialogs, ContactsDialog, ConnectionsDialog, KnowledgeDialog
  <2> QED
    BY <2>1, <2>2, <2>3, <2>7, Departs
<1> QED
  BY <1>1, <1>2

\* A view that shows another list is otherwise the same.
LEMMA SameDialogs ==
  ASSUME NEW v, Dialogs(v), NEW u,
         u.dialog = v.dialog, u.of = v.of, u.form = v.form, u.left = v.left, u.name = v.name
  PROVE  Dialogs(u)
BY DEF Dialogs, ContactsDialog, ConnectionsDialog, KnowledgeDialog

\* So is one whose dialog has been closed.
LEMMA ClosedDialogs ==
  ASSUME NEW v, Dialogs(v), NEW u, u.dialog \in {v.dialog, "none"}, u.of = v.of,
         u.form = v.form, u.left = v.left, u.name = v.name
  PROVE  Dialogs(u)
BY DEF Dialogs, ContactsDialog, ConnectionsDialog, KnowledgeDialog

\* What is shown is the view.
LEMMA ShowsNext ==
  ASSUME NEW v, v = view', v \in Views, Dialogs(v)', Fits(v.form)' PROVE Shows(view)'
BY DEF Shows, Views, Dialogs, ContactsDialog, ConnectionsDialog, KnowledgeDialog

\* Answers, and requests, of a list that only the page looks at.
LEMMA ListKeeps ==
  ASSUME IInv, UNCHANGED <<server, isSuperAdmin, stores, section, excused>>,
         \A r \in reads' : r \in reads \/ Asked(r),
         NEW v, view' = v, v \in Views,
         v.dialog = view.dialog, v.of = view.of, v.form = view.form, v.left = view.left,
         v.name = view.name
  PROVE  IInv'
<1>1. InPlace /\ current' = current
  BY DEF InPlace, PaneOwner, Sid, server, stores
<1>2. Dialogs(v) /\ Fits(v.form)
  <2>1. Dialogs(view)
    BY DEF IInv, Shows
  <2> QED
    BY <2>1, SameDialogs DEF IInv, Shows
<1>3. Dialogs(v)' /\ Fits(v.form)'
  BY <1>1, <1>2, DialogsStay, FitsStays
<1>4. \A r \in reads' : r \in reads \/ Asked(r)'
  BY <1>1, AskedStays
<1> QED
  BY <1>3, <1>4, StepOfView DEF IInv, ServerTypes

-----------------------------------------------------------------------------
(* The server. *)

\* What is created is what was asked for, or one of the exceptions.
LEMMA ServeKeeps == ASSUME IInv, NEW m \in sent, Serve(m) PROVE IInv'
<1>1. PICK i \in Ids(m) :
        /\ stored' = Written(m, i)
        /\ replies' = IF Ignored(m) THEN replies ELSE replies \union {[msg |-> m, id |-> i]}
  BY DEF Serve
<1>2. sent' = sent \ {m} /\ UNCHANGED <<reads, isSuperAdmin, stores, shell>>
  BY DEF Serve
<1>3. Mail(m) /\ m \in Writes
  BY DEF IInv, Msgs, Mail
<1>4. /\ m.what = "create" => m.kind \in Made /\ i \in OfKind(m.kind) /\ stored[i] = "free"
      /\ m.what # "create" => i = m.id
  BY <1>1, <1>3 DEF Ids, Mail, Right
<1>5. i \in Named \union {None}
  BY <1>3, <1>4, OfKindNamed DEF Writes
<1>6. ASSUME NEW r \in Records
      PROVE  \/ stored'[r] = stored[r]
             \/ stored'[r] \in {Owner(r), "gone"}
             \/ stored'[r] \in Texts /\ r \in excused
  <2>1. CASE m.what = "create"
    <3>1. i \in Named /\ Owner(i) = i
      BY <1>4, <2>1, OfKindNamed, OwnerOfNamed
    <3>2. m.for \in Named => i \in excused
      BY <1>3, <1>4, <2>1 DEF Mail, Right, MayCreate
    <3>3. stored' = [stored EXCEPT ![i] = IF m.for \notin Named THEN i ELSE m.for]
      BY <1>1, <2>1 DEF Written
    <3> QED
      BY <3>1, <3>2, <3>3, TextsNamed DEF IInv, ServerTypes
  <2>2. CASE m.what = "update" /\ Live(Target(m))
    <3>1. stored' = [stored EXCEPT ![Target(m)] =
                       IF m.for = "new" THEN Owner(Target(m)) ELSE m.for]
      BY <1>1, <2>2 DEF Written
    <3>2. m.for \in {"new", Owner(Target(m))} \/ Target(m) \in excused
      BY <1>3, <2>2 DEF Mail, Right, MayWrite
    <3>3. m.for \in Texts
      BY <1>3 DEF Writes
    <3> QED
      BY <3>1, <3>2, <3>3 DEF IInv, ServerTypes
  <2>3. CASE m.what = "delete" /\ m.id \in Named
    <3>1. stored' = [stored EXCEPT ![m.id] = "gone"]
      BY <1>1, <2>3 DEF Written
    <3> QED
      BY <3>1 DEF IInv, ServerTypes
  <2>4. CASE m.what \notin {"create", "update", "delete"} \/ (m.what = "update" /\ ~Live(Target(m)))
             \/ (m.what = "delete" /\ m.id \notin Named)
    BY <1>1, <2>4 DEF Written
  <2> QED
    BY <2>1, <2>2, <2>3, <2>4
<1>7. DOMAIN stored' = Records /\ stored' = [r \in Records |-> stored'[r]]
  BY <1>1 DEF Written, IInv, ServerTypes
<1>8. \A r \in Records : /\ stored'[r] \in Texts \union {"free", "gone"}
                         /\ stored'[r] = "free" => stored[r] = "free"
  BY <1>6, OwnerNamed, TextsNamed DEF IInv, ServerTypes
<1>9. ServerTypes' /\ RecordsKeepTheirs'
  <2>1. stored' \in [Records -> Texts \union {"free", "gone"}]
    BY <1>7, <1>8
  <2>2. excused' = excused
    BY <1>2 DEF shell
  <2> QED
    BY <2>1, <2>2, <1>6 DEF IInv, ServerTypes, RecordsKeepTheirs
<1>10. InPlace /\ current' = current
  BY <1>2, <1>8 DEF InPlace, PaneOwner, Sid, stores, shell
<1>11. Msgs' \subseteq Msgs
  <2>1. ASSUME NEW r \in replies' PROVE r.msg \in Msgs
    <3>1. r \in replies \/ r = [msg |-> m, id |-> i]
      BY <1>1
    <3>2. r = [msg |-> m, id |-> i] => r.msg = m
      OBVIOUS
    <3> QED
      BY <3>1, <3>2 DEF Msgs
  <2> QED
    BY <2>1, <1>2 DEF Msgs
<1>12. \A r \in replies' : r \in replies \/ Answer(r)
  BY <1>1, <1>4, <1>5 DEF Answer
<1>13. Shows(view)' /\ Stores' /\ reads' = reads
  <2>1. view' = view /\ reads' = reads
    BY <1>2 DEF shell
  <2>2. Stores'
    BY <1>2 DEF Stores, stores, shell, IInv
  <2> QED
    BY <2>1, <2>2, <1>10, DialogsStay, FitsStays DEF IInv, Shows
<1> QED
  BY <1>9, <1>10, <1>11, <1>12, <1>13, StepInPlace

-----------------------------------------------------------------------------
(* The shell. *)

\* The choice among a list that is not empty is of the list.
LEMMA ChoiceIn == ASSUME NEW S, S # {} PROVE (CHOOSE x \in S : TRUE) \in S
OBVIOUS

\* What fetchWorkspaces and the list of the sessions leave in the stores.
LEMMA FetchedTypes ==
  ASSUME Stores
  PROVE  /\ \A l : FetchedWorkspaces(l) /\ l \subseteq Workspaces =>
              workspaces' \subseteq Workspaces /\ current' \in Workspaces \union {None}
         /\ \A l, a : l \subseteq Sessions /\ a \in Sessions \union {None} =>
              PickActive(l, a) \in Sessions \union {None}
<1>1. ASSUME NEW l, FetchedWorkspaces(l), l \subseteq Workspaces
      PROVE  workspaces' \subseteq Workspaces /\ current' \in Workspaces \union {None}
  BY <1>1, ChoiceIn DEF FetchedWorkspaces, Stores
<1>2. ASSUME NEW l, NEW a, l \subseteq Sessions, a \in Sessions \union {None}
      PROVE  PickActive(l, a) \in Sessions \union {None}
  BY <1>2, ChoiceIn DEF PickActive
<1> QED
  BY <1>1, <1>2

\* Shell steps, one by one.
LEMMA SessionListKeeps == ASSUME IInv, SessionList PROVE IInv'
<1>1. UNCHANGED <<server, isSuperAdmin, stores, shell>>
      /\ reads' = reads \union {Read("sessions", current)}
  BY DEF SessionList
<1>2. InPlace /\ current' = current
  BY <1>1 DEF InPlace, PaneOwner, Sid, server, stores, shell
<1>3. Asked(Read("sessions", current))
  BY SessionsAsked DEF IInv, Stores
<1>4. \A r \in reads' : r \in reads \/ Asked(r)'
  BY <1>1, <1>2, <1>3, AskedStays
<1>5. Dialogs(view)' /\ Fits(view.form)' /\ view' = view /\ view \in Views
  BY <1>1, <1>2, DialogsStay, FitsStays DEF shell, IInv, Shows
<1> QED
  BY <1>1, <1>4, <1>5, StepOfView DEF shell, IInv, ServerTypes

\* HandleCreateWorkspace: what it creates with is typed there and then.
LEMMA HandleCreateWorkspaceKeeps == ASSUME IInv, HandleCreateWorkspace PROVE IInv'
<1>1. Post("create", "workspace", None, "new") /\ view' = view
  BY DEF HandleCreateWorkspace
<1>2. Fit("create", "workspace", None, "new")
  BY TextsNamed DEF Fit, Kinds, Made, MayCreate, PaneKinds
<1> QED
  BY <1>1, <1>2, PostKeeps DEF IInv

\* Navigate: another page is mounted, with nothing in it.
LEMMA NavigateKeeps == ASSUME IInv, NEW sec \in Sections, Navigate(sec) PROVE IInv'
<1>1. GoTo(sec) /\ UNCHANGED stores
  BY DEF Navigate
<1>2. Stores'
  BY <1>1 DEF GoTo, IInv, Stores, stores
<1> QED
  BY <1>1, <1>2, GoToKeeps

\* EnterWorkspace: the pages of the new workspace start from nothing.
LEMMA EnterWorkspaceKeeps ==
  ASSUME IInv, NEW w \in Workspaces, EnterWorkspace(w) PROVE IInv'
<1>1. GoTo("connections") /\ current' = w /\ UNCHANGED <<workspaces, sessions, activeId>>
  BY DEF EnterWorkspace
<1>2. Stores' /\ "connections" \in Sections
  BY <1>1 DEF GoTo, IInv, Stores, Sections
<1> QED
  BY <1>1, <1>2, GoToKeeps

\* SelectWorkspace: as EnterWorkspace.
LEMMA SelectWorkspaceKeeps ==
  ASSUME IInv, NEW w \in Workspaces, SelectWorkspace(w) PROVE IInv'
BY EnterWorkspaceKeeps DEF SelectWorkspace

\* StoreAnswer: the stores only come to hold ids, of the page or of no page.
LEMMA StoreAnswerKeeps == ASSUME IInv, NEW r \in reads, StoreAnswer(r) PROVE IInv'
<1>1. UNCHANGED <<server, isSuperAdmin, section>>
  BY DEF StoreAnswer
<1>2. Msgs' = Msgs /\ replies' = replies /\ stored' = stored /\ Shows(view)
  BY <1>1 DEF server, Msgs, IInv
<1>3. CASE reads' = reads \ {r} /\ UNCHANGED <<stores, view, excused>>
  <2>1. InPlace /\ current' = current
    BY <1>1, <1>3 DEF InPlace, PaneOwner, Sid, server, stores
  <2>2. Dialogs(view)' /\ Fits(view.form)' /\ view' = view /\ view \in Views
    BY <1>2, <1>3, <2>1, DialogsStay, FitsStays DEF Shows
  <2> QED
    BY <1>1, <1>3, <2>2, StepOfView DEF IInv, ServerTypes
<1>4. CASE /\ \E l \in Listed("workspace", None) : FetchedWorkspaces(l)
           /\ UNCHANGED <<sessions, activeId>>
           /\ Commit(view, reads \ {r})
  <2>1. Stores'
    BY <1>1, <1>4, ListedOfKind, OfKinds, FetchedTypes DEF IInv, Stores
  <2> QED
    BY <1>1, <1>2, <1>4, <2>1, CommitKeeps
<1>5. CASE /\ \E l \in Listed("session", r.of) : FetchedSessions(l)
           /\ UNCHANGED <<workspaces, current>>
           /\ Commit(view, reads \ {r})
  <2>1. Stores'
    BY <1>1, <1>5, ListedOfKind, OfKinds, FetchedTypes DEF IInv, Stores, FetchedSessions
  <2> QED
    BY <1>1, <1>2, <1>5, <2>1, CommitKeeps
<1> QED
  BY <1>3, <1>4, <1>5 DEF StoreAnswer

\* WorkspaceCreated: the new workspace is entered, or nothing changes.
LEMMA WorkspaceCreatedKeeps ==
  ASSUME IInv, NEW r, NEW ok \in BOOLEAN, WorkspaceCreated(r, ok) PROVE IInv'
<1>1. /\ Answered(r, ok) /\ r.msg.kind = "workspace" /\ r.msg.what = "create"
      /\ UNCHANGED <<stored, isSuperAdmin, section, sessions, activeId>>
      /\ Commit(view, reads)
  BY DEF WorkspaceCreated
<1>2. Msgs' \subseteq Msgs /\ replies' \subseteq replies /\ (ok => r \in replies)
  BY <1>1, AnsweredFacts
<1>3. ok => r.id \in Workspaces
  BY <1>1, <1>2, OfKinds DEF IInv, Answer
<1>4. Stores'
  <2>1. CASE ok
    <3>1. workspaces' = workspaces \union {r.id} /\ current' = r.id
      BY <2>1 DEF WorkspaceCreated
    <3> QED
      BY <1>1, <1>3, <2>1, <3>1 DEF IInv, Stores
  <2>2. CASE ~ok
    <3>1. UNCHANGED <<workspaces, current>>
      BY <2>2 DEF WorkspaceCreated
    <3> QED
      BY <1>1, <3>1 DEF IInv, Stores
  <2> QED
    BY <2>1, <2>2
<1> QED
  BY <1>1, <1>2, <1>4, CommitKeeps DEF IInv

-----------------------------------------------------------------------------
(* The contacts. *)

\* On a page that is not a pane, any text may be held.
LEMMA FitsElsewhere ==
  ~OnPane => \A t : Fits(t)
BY DEF OnPane, Fits, PaneOwner

\* Ids of each kind are ids and texts.
LEMMA IdsNamed ==
  /\ \A c \in Contacts : c \in Named /\ c \in Texts
  /\ \A d \in Documents : d \in Named /\ d \in Texts
  /\ \A s \in Sessions : s \in Named /\ s \in Texts
  /\ \A w \in Workspaces : w \in Named /\ w \in Texts
BY DEF Named, Texts

\* The contacts' actions, one by one.
LEMMA OpenCreateKeeps == ASSUME IInv, HandleOpenCreate PROVE IInv'
<1> DEFINE v == [view EXCEPT !.dialog = "edit", !.of = None, !.form = "unsaved"]
<1>1. section = "contacts" /\ Show(v)
  BY DEF HandleOpenCreate, OnContacts
<1>2. v \in Views /\ v.dialog = "edit" /\ v.of = None /\ v.form = "unsaved"
  BY TextsNamed DEF IInv, Shows, Views
<1>3. Dialogs(v) /\ Fits(v.form)
  BY <1>1, <1>2, FitsElsewhere DEF Dialogs, ContactsDialog, OnPane
<1> QED
  BY <1>1, <1>2, <1>3, ShowKeeps

\* OpenSheet: the sheet holds no text.
LEMMA OpenSheetKeeps == ASSUME IInv, NEW c \in Contacts, OpenSheet(c) PROVE IInv'
<1> DEFINE v == [view EXCEPT !.under = c]
<1>1. section = "contacts" /\ Show(v)
  BY DEF OpenSheet, CardShown, OnContacts
<1>2. /\ v \in Views /\ v.dialog = view.dialog /\ v.of = view.of /\ v.form = view.form
      /\ v.left = view.left
  BY DEF IInv, Shows, Views
<1>3. Dialogs(v) /\ Fits(v.form)
  BY <1>1, <1>2 DEF Dialogs, ContactsDialog, IInv, Shows
<1> QED
  BY <1>1, <1>2, <1>3, ShowKeeps

\* CloseSheet: the sheet holds no text.
LEMMA CloseSheetKeeps == ASSUME IInv, CloseSheet PROVE IInv'
<1> DEFINE v == [view EXCEPT !.under = None]
<1>1. section = "contacts" /\ Show(v)
  BY DEF CloseSheet, OnContacts
<1>2. /\ v \in Views /\ v.dialog = view.dialog /\ v.of = view.of /\ v.form = view.form
      /\ v.left = view.left
  BY DEF IInv, Shows, Views
<1>3. Dialogs(v) /\ Fits(v.form)
  BY <1>1, <1>2 DEF Dialogs, ContactsDialog, IInv, Shows
<1> QED
  BY <1>1, <1>2, <1>3, ShowKeeps

\* HandleOpenEdit: the form is that of the contact it is opened for.
LEMMA HandleOpenEditKeeps == ASSUME IInv, NEW c \in Contacts, HandleOpenEdit(c) PROVE IInv'
<1> DEFINE v == [view EXCEPT !.dialog = "edit", !.of = c, !.form = c]
<1>1. section = "contacts" /\ Show(v)
  BY DEF HandleOpenEdit, CardShown, SheetShown, OnContacts
<1>2. v \in Views /\ v.dialog = "edit" /\ v.of = c /\ v.form = c
  BY IdsNamed DEF IInv, Shows, Views
<1>3. Dialogs(v) /\ Fits(v.form)
  BY <1>1, <1>2, FitsElsewhere DEF Dialogs, ContactsDialog, OnPane
<1> QED
  BY <1>1, <1>2, <1>3, ShowKeeps

\* HandleOpenDelete: the dialog holds the contact to delete, and no text.
LEMMA HandleOpenDeleteKeeps == ASSUME IInv, NEW c \in Contacts, HandleOpenDelete(c) PROVE IInv'
<1> DEFINE v == [view EXCEPT !.dialog = "delete", !.left = c]
<1>1. section = "contacts" /\ Show(v)
  BY DEF HandleOpenDelete, CardShown, SheetShown, OnContacts
<1>2. v \in Views /\ v.dialog = "delete" /\ v.left = c
  BY IdsNamed DEF IInv, Shows, Views
<1>3. Dialogs(v) /\ Fits(v.form)
  BY <1>1, <1>2, FitsElsewhere DEF Dialogs, ContactsDialog, OnPane
<1> QED
  BY <1>1, <1>2, <1>3, ShowKeeps

\* CloseDialog: a closed dialog may hold anything.
LEMMA CloseDialogKeeps == ASSUME IInv, CloseDialog PROVE IInv'
<1> DEFINE v == [view EXCEPT !.dialog = "none"]
<1>1. section = "contacts" /\ Show(v)
  BY DEF CloseDialog, OnContacts
<1>2. v \in Views /\ v.dialog = "none"
  BY DEF IInv, Shows, Views
<1>3. Dialogs(v) /\ Fits(v.form)
  BY <1>1, <1>2, FitsElsewhere DEF Dialogs, ContactsDialog, OnPane
<1> QED
  BY <1>1, <1>2, <1>3, ShowKeeps

\* HandleSaveContact: the form of the dialog is that of its contact, or typed anew.
LEMMA HandleSaveContactKeeps == ASSUME IInv, HandleSaveContact PROVE IInv'
<1> PICK what, id, for :
      /\ what = IF view.of = None THEN "create" ELSE "update"
      /\ id = view.of /\ for = view.form
  OBVIOUS
<1>1. /\ section = "contacts" /\ view.dialog = "edit"
      /\ Post(what, "contact", id, for) /\ view' = view
  BY DEF HandleSaveContact, OnContacts
<1>2. \/ what = "create" /\ id = None /\ for = "unsaved"
      \/ what \in {"create", "update"} /\ id \in Contacts /\ for = id
  BY <1>1 DEF IInv, Shows, Dialogs, ContactsDialog
<1>3. id \in Contacts => what = "update" /\ id \in Named
  BY ConsoleAssumption DEF Named
<1>4. Fit(what, "contact", id, for)
  BY <1>2, <1>3, TextsNamed, OwnerOfNamed DEF Fit, Kinds, Made, MayCreate, MayWrite, PaneKinds
<1> QED
  BY <1>1, <1>4, PostKeeps DEF IInv

\* ConfirmDeleteContact: a deletion writes no text.
LEMMA ConfirmDeleteContactKeeps == ASSUME IInv, ConfirmDeleteContact PROVE IInv'
<1> PICK c : c = view.left
  OBVIOUS
<1>1. /\ section = "contacts" /\ view.dialog = "delete"
      /\ Post("delete", "contact", c, "new") /\ view' = view
  BY DEF ConfirmDeleteContact, OnContacts
<1>2. c \in Named
  BY <1>1 DEF IInv, Shows, Dialogs, ContactsDialog, Named
<1>3. Fit("delete", "contact", c, "new")
  BY <1>2, TextsNamed DEF Fit, Kinds, PaneKinds
<1> QED
  BY <1>1, <1>3, PostKeeps DEF IInv

\* HandleDial: the page is left.
LEMMA HandleDialKeeps == ASSUME IInv, NEW c \in Contacts, HandleDial(c) PROVE IInv'
<1>1. GoTo("elsewhere") /\ UNCHANGED stores
  BY DEF HandleDial
<1>2. Stores' /\ "elsewhere" \in Sections
  BY <1>1 DEF GoTo, IInv, Stores, stores, Sections
<1> QED
  BY <1>1, <1>2, GoToKeeps

\* The reads of a page that shows its list again.
LEMMA ContactsReadKeeps == ASSUME IInv, NEW r \in reads, ContactsRead(r) PROVE IInv'
<1>1. /\ reads' = reads \ {r}
      /\ UNCHANGED <<server, isSuperAdmin, stores, section, excused>>
  BY DEF ContactsRead
<1>2. PICK v : v = view'
  OBVIOUS
<1>3. PICK l \in SUBSET Named : v = [view EXCEPT !.list = l, !.loading = FALSE]
  <2>1. CASE view' = [view EXCEPT !.loading = FALSE]
    <3>1. view.list \in SUBSET Named /\ v = [view EXCEPT !.list = view.list, !.loading = FALSE]
      BY <1>2, <2>1 DEF IInv, Shows, Views
    <3> QED
      BY <3>1
  <2>2. CASE \E l \in Listed("contact", r.of) :
               view' = [view EXCEPT !.list = l, !.loading = FALSE]
    BY <1>2, <2>2, ListedOfKind, OfKindNamed
  <2> QED
    BY <2>1, <2>2 DEF ContactsRead
<1>4. /\ v \in Views /\ v.dialog = view.dialog /\ v.of = view.of /\ v.form = view.form
      /\ v.left = view.left /\ v.name = view.name
  BY <1>3 DEF IInv, Shows, Views
<1> QED
  BY <1>1, <1>2, <1>4, ListKeeps

\* ContactReturns: it closes the dialog it finds, of whichever contact.
LEMMA ContactReturnsKeeps ==
  ASSUME IInv, NEW r, NEW ok \in BOOLEAN, ContactReturns(r, ok) PROVE IInv'
<1>1. /\ Answered(r, ok) /\ UNCHANGED <<stored, isSuperAdmin, stores, section, excused>>
      /\ reads' = IF ok /\ OnContacts
                  THEN reads \union PageReads(section, None, current, Sid) ELSE reads
  BY DEF ContactReturns
<1>2. Msgs' \subseteq Msgs /\ replies' \subseteq replies
  BY <1>1, AnsweredFacts
<1>3. InPlace /\ current' = current /\ Sid' = Sid
  BY <1>1 DEF InPlace, PaneOwner, Sid, stores
<1>4. ServerTypes' /\ RecordsKeepTheirs' /\ Stores'
  BY <1>1 DEF IInv, ServerTypes, RecordsKeepTheirs, Stores, stores
<1>5. \A q \in reads' : q \in reads \/ Asked(q)'
  <2>1. \A q \in PageReads(section', None, current', Sid') : Asked(q)'
    BY <1>4, PageReadsAsked
  <2> QED
    BY <1>1, <1>3, <2>1 DEF InPlace
<1>6. Shows(view)'
  <2>1. PICK v : v = view'
    OBVIOUS
  <2>2. /\ v \in Views /\ v.dialog \in {view.dialog, "none"} /\ v.of = view.of
        /\ v.form = view.form /\ v.left = view.left /\ v.name = view.name
    <3>1. PICK shut \in BOOLEAN : v =
            IF ~(ok /\ r.msg.mine) THEN view
            ELSE IF r.msg.what = "delete"
                 THEN [view EXCEPT !.dialog = IF @ = "delete" THEN "none" ELSE @,
                                   !.under = IF shut THEN None ELSE @]
                 ELSE [view EXCEPT !.dialog = IF @ = "edit" THEN "none" ELSE @]
      BY <2>1 DEF ContactReturns
    <3> QED
      BY <3>1 DEF IInv, Shows, Views
  <2>3. Dialogs(v) /\ Fits(v.form)
    BY <2>2, ClosedDialogs DEF IInv, Shows
  <2> QED
    BY <1>3, <2>1, <2>2, <2>3, DialogsStay, FitsStays, ShowsNext
<1> QED
  BY <1>2, <1>3, <1>4, <1>5, <1>6, StepInPlace

-----------------------------------------------------------------------------
(* The connections. *)

\* SetActiveSession: a pane that stays while its session changes is excused.
LEMMA SetActiveSessionKeeps ==
  ASSUME IInv, NEW s \in Sessions, SetActiveSession(s) PROVE IInv'
<1>1. /\ activeId' = s /\ Commit(view, reads)
      /\ UNCHANGED <<server, isSuperAdmin, workspaces, current, sessions, section>>
  BY DEF SetActiveSession
<1>2. Stores'
  BY <1>1 DEF IInv, Stores
<1>3. Msgs' = Msgs /\ replies' = replies /\ stored' = stored /\ Shows(view)
  BY <1>1 DEF server, Msgs, IInv
<1> QED
  BY <1>1, <1>2, <1>3, CommitKeeps

\* OpenWebphone: the page is left.
LEMMA OpenWebphoneKeeps == ASSUME IInv, NEW s \in Sessions, OpenWebphone(s) PROVE IInv'
<1>1. activeId' = s /\ UNCHANGED <<workspaces, current, sessions>> /\ GoTo("elsewhere")
  BY DEF OpenWebphone
<1>2. Stores' /\ "elsewhere" \in Sections
  BY <1>1 DEF GoTo, IInv, Stores, Sections
<1> QED
  BY <1>1, <1>2, GoToKeeps

\* The dialogs keep the name of the settings.
LEMMA HandleOpenCreateModalKeeps == ASSUME IInv, HandleOpenCreateModal PROVE IInv'
<1> DEFINE v == [view EXCEPT !.dialog = "create", !.of = None]
<1>1. section = "connections" /\ Show(v)
  BY DEF HandleOpenCreateModal, OnConnections
<1>2. v \in Views /\ v.dialog = "create" /\ v.name = view.name
  BY DEF IInv, Shows, Views
<1>3. Dialogs(v) /\ Fits(v.form)
  BY <1>1, <1>2, FitsElsewhere DEF Dialogs, ConnectionsDialog, OnPane, IInv, Shows
<1> QED
  BY <1>1, <1>2, <1>3, ShowKeeps

\* HandleOpenRenameModal: the name in the form is that of the session.
LEMMA HandleOpenRenameModalKeeps ==
  ASSUME IInv, NEW s \in Sessions, HandleOpenRenameModal(s) PROVE IInv'
<1> DEFINE v == [view EXCEPT !.dialog = "rename", !.of = s, !.form = s]
<1>1. section = "connections" /\ Show(v)
  BY DEF HandleOpenRenameModal, SessionShown, OnConnections
<1>2. v \in Views /\ v.dialog = "rename" /\ v.of = s /\ v.form = s /\ v.name = view.name
  BY IdsNamed DEF IInv, Shows, Views
<1>3. Dialogs(v) /\ Fits(v.form)
  BY <1>1, <1>2, FitsElsewhere DEF Dialogs, ConnectionsDialog, OnPane, IInv, Shows
<1> QED
  BY <1>1, <1>2, <1>3, ShowKeeps

\* OpenRotate: no key is left from another session.
LEMMA OpenRotateKeeps == ASSUME IInv, NEW s \in Sessions, OpenRotate(s) PROVE IInv'
<1> DEFINE v == [view EXCEPT !.dialog = "rotate", !.of = s, !.left = "new"]
<1>1. section = "connections" /\ Show(v)
  BY DEF OpenRotate, SessionShown, OnConnections
<1>2. v \in Views /\ v.dialog = "rotate" /\ v.of = s /\ v.left = "new" /\ v.name = view.name
  BY IdsNamed, TextsNamed DEF IInv, Shows, Views
<1>3. Dialogs(v) /\ Fits(v.form)
  BY <1>1, <1>2, FitsElsewhere DEF Dialogs, ConnectionsDialog, OnPane, IInv, Shows
<1> QED
  BY <1>1, <1>2, <1>3, ShowKeeps

\* TypeApiKey: the key is typed for the session of the dialog.
LEMMA TypeApiKeyKeeps == ASSUME IInv, TypeApiKey PROVE IInv'
<1> DEFINE v == [view EXCEPT !.left = view.of]
<1>1. section = "connections" /\ view.dialog = "rotate" /\ Show(v)
  BY DEF TypeApiKey, OnConnections
<1>2. view.of \in Sessions /\ view.of \in Texts
  BY <1>1, IdsNamed DEF IInv, Shows, Dialogs, ConnectionsDialog
<1>3. v \in Views /\ v.dialog = "rotate" /\ v.of = view.of /\ v.left = view.of /\ v.name = view.name
  BY <1>1, <1>2 DEF IInv, Shows, Views
<1>4. Dialogs(v) /\ Fits(v.form)
  BY <1>1, <1>2, <1>3, FitsElsewhere DEF Dialogs, ConnectionsDialog, OnPane, IInv, Shows
<1> QED
  BY <1>1, <1>3, <1>4, ShowKeeps

\* OpenRemove: the dialog holds no text.
LEMMA OpenRemoveKeeps == ASSUME IInv, NEW s \in Sessions, OpenRemove(s) PROVE IInv'
<1> DEFINE v == [view EXCEPT !.dialog = "remove", !.of = s]
<1>1. section = "connections" /\ Show(v)
  BY DEF OpenRemove, SessionShown, OnConnections
<1>2. v \in Views /\ v.dialog = "remove" /\ v.name = view.name
  BY IdsNamed DEF IInv, Shows, Views
<1>3. Dialogs(v) /\ Fits(v.form)
  BY <1>1, <1>2, FitsElsewhere DEF Dialogs, ConnectionsDialog, OnPane, IInv, Shows
<1> QED
  BY <1>1, <1>2, <1>3, ShowKeeps

\* CloseConnectionDialog: nothing is left in the dialogs.
LEMMA CloseConnectionDialogKeeps == ASSUME IInv, CloseConnectionDialog PROVE IInv'
<1> DEFINE v == [view EXCEPT !.dialog = "none", !.of = None, !.form = "new", !.left = "new"]
<1>1. section = "connections" /\ Show(v)
  BY DEF CloseConnectionDialog, OnConnections
<1>2. v \in Views /\ v.dialog = "none" /\ v.name = view.name
  BY TextsNamed DEF IInv, Shows, Views
<1>3. Dialogs(v) /\ Fits(v.form)
  BY <1>1, <1>2, FitsElsewhere DEF Dialogs, ConnectionsDialog, OnPane, IInv, Shows
<1> QED
  BY <1>1, <1>2, <1>3, ShowKeeps

\* OnNewSessionSubmit: what it creates with is typed there and then.
LEMMA OnNewSessionSubmitKeeps == ASSUME IInv, OnNewSessionSubmit PROVE IInv'
<1>1. Post("create", "session", None, "new") /\ view' = view
  BY DEF OnNewSessionSubmit
<1>2. Fit("create", "session", None, "new")
  BY TextsNamed DEF Fit, Kinds, Made, MayCreate, PaneKinds
<1> QED
  BY <1>1, <1>2, PostKeeps DEF IInv

\* OnRenameSubmit: the name is that of the session renamed.
LEMMA OnRenameSubmitKeeps == ASSUME IInv, OnRenameSubmit PROVE IInv'
<1> PICK id, for : id = view.of /\ for = view.form
  OBVIOUS
<1>1. /\ section = "connections" /\ view.dialog = "rename"
      /\ Post("update", "session", id, for) /\ view' = view
  BY DEF OnRenameSubmit, OnConnections
<1>2. id \in Sessions /\ for = id
  BY <1>1 DEF IInv, Shows, Dialogs, ConnectionsDialog
<1>3. id \in Named /\ id \in Texts
  BY <1>2, IdsNamed
<1>4. Fit("update", "session", id, for)
  BY <1>2, <1>3, OwnerOfNamed DEF Fit, Kinds, MayWrite, PaneKinds
<1> QED
  BY <1>1, <1>4, PostKeeps DEF IInv

\* HandleRotateKeySubmit: the key was typed for the session of the dialog.
LEMMA HandleRotateKeySubmitKeeps == ASSUME IInv, HandleRotateKeySubmit PROVE IInv'
<1> PICK id, for : id = view.of /\ for = view.left
  OBVIOUS
<1>1. /\ section = "connections" /\ view.dialog = "rotate"
      /\ Post("update", "key", id, for) /\ view' = view
  BY DEF HandleRotateKeySubmit, OnConnections
<1>2. id \in Sessions /\ for \in {"new", id}
  BY <1>1 DEF IInv, Shows, Dialogs, ConnectionsDialog
<1>3. id \in Named /\ for \in Texts
  BY <1>2, IdsNamed, TextsNamed
<1>4. <<"key", id>> \in Settings
  BY <1>2 DEF Settings
<1>5. MayWrite(<<"key", id>>, for)
  BY <1>2, <1>4, OwnerOfSettings DEF MayWrite
<1>6. Fit("update", "key", id, for)
  BY <1>1, <1>3, <1>5 DEF Fit, Kinds, PaneKinds
<1> QED
  BY <1>1, <1>6, PostKeeps DEF IInv

\* OnRemoveSession: a deletion writes no text.
LEMMA OnRemoveSessionKeeps == ASSUME IInv, OnRemoveSession PROVE IInv'
<1> PICK id : id = view.of
  OBVIOUS
<1> PICK v : v = [view EXCEPT !.dialog = "none", !.of = None]
  OBVIOUS
<1>1. section = "connections" /\ Post("delete", "session", id, "new") /\ view' = v
  BY DEF OnRemoveSession, OnConnections
<1>2. v \in Views /\ v.dialog = "none" /\ v.name = view.name /\ v.form = view.form
  BY DEF IInv, Shows, Views
<1>3. Shows(v)
  BY <1>1, <1>2 DEF Dialogs, ConnectionsDialog, IInv, Shows
<1>4. Fit("delete", "session", id, "new")
  BY TextsNamed DEF Fit, Kinds, PaneKinds, IInv, Shows, Views
<1> QED
  BY <1>1, <1>3, <1>4, PostKeeps

\* Requests that write no text.
LEMMA FitTouch ==
  ASSUME NEW kind \in Kinds, kind \notin PaneKinds, kind # "key"
  PROVE  Fit("touch", kind, None, "new")
BY TextsNamed DEF Fit

\* TouchSession: no text is written.
LEMMA TouchSessionKeeps == ASSUME IInv, NEW s \in Sessions, TouchSession(s) PROVE IInv'
<1>1. Post("touch", "line", None, "new") /\ view' = view
  BY DEF TouchSession
<1> QED
  BY <1>1, FitTouch, PostKeeps DEF IInv, Kinds, PaneKinds

\* What Finish makes of a view that is shown is right.
LEMMA FinishShows ==
  ASSUME IInv, NEW r \in reads PROVE Shows(Finish(r, view))
<1> PICK v : v = Finish(r, view)
  OBVIOUS
<1>1. CASE r.mine /\ r.then = "rotated"
  <2>1. section = "connections"
    BY <1>1 DEF IInv, Asked
  <2>2. v = [view EXCEPT !.dialog = IF @ = "rotate" THEN "none" ELSE @, !.left = "new"]
    BY <1>1 DEF Finish
  <2>3. /\ v \in Views /\ v.dialog \in {view.dialog, "none"} /\ v.dialog # "rotate"
        /\ v.of = view.of /\ v.form = view.form /\ v.name = view.name
    BY <2>2, TextsNamed DEF IInv, Shows, Views
  <2> QED
    BY <2>1, <2>3 DEF IInv, Shows, Dialogs, ConnectionsDialog
<1>2. CASE ~(r.mine /\ r.then = "rotated")
  <2>1. PICK d \in {view.dialog, "none"} : v = [view EXCEPT !.dialog = d]
    <3>1. view = [view EXCEPT !.dialog = view.dialog]
      BY DEF IInv, Shows, Views
    <3>2. CASE r.mine /\ r.then = "created"
      <4>1. v = [view EXCEPT !.dialog = IF @ = "create" THEN "none" ELSE @]
        BY <3>2 DEF Finish
      <4> QED
        BY <4>1
    <3>3. CASE r.mine /\ r.then = "renamed"
      <4>1. v = [view EXCEPT !.dialog = IF @ = "rename" THEN "none" ELSE @]
        BY <3>3 DEF Finish
      <4> QED
        BY <4>1
    <3>4. CASE ~r.mine \/ r.then \notin {"created", "renamed"}
      <4>1. v = view
        BY <1>2, <3>4 DEF Finish
      <4> QED
        BY <3>1, <4>1
    <3> QED
      BY <3>2, <3>3, <3>4
  <2>2. /\ v \in Views /\ v.dialog \in {view.dialog, "none"}
        /\ v.of = view.of /\ v.form = view.form /\ v.left = view.left /\ v.name = view.name
    BY <2>1 DEF IInv, Shows, Views
  <2> QED
    BY <2>2, ClosedDialogs DEF IInv, Shows
<1> QED
  BY <1>1, <1>2

\* Refreshed: the stores may move to another workspace, and panes that stay are excused.
LEMMA RefreshedKeeps == ASSUME IInv, NEW r \in reads, Refreshed(r) PROVE IInv'
<1>1. UNCHANGED <<server, isSuperAdmin, section>> /\ Commit(Finish(r, view), reads \ {r})
  BY DEF Refreshed
<1>2. workspaces' \subseteq Workspaces /\ current' \in Workspaces \union {None}
  <2>1. CASE \E l \in Listed("workspace", None) : FetchedWorkspaces(l)
    BY <2>1, ListedOfKind, OfKinds, FetchedTypes DEF IInv
  <2>2. CASE UNCHANGED <<workspaces, current>>
    BY <2>2 DEF IInv, Stores
  <2> QED
    BY <2>1, <2>2 DEF Refreshed
<1>3. sessions' \subseteq Sessions /\ activeId' \in Sessions \union {None}
  <2>1. PICK l \in Listed("session", r.of) \union {sessions} :
          LET a == IF l = sessions THEN activeId ELSE PickActive(l, activeId) IN
          sessions' = l /\ activeId' = IF r.then = "created" THEN r.id ELSE a
    BY DEF Refreshed
  <2>2. l \subseteq Sessions
    BY ListedOfKind, OfKinds DEF IInv, Stores
  <2>3. PickActive(l, activeId) \in Sessions \union {None}
    BY <2>2, FetchedTypes DEF IInv, Stores
  <2>4. r.id \in Sessions \union {None}
    BY DEF IInv, Asked, Reads
  <2> QED
    BY <2>1, <2>2, <2>3, <2>4 DEF IInv, Stores
<1>4. Stores'
  BY <1>1, <1>2, <1>3 DEF IInv, Stores
<1>5. Msgs' = Msgs /\ replies' = replies /\ stored' = stored
  BY <1>1 DEF server, Msgs
<1>6. PICK v : v = Finish(r, view)
  OBVIOUS
<1>7. Shows(v)
  BY <1>6, FinishShows
<1> QED
  BY <1>1, <1>4, <1>5, <1>6, <1>7, CommitKeeps

\* What refreshSessionsList reads is for the page that is shown.
LEMMA RefreshAsked ==
  ASSUME IInv, Stores', section' = section, NEW m \in Msgs,
         NEW then \in {"list", "created", "renamed", "rotated"},
         then = "rotated" => m.kind = "key",
         NEW id, then = "created" => id \in Sessions
  PROVE  \A q \in RefreshSessionsList(m, then, id) : Asked(q)'
<1>1. PICK w : w = current'
  OBVIOUS
<1>2. w \in Named \union {None}
  BY <1>1 DEF Stores, Named
<1> SUFFICES ASSUME NEW q \in RefreshSessionsList(m, then, id) PROVE Asked(q)'
  OBVIOUS
<1>3. q = [Read("refresh", w) EXCEPT
             !.then = IF m.mine \/ then = "created" THEN then ELSE "list",
             !.id = IF then = "created" THEN id ELSE None,
             !.mine = m.mine \/ then # "created"]
  BY <1>1 DEF RefreshSessionsList
<1>4. m.mine \in BOOLEAN /\ (m.mine /\ m.kind = "key" => section = "connections")
  BY DEF IInv, Mail, Writes, Placed
<1>5. /\ q.what = "refresh" /\ q \in Reads
      /\ q.then = "rotated" => m.mine /\ then = "rotated"
  BY <1>2, <1>3, <1>4 DEF Read, Reads, Lists
<1> QED
  BY <1>4, <1>5 DEF Asked, PaneKinds

\* SessionReturns: the sessions are read again, and the dialogs that close hold nothing.
LEMMA SessionReturnsKeeps ==
  ASSUME IInv, NEW r, NEW ok \in BOOLEAN, SessionReturns(r, ok) PROVE IInv'
<1> PICK then :
      then = CASE r.msg.what = "create" -> "created"
               [] r.msg.what = "update" /\ r.msg.kind = "key" -> "rotated"
               [] r.msg.what = "update" /\ r.msg.kind = "session" -> "renamed"
               [] OTHER -> "list"
  OBVIOUS
<1>1. /\ Answered(r, ok) /\ r.msg.kind \in {"session", "key"}
      /\ UNCHANGED <<stored, isSuperAdmin, stores, section>>
      /\ Commit(view, reads \union
                        IF ok THEN RefreshSessionsList(r.msg, then, r.id) ELSE {})
  BY DEF SessionReturns
<1>2. Msgs' \subseteq Msgs /\ replies' \subseteq replies /\ r.msg \in Msgs /\ (ok => r \in replies)
  BY <1>1, AnsweredFacts
<1>3. Stores'
  BY <1>1 DEF IInv, Stores, stores
<1>4. ok /\ then = "created" => r.id \in Sessions
  <2>1. then = "created" => r.msg.what = "create"
    OBVIOUS
  <2>2. r.msg.what = "create" => r.msg.kind = "session"
    BY <1>1, <1>2 DEF IInv, Mail, Right, Made
  <2> QED
    BY <2>1, <2>2, <1>2, OfKinds DEF IInv, Answer
<1>5. then = "rotated" => r.msg.kind = "key"
  OBVIOUS
<1>6. ok => \A q \in RefreshSessionsList(r.msg, then, r.id) : Asked(q)'
  BY <1>1, <1>2, <1>3, <1>4, <1>5, RefreshAsked
<1>7. \A q \in reads \union IF ok THEN RefreshSessionsList(r.msg, then, r.id) ELSE {} :
        q \in reads \/ Asked(q)'
  BY <1>6
<1> QED
  BY <1>1, <1>2, <1>3, <1>7, CommitKeeps DEF IInv

-----------------------------------------------------------------------------
(* The settings of the workspace. *)

\* A view that only opens, or closes, one of its parts is right.
LEMMA PartShows ==
  ASSUME IInv,
         NEW u \in Contacts \union {None, "settings", "providers", "admin"},
         NEW d \in {view.dialog, "none", "member", "workspace", "test", "remove"}
  PROVE  Shows([view EXCEPT !.under = u, !.dialog = d])
<1> PICK v : v = [view EXCEPT !.under = u, !.dialog = d]
  OBVIOUS
<1>1. /\ v \in Views /\ v.dialog = d
      /\ v.of = view.of /\ v.form = view.form /\ v.left = view.left /\ v.name = view.name
  BY DEF IInv, Shows, Views
<1>2. Dialogs(v)
  BY <1>1 DEF IInv, Shows, Dialogs, ContactsDialog, ConnectionsDialog, KnowledgeDialog
<1> QED
  BY <1>1, <1>2 DEF IInv, Shows

\* With only one of them changed.
LEMMA UnderShows ==
  ASSUME IInv, NEW u \in Contacts \union {None, "settings", "providers", "admin"}
  PROVE  Shows([view EXCEPT !.under = u])
<1>1. [view EXCEPT !.under = u] = [view EXCEPT !.under = u, !.dialog = view.dialog]
  BY DEF IInv, Shows, Views
<1> QED
  BY <1>1, PartShows

\* A dialog without a text may open, or any dialog close.
LEMMA DialogShows ==
  ASSUME IInv, NEW d \in {view.dialog, "none", "member", "workspace", "test", "remove"}
  PROVE  Shows([view EXCEPT !.dialog = d])
<1>1. [view EXCEPT !.dialog = d] = [view EXCEPT !.under = view.under, !.dialog = d]
  BY DEF IInv, Shows, Views
<1>2. view.under \in Contacts \union {None, "settings", "providers", "admin"}
  BY DEF IInv, Shows, Views
<1> QED
  BY <1>1, <1>2, PartShows

\* OpenSettings: the modal's name follows the current workspace.
LEMMA OpenSettingsKeeps == ASSUME IInv, OpenSettings PROVE IInv'
<1> PICK v : v = [view EXCEPT !.under = "settings"]
  OBVIOUS
<1>1. UNCHANGED <<server, isSuperAdmin, stores, section>> /\ Commit(v, reads)
  BY DEF OpenSettings
<1>2. Stores' /\ Msgs' = Msgs /\ replies' = replies /\ stored' = stored
  BY <1>1 DEF IInv, Stores, stores, server, Msgs
<1> QED
  BY <1>1, <1>2, UnderShows, CommitKeeps

\* CloseSettings: the modal holds no text of its own.
LEMMA CloseSettingsKeeps == ASSUME IInv, CloseSettings PROVE IInv'
<1>1. Show([view EXCEPT !.under = None])
  BY DEF CloseSettings
<1> QED
  BY <1>1, UnderShows, ShowKeeps DEF Shows

\* HandleSaveName: the name in the modal is that of the current workspace.
LEMMA HandleSaveNameKeeps == ASSUME IInv, HandleSaveName PROVE IInv'
<1> PICK id, for : id = current /\ for = view.name
  OBVIOUS
<1>1. /\ section = "connections" /\ current # None
      /\ Post("update", "workspace", id, for) /\ view' = view
  BY DEF HandleSaveName, SettingsShown, OnConnections
<1>2. id \in Workspaces /\ for = id
  BY <1>1 DEF IInv, Shows, Dialogs, ConnectionsDialog, Stores
<1>3. id \in Named /\ id \in Texts
  BY <1>2, IdsNamed
<1>4. Fit("update", "workspace", id, for)
  BY <1>2, <1>3, OwnerOfNamed DEF Fit, Kinds, MayWrite, PaneKinds
<1> QED
  BY <1>1, <1>4, PostKeeps DEF IInv

\* HandleSaveDefaultSession: no text is written.
LEMMA HandleSaveDefaultSessionKeeps == ASSUME IInv, HandleSaveDefaultSession PROVE IInv'
<1>1. Post("touch", "line", None, "new") /\ view' = view
  BY DEF HandleSaveDefaultSession
<1> QED
  BY <1>1, FitTouch, PostKeeps DEF IInv, Kinds, PaneKinds

\* HandleInviteMember: no text is written.
LEMMA HandleInviteMemberKeeps == ASSUME IInv, HandleInviteMember PROVE IInv'
<1>1. Post("touch", "members", None, "new") /\ view' = view
  BY DEF HandleInviteMember
<1> QED
  BY <1>1, FitTouch, PostKeeps DEF IInv, Kinds, PaneKinds

\* AskRemoveMember: the dialog holds no text.
LEMMA AskRemoveMemberKeeps == ASSUME IInv, AskRemoveMember PROVE IInv'
<1>1. Show([view EXCEPT !.dialog = "member"])
  BY DEF AskRemoveMember
<1> QED
  BY <1>1, DialogShows, ShowKeeps DEF Shows

\* HandleRemoveMember: no text is written.
LEMMA HandleRemoveMemberKeeps == ASSUME IInv, HandleRemoveMember PROVE IInv'
<1> PICK v : v = [view EXCEPT !.dialog = "none"]
  OBVIOUS
<1>1. Post("touch", "members", None, "new") /\ view' = v
  BY DEF HandleRemoveMember
<1>2. Shows(v)
  BY DialogShows
<1> QED
  BY <1>1, <1>2, FitTouch, PostKeeps DEF Kinds, PaneKinds

\* AskDeleteWorkspace: the dialog holds no text.
LEMMA AskDeleteWorkspaceKeeps == ASSUME IInv, AskDeleteWorkspace PROVE IInv'
<1>1. Show([view EXCEPT !.dialog = "workspace"])
  BY DEF AskDeleteWorkspace
<1> QED
  BY <1>1, DialogShows, ShowKeeps DEF Shows

\* HandleDeleteWorkspace: a deletion writes no text.
LEMMA HandleDeleteWorkspaceKeeps == ASSUME IInv, HandleDeleteWorkspace PROVE IInv'
<1> PICK v, id : v = [view EXCEPT !.dialog = "none"] /\ id = current
  OBVIOUS
<1>1. Post("delete", "workspace", id, "new") /\ view' = v
  BY DEF HandleDeleteWorkspace
<1>2. Shows(v)
  BY DialogShows
<1>3. id \in Named \union {None}
  BY IdsNamed DEF IInv, Stores
<1>4. Fit("delete", "workspace", id, "new")
  BY <1>3, TextsNamed DEF Fit, Kinds, PaneKinds
<1> QED
  BY <1>1, <1>2, <1>4, PostKeeps

\* WorkspaceReturns: the modal closes, or the workspaces are read again.
LEMMA WorkspaceReturnsKeeps ==
  ASSUME IInv, NEW r, NEW ok \in BOOLEAN, WorkspaceReturns(r, ok) PROVE IInv'
<1> PICK v :
      v = IF ok /\ r.msg.what = "delete" /\ r.msg.mine
          THEN [view EXCEPT !.under = None, !.dialog = IF @ = "workspace" THEN "none" ELSE @]
          ELSE view
  OBVIOUS
<1> PICK rs :
      rs = reads \union IF ok /\ r.msg.kind = "line"
                       THEN RefreshSessionsList(r.msg, "list", None) ELSE {}
  OBVIOUS
<1>1. /\ Answered(r, ok) /\ Commit(v, rs)
      /\ UNCHANGED <<stored, isSuperAdmin, sessions, activeId, section>>
  BY DEF WorkspaceReturns
<1>2. Msgs' \subseteq Msgs /\ replies' \subseteq replies /\ r.msg \in Msgs
  BY <1>1, AnsweredFacts
<1>3. Stores'
  <2>1. CASE ok /\ r.msg.what = "delete"
    <3>1. /\ workspaces' = workspaces \ {r.id}
          /\ current' = IF workspaces' = {} THEN None ELSE CHOOSE w \in workspaces' : TRUE
      BY <2>1 DEF WorkspaceReturns
    <3>2. workspaces' \subseteq Workspaces
      BY <3>1 DEF IInv, Stores
    <3>3. current' \in workspaces' \union {None}
      BY <3>1, ChoiceIn
    <3> QED
      BY <1>1, <3>2, <3>3 DEF IInv, Stores
  <2>2. CASE ~(ok /\ r.msg.what = "delete")
    <3>1. UNCHANGED <<workspaces, current>>
      BY <2>2 DEF WorkspaceReturns
    <3> QED
      BY <1>1, <3>1 DEF IInv, Stores
  <2> QED
    BY <2>1, <2>2
<1>4. Shows(v)
  <2>1. CASE ok /\ r.msg.what = "delete" /\ r.msg.mine
    <3>1. PICK d \in {view.dialog, "none"} : v = [view EXCEPT !.under = None, !.dialog = d]
      BY <2>1
    <3>2. /\ None \in Contacts \union {None, "settings", "providers", "admin"}
          /\ d \in {view.dialog, "none", "member", "workspace", "test", "remove"}
      OBVIOUS
    <3>3. Shows([view EXCEPT !.under = None, !.dialog = d])
      BY <3>2, PartShows
    <3> QED
      BY <3>1, <3>3
  <2>2. CASE ~(ok /\ r.msg.what = "delete" /\ r.msg.mine)
    BY <2>2 DEF IInv
  <2> QED
    BY <2>1, <2>2
<1>5. \A q \in RefreshSessionsList(r.msg, "list", None) : Asked(q)'
  BY <1>1, <1>2, <1>3, RefreshAsked
<1>6. \A q \in rs : q \in reads \/ Asked(q)'
  BY <1>5
<1> QED
  BY <1>1, <1>2, <1>3, <1>4, <1>6, CommitKeeps

-----------------------------------------------------------------------------
(* The knowledge base. *)

\* DocumentsRead: the list holds ids, and the form is left alone.
LEMMA DocumentsReadKeeps == ASSUME IInv, NEW r \in reads, DocumentsRead(r) PROVE IInv'
<1>1. /\ reads' = reads \ {r}
      /\ UNCHANGED <<server, isSuperAdmin, stores, section, excused>>
  BY DEF DocumentsRead
<1>2. PICK v : v = view'
  OBVIOUS
<1>3. PICK l \in SUBSET Named : v = [view EXCEPT !.list = l, !.loading = FALSE]
  <2>1. CASE view' = [view EXCEPT !.loading = FALSE]
    <3>1. view.list \in SUBSET Named /\ v = [view EXCEPT !.list = view.list, !.loading = FALSE]
      BY <1>2, <2>1 DEF IInv, Shows, Views
    <3> QED
      BY <3>1
  <2>2. CASE \E l \in Listed("document", r.of) :
               view' = [view EXCEPT !.list = l, !.loading = FALSE]
    BY <1>2, <2>2, ListedOfKind, OfKindNamed
  <2> QED
    BY <2>1, <2>2 DEF DocumentsRead
<1>4. /\ v \in Views /\ v.dialog = view.dialog /\ v.of = view.of /\ v.form = view.form
      /\ v.left = view.left /\ v.name = view.name
  BY <1>3 DEF IInv, Shows, Views
<1> QED
  BY <1>1, <1>2, <1>4, ListKeeps

\* Reads of the page that no pane makes.
LEMMA PlainAsked ==
  ASSUME NEW what \in Lists \ PaneKinds, NEW x \in Named \union {None}
  PROVE  Asked(Read(what, x))
BY DEF Read, Asked, Reads

\* Filter: the form is left alone.
LEMMA FilterKeeps == ASSUME IInv, Filter PROVE IInv'
<1> PICK v, w : v = [view EXCEPT !.loading = TRUE] /\ w = current
  OBVIOUS
<1>1. /\ UNCHANGED <<server, isSuperAdmin, stores, section, excused>>
      /\ reads' = reads \union {Read("documents", w)} /\ view' = v
  BY DEF Filter
<1>2. Asked(Read("documents", w))
  BY PlainAsked, IdsNamed DEF Lists, PaneKinds, IInv, Stores
<1>3. /\ v \in Views /\ v.dialog = view.dialog /\ v.of = view.of /\ v.form = view.form
      /\ v.left = view.left /\ v.name = view.name
  BY DEF IInv, Shows, Views
<1> QED
  BY <1>1, <1>2, <1>3, ListKeeps

\* HandleOpenAdd: the form is typed anew, and no content is left in it.
LEMMA HandleOpenAddKeeps == ASSUME IInv, HandleOpenAdd PROVE IInv'
<1> DEFINE v == [view EXCEPT !.dialog = "edit", !.of = None, !.form = "unsaved", !.left = "new"]
<1>1. section = "knowledge" /\ Show(v)
  BY DEF HandleOpenAdd, OnKnowledge
<1>2. v \in Views /\ v.of = None /\ v.form = "unsaved" /\ v.left = "new"
  BY TextsNamed DEF IInv, Shows, Views
<1>3. Dialogs(v) /\ Fits(v.form)
  BY <1>1, <1>2, TextsNamed, FitsElsewhere DEF Dialogs, KnowledgeDialog, MayCreate, OnPane
<1> QED
  BY <1>1, <1>2, <1>3, ShowKeeps

\* HandleOpenAddModal: the form is that of the document, and what the last one left excuses it.
LEMMA HandleOpenAddModalKeeps ==
  ASSUME IInv, NEW d \in Documents, HandleOpenAddModal(d) PROVE IInv'
<1> PICK v : v = [view EXCEPT !.dialog = "edit", !.of = d, !.form = d]
  OBVIOUS
<1>1. /\ section = "knowledge" /\ view' = v
      /\ excused' = IF view.left \in {"new", d} THEN excused ELSE excused \union {d}
      /\ UNCHANGED <<server, reads, isSuperAdmin, stores, section>>
  BY DEF HandleOpenAddModal, DocumentShown, OnKnowledge
<1>2. v \in Views /\ v.of = d /\ v.form = d /\ v.left = view.left
  BY IdsNamed DEF IInv, Shows, Views
<1>3. excused \subseteq excused' /\ excused' \subseteq Records
  BY <1>1, IdsNamed, TextsNamed DEF IInv, ServerTypes
<1>4. Dialogs(v)'
  BY <1>1, <1>2 DEF Dialogs, KnowledgeDialog
<1>5. Fits(v.form)'
  BY <1>1 DEF Fits, PaneOwner
<1> QED
  BY <1>1, <1>2, <1>3, <1>4, <1>5, StepOfView

\* TypeOther: what is typed is for the document of the dialog.
LEMMA TypeOtherKeeps == ASSUME IInv, TypeOther PROVE IInv'
<1> PICK t : t = IF view.of = None THEN "unsaved" ELSE view.of
  OBVIOUS
<1> DEFINE v == [view EXCEPT !.left = t]
<1>1. section = "knowledge" /\ view.dialog = "edit" /\ Show(v)
  BY DEF TypeOther, Editing, OnKnowledge
<1>2. v \in Views /\ v.of = view.of /\ v.form = view.form /\ v.left = t
  BY TextsNamed DEF IInv, Shows, Views
<1>3. Dialogs(v) /\ Fits(v.form)
  BY <1>1, <1>2, FitsElsewhere, TextsNamed, IdsNamed
     DEF Dialogs, KnowledgeDialog, OnPane, IInv, Shows
<1> QED
  BY <1>1, <1>2, <1>3, ShowKeeps

\* HandleFileUpload: the dialog is left alone until the file is read.
LEMMA HandleFileUploadKeeps == ASSUME IInv, HandleFileUpload PROVE IInv'
<1> PICK d : d = view.of
  OBVIOUS
<1>1. /\ UNCHANGED <<server, isSuperAdmin, stores, section, view, excused>>
      /\ reads' = reads \union {Read("file", d)}
  BY DEF HandleFileUpload
<1>2. Asked(Read("file", d))
  BY PlainAsked DEF Lists, PaneKinds, IInv, Shows, Views
<1>3. view \in Views
  BY DEF IInv, Shows
<1> QED
  BY <1>1, <1>2, <1>3, ListKeeps

\* FileLoaded: a file chosen for another document excuses the one that takes it.
LEMMA FileLoadedKeeps == ASSUME IInv, NEW r \in reads, FileLoaded(r) PROVE IInv'
<1>1. reads' = reads \ {r} /\ UNCHANGED <<server, isSuperAdmin, stores, section>>
  BY DEF FileLoaded
<1>2. CASE ~Editing
  <2>1. view' = view /\ excused' = excused /\ view \in Views
    BY <1>2 DEF FileLoaded, IInv, Shows
  <2> QED
    BY <1>1, <2>1, ListKeeps
<1>3. CASE Editing
  <2> PICK v, t : /\ t = IF r.of = None THEN "unsaved" ELSE r.of
                  /\ v = [view EXCEPT !.form = t]
    OBVIOUS
  <2>1. /\ section = "knowledge" /\ view.dialog = "edit" /\ view' = v
        /\ excused' = IF view.of = r.of THEN excused
                      ELSE excused \union IF view.of = None
                             THEN {d \in Documents : stored[d] = "free"} ELSE {view.of}
    BY <1>3 DEF FileLoaded, Editing, OnKnowledge
  <2>2. r.of \in Named \union {None}
    BY DEF IInv, Asked, Reads
  <2>3. v \in Views /\ v.dialog = "edit" /\ v.of = view.of /\ v.form = t /\ v.left = view.left
    BY <2>1, <2>2, TextsNamed DEF IInv, Shows, Views
  <2>4. KnowledgeDialog(view) /\ view.of \in Named \union {None}
    BY <2>1 DEF IInv, Shows, Dialogs, Views
  <2>5. excused \subseteq excused' /\ excused' \subseteq Records
    BY <2>1, <2>4, IdsNamed, TextsNamed DEF IInv, ServerTypes
  <2>6. KnowledgeDialog(v)'
    <3>1. CASE view.of = None
      <4>1. v.left \in {"new", "unsaved"}
        BY <2>1, <2>3, <2>4, <3>1, IdsNamed, TextsNamed DEF KnowledgeDialog
      <4>2. MayCreate("document", t)'
        <5>1. CASE r.of = None
          BY <5>1, TextsNamed DEF MayCreate
        <5>2. CASE r.of # None
          <6>1. excused' = excused \union {d \in Documents : stored[d] = "free"}
            BY <2>1, <3>1, <5>2
          <6>2. stored' = stored
            BY <1>1 DEF server
          <6> QED
            BY <6>1, <6>2, OfKinds DEF MayCreate
        <5> QED
          BY <5>1, <5>2
      <4> QED
        BY <2>3, <3>1, <4>1, <4>2 DEF KnowledgeDialog
    <3>2. CASE view.of # None
      <4>1. view.of \in Documents
        BY <2>1, <2>4, <3>2 DEF KnowledgeDialog
      <4>2. CASE r.of = view.of
        BY <2>1, <2>3, <2>4, <3>2, <4>1, <4>2 DEF KnowledgeDialog
      <4>3. CASE r.of # view.of
        BY <2>1, <2>3, <3>2, <4>1, <4>3 DEF KnowledgeDialog
      <4> QED
        BY <4>2, <4>3
    <3> QED
      BY <3>1, <3>2
  <2>7. Dialogs(v)' /\ Fits(v.form)'
    BY <1>1, <2>1, <2>6 DEF Dialogs, Fits, PaneOwner
  <2> QED
    BY <1>1, <2>1, <2>3, <2>5, <2>7, StepOfView
<1> QED
  BY <1>2, <1>3

\* What ClosedIf makes of a view that is shown is right.
LEMMA ClosedIfShows ==
  ASSUME IInv, NEW d
  PROVE  Shows(ClosedIf(d))
<1> PICK v : v = ClosedIf(d)
  OBVIOUS
<1>1. CASE view.dialog = d
  <2>1. v = [view EXCEPT !.dialog = "none", !.of = None, !.form = "new"]
    BY <1>1 DEF ClosedIf
  <2>2. v \in Views /\ v.dialog = "none" /\ v.form = "new" /\ v.name = view.name
    BY <2>1, TextsNamed DEF IInv, Shows, Views
  <2> QED
    BY <2>2
       DEF Fits, IInv, Shows, Dialogs, ContactsDialog, ConnectionsDialog, KnowledgeDialog
<1>2. CASE view.dialog # d
  BY <1>2 DEF ClosedIf, IInv
<1> QED
  BY <1>1, <1>2

\* HandleSaveDocument: the document takes one of two texts, both its own unless it is excused.
LEMMA HandleSaveDocumentKeeps == ASSUME IInv, HandleSaveDocument PROVE IInv'
<1>1. PICK for \in {view.form, view.left} :
        /\ for # "new"
        /\ Post(IF view.of = None THEN "create" ELSE "update", "document", view.of, for)
  BY DEF HandleSaveDocument
<1> PICK what, id :
      /\ what = IF view.of = None THEN "create" ELSE "update"
      /\ id = view.of
  OBVIOUS
<1>2. /\ section = "knowledge" /\ view.dialog = "edit" /\ view' = view
      /\ Post(what, "document", id, for)
  BY <1>1 DEF HandleSaveDocument, Editing, OnKnowledge
<1>3. KnowledgeDialog(view) /\ view \in Views
  BY <1>2 DEF IInv, Shows, Dialogs
<1>4. id \in Named \union {None} /\ for \in Texts
  BY <1>1, <1>3 DEF Views
<1>5. what = "create" => MayCreate("document", for)
  <2> SUFFICES ASSUME id = None PROVE MayCreate("document", for)
    OBVIOUS
  <2>1. None \notin Documents
    BY IdsNamed, TextsNamed
  <2>2. for = view.form => MayCreate("document", for)
    BY <1>2, <1>3, <2>1 DEF KnowledgeDialog
  <2>3. for = view.left => for \notin Named
    BY <1>2, <1>3, <2>1, TextsNamed DEF KnowledgeDialog
  <2> QED
    BY <1>1, <2>2, <2>3 DEF MayCreate
<1>6. what = "update" => MayWrite(id, for)
  <2> SUFFICES ASSUME id # None PROVE MayWrite(id, for)
    OBVIOUS
  <2>1. id \in Documents /\ (id \in excused \/ for \in {"new", id})
    BY <1>1, <1>2, <1>3 DEF KnowledgeDialog
  <2>2. id \in Records /\ Owner(id) = id
    BY <2>1, IdsNamed, OwnerOfNamed
  <2> QED
    BY <2>1, <2>2 DEF MayWrite
<1>7. Fit(what, "document", id, for)
  BY <1>4, <1>5, <1>6 DEF Fit, Kinds, Made, PaneKinds
<1> QED
  BY <1>2, <1>7, PostKeeps DEF IInv

\* CloseDocument: a closed dialog may hold anything.
LEMMA CloseDocumentKeeps == ASSUME IInv, CloseDocument PROVE IInv'
<1>1. Show(ClosedIf(view.dialog))
  BY DEF CloseDocument
<1> PICK v : v = ClosedIf(view.dialog)
  OBVIOUS
<1>2. Shows(v)
  BY ClosedIfShows
<1> QED
  BY <1>1, <1>2, ShowKeeps DEF Shows

\* HandleToggle: no text is written.
LEMMA HandleToggleKeeps == ASSUME IInv, NEW d \in Documents, HandleToggle(d) PROVE IInv'
<1>1. Post("touch", "toggle", None, "new") /\ view' = view
  BY DEF HandleToggle
<1> QED
  BY <1>1, FitTouch, PostKeeps DEF IInv, Kinds, PaneKinds

\* OpenDelete: the dialog holds no text.
LEMMA OpenDeleteKeeps == ASSUME IInv, NEW d \in Documents, OpenDelete(d) PROVE IInv'
<1> DEFINE v == [view EXCEPT !.dialog = "delete", !.of = d]
<1>1. section = "knowledge" /\ Show(v)
  BY DEF OpenDelete, DocumentShown, OnKnowledge
<1>2. v \in Views /\ v.dialog = "delete"
  BY IdsNamed DEF IInv, Shows, Views
<1>3. Dialogs(v) /\ Fits(v.form)
  BY <1>1, <1>2, FitsElsewhere DEF Dialogs, KnowledgeDialog, OnPane
<1> QED
  BY <1>1, <1>2, <1>3, ShowKeeps

\* HandleDeleteConfirm: a deletion writes no text.
LEMMA DeleteConfirmKeeps == ASSUME IInv, HandleDeleteConfirm PROVE IInv'
<1> PICK id : id = view.of
  OBVIOUS
<1>1. Post("delete", "document", id, "new") /\ view' = view
  BY DEF HandleDeleteConfirm
<1>2. Fit("delete", "document", id, "new")
  BY TextsNamed DEF Fit, Kinds, PaneKinds, IInv, Shows, Views
<1> QED
  BY <1>1, <1>2, PostKeeps DEF IInv

\* OpenTest: the dialog holds no text.
LEMMA OpenTestKeeps == ASSUME IInv, OpenTest PROVE IInv'
<1>1. Show([view EXCEPT !.dialog = "test"])
  BY DEF OpenTest
<1> QED
  BY <1>1, DialogShows, ShowKeeps DEF Shows

\* HandleTestSearch: no text is written.
LEMMA HandleTestSearchKeeps == ASSUME IInv, HandleTestSearch PROVE IInv'
<1>1. Post("touch", "search", None, "new") /\ view' = view
  BY DEF HandleTestSearch
<1> QED
  BY <1>1, FitTouch, PostKeeps DEF IInv, Kinds, PaneKinds

\* An answer to the page, which changes what it reads and shows.
LEMMA AnswerKeeps ==
  ASSUME IInv, NEW r, NEW ok \in BOOLEAN, Answered(r, ok),
         UNCHANGED <<stored, isSuperAdmin, stores, section, excused>>,
         \A q \in reads' : q \in reads \/ Asked(q),
         NEW v, view' = v, Shows(v)
  PROVE  IInv'
<1>1. Msgs' \subseteq Msgs /\ replies' \subseteq replies
  BY AnsweredFacts
<1>2. InPlace /\ current' = current
  BY DEF InPlace, PaneOwner, Sid, stores
<1>3. ServerTypes' /\ RecordsKeepTheirs' /\ Stores'
  BY DEF IInv, ServerTypes, RecordsKeepTheirs, Stores, stores
<1>4. \A q \in reads' : q \in reads \/ Asked(q)'
  BY <1>2, AskedStays
<1>5. Shows(view)'
  BY <1>2, DialogsStay, FitsStays, ShowsNext DEF Shows
<1> QED
  BY <1>1, <1>2, <1>3, <1>4, <1>5, StepInPlace

\* DocumentReturns: the dialog closes, whichever document it is of; the list is read again.
LEMMA DocumentReturnsKeeps ==
  ASSUME IInv, NEW r, NEW ok \in BOOLEAN, DocumentReturns(r, ok) PROVE IInv'
<1>1. /\ Answered(r, ok) /\ UNCHANGED <<stored, isSuperAdmin, stores, section, excused>>
  BY DEF DocumentReturns
<1>2. r.msg \in Msgs
  BY <1>1, AnsweredFacts
<1>3. CASE UNCHANGED <<reads, view>>
  BY <1>1, <1>3, AnswerKeeps DEF IInv
<1>4. ASSUME NEW d \in {"edit", "delete"}, NEW l \in SUBSET Named, NEW b \in BOOLEAN
      PROVE  Shows([ClosedIf(d) EXCEPT !.list = l, !.loading = b])
  <2> PICK v : v = ClosedIf(d)
    OBVIOUS
  <2> PICK u : u = [v EXCEPT !.list = l, !.loading = b]
    OBVIOUS
  <2>1. Shows(v)
    BY ClosedIfShows
  <2>2. /\ u \in Views /\ u.dialog = v.dialog /\ u.of = v.of /\ u.form = v.form
        /\ u.left = v.left /\ u.name = v.name
    BY <2>1 DEF Shows, Views
  <2> QED
    BY <2>1, <2>2, SameDialogs DEF Shows
<1>5. CASE r.msg.mine /\ r.msg.what = "delete"
  <2>1. /\ reads' = reads
        /\ view' = [ClosedIf("delete") EXCEPT !.list = IF ok THEN @ \ {r.id} ELSE @]
    BY <1>5 DEF DocumentReturns
  <2> PICK v : v = ClosedIf("delete")
    OBVIOUS
  <2>2. v \in Views
    BY ClosedIfShows DEF Shows
  <2>3. PICK l \in SUBSET Named : view' = [v EXCEPT !.list = l, !.loading = v.loading]
    <3> PICK l : l = IF ok THEN v.list \ {r.id} ELSE v.list
      OBVIOUS
    <3>1. l \in SUBSET Named
      BY <2>2 DEF Views
    <3>2. view' = [v EXCEPT !.list = l]
      BY <2>1
    <3>3. [v EXCEPT !.list = l] = [v EXCEPT !.list = l, !.loading = v.loading]
      BY <2>2 DEF Views
    <3> QED
      BY <3>1, <3>2, <3>3
  <2> PICK u : u = view'
    OBVIOUS
  <2>4. v.loading \in BOOLEAN
    BY <2>2 DEF Views
  <2>5. Shows(u)
    BY <1>4, <2>3, <2>4
  <2> QED
    BY <1>1, <2>1, <2>5, AnswerKeeps
<1>6. CASE ok /\ r.msg.mine /\ r.msg.what \notin {"delete", "touch"}
  <2>1. /\ reads' = reads \union {Read("documents", r.msg.ws)}
        /\ view' = [ClosedIf("edit") EXCEPT !.loading = TRUE]
    BY <1>6 DEF DocumentReturns
  <2> PICK v : v = ClosedIf("edit")
    OBVIOUS
  <2>2. v \in Views
    BY ClosedIfShows DEF Shows
  <2> PICK u : u = view'
    OBVIOUS
  <2>3. u = [v EXCEPT !.list = v.list, !.loading = TRUE] /\ v.list \in SUBSET Named
    BY <2>1, <2>2 DEF Views
  <2>4. Shows(u)
    BY <1>4, <2>3
  <2>5. Asked(Read("documents", r.msg.ws))
    BY <1>2, PlainAsked, IdsNamed DEF Lists, PaneKinds, IInv, Mail, Writes
  <2> QED
    BY <1>1, <2>1, <2>4, <2>5, AnswerKeeps
<1> QED
  BY <1>3, <1>5, <1>6 DEF DocumentReturns

-----------------------------------------------------------------------------
(* The panes. *)

\* PaneRead: a pane takes what was read for its session, or workspace, or is excused.
LEMMA PaneReadKeeps == ASSUME IInv, NEW r \in reads, PaneRead(r) PROVE IInv'
<1>1. /\ reads' = reads \ {r}
      /\ UNCHANGED <<server, isSuperAdmin, stores, section, excused>>
      /\ r.what \in PaneKinds
  BY DEF PaneRead, PaneKinds
<1>2. Asked(r) /\ OnPane
  BY <1>1 DEF IInv, Asked
<1>3. PICK v : v = view'
  OBVIOUS
<1>4. /\ v \in Views
      /\ v.form = view.form \/ (r.of # None /\ v.form = r.of)
  <2>1. CASE view' = [view EXCEPT !.loading = FALSE]
    BY <1>3, <2>1 DEF IInv, Shows, Views
  <2>2. CASE r.of # None /\ view' = [view EXCEPT !.loading = FALSE, !.form = r.of]
    <3>1. r.of \in Texts
      BY <1>2, <2>2, TextsNamed DEF Asked, Reads
    <3> QED
      BY <1>3, <2>2, <3>1 DEF IInv, Shows, Views
  <2> QED
    BY <2>1, <2>2 DEF PaneRead
<1>5. Fits(v.form)
  BY <1>1, <1>2, <1>4 DEF Asked, IInv, Shows
<1>6. Dialogs(v)' /\ Fits(v.form)'
  BY <1>1, <1>2, <1>5 DEF OnPane, Dialogs, Fits, PaneOwner, PaneKind, Sid, stores
<1>7. excused \subseteq excused' /\ excused' \subseteq Records
  BY <1>1 DEF IInv, ServerTypes
<1>8. \A q \in reads' : q \in reads \/ Asked(q)'
  BY <1>1
<1>9. UNCHANGED <<server, isSuperAdmin, stores, section>>
  BY <1>1
<1> QED
  BY <1>3, <1>4, <1>6, <1>7, <1>8, <1>9, StepOfView

\* SwitchTab: the pane mounts again and asks for what it shows.
LEMMA SwitchTabKeeps == ASSUME IInv, SwitchTab PROVE IInv'
<1> PICK tab :
      tab = IF section = "settings" /\ view.under = None THEN "providers" ELSE None
  OBVIOUS
<1>1. /\ section \in {"integrations", "settings"} /\ Unmount /\ excused' = StillExcused
      /\ UNCHANGED <<stored, isSuperAdmin, stores, section>>
      /\ view' = [NoView EXCEPT !.under = tab]
      /\ reads' = Kept \union PageReads(section, tab, current, Sid)
  BY DEF SwitchTab
<1>2. Stores'
  BY <1>1 DEF IInv, Stores, stores
<1>3. \A r \in reads' : r \in Kept \/ Asked(r)'
  <2>1. \A r \in PageReads(section', tab, current', Sid') : Asked(r)'
    BY <1>2, PageReadsAsked
  <2>2. section' = section /\ current' = current /\ Sid' = Sid
    BY <1>1 DEF stores, Sid
  <2> QED
    BY <1>1, <2>1, <2>2
<1>4. PICK v : v = view'
  OBVIOUS
<1>5. v \in Views /\ v.dialog = "none" /\ v.form = "new"
  BY <1>1, <1>4, NoViewTypes DEF Views
<1>6. Dialogs(v)' /\ Fits(v.form)'
  BY <1>1, <1>5 DEF Dialogs, Fits
<1>7. Shows(view)'
  BY <1>4, <1>5, <1>6, ShowsNext
<1>8. stored' = stored
  BY <1>1
<1> QED
  BY <1>1, <1>2, <1>3, <1>7, <1>8, Departs

\* What a pane holds may be written for its session, or its workspace.
LEMMA PaneFits ==
  ASSUME IInv, OnPane, PaneOwner # None, NEW for, for = view.form
  PROVE  Fit("update", PaneKind, PaneOwner, for)
<1>1. <<PaneKind, PaneOwner>> \in Settings /\ PaneKind \in PaneKinds /\ PaneOwner \in Named
  <2>1. CASE section = "integrations"
    BY <2>1, IdsNamed DEF PaneKind, PaneOwner, PaneKinds, Settings, Sid, IInv, Stores
  <2>2. CASE section = "schedules"
    BY <2>2, IdsNamed DEF PaneKind, PaneOwner, PaneKinds, Settings, Sid, IInv, Stores
  <2>3. CASE section = "settings"
    BY <2>3, IdsNamed DEF PaneKind, PaneOwner, PaneKinds, Settings, IInv, Stores
  <2> QED
    BY <2>1, <2>2, <2>3 DEF OnPane
<1> PICK k, o : k = PaneKind /\ o = PaneOwner
  OBVIOUS
<1>2. for \in Texts /\ Fits(for)
  BY DEF IInv, Shows, Views
<1>3. <<k, o>> \in excused \/ for \in {"new", o}
  BY <1>2 DEF Fits
<1>4. <<k, o>> \in Records /\ Owner(<<k, o>>) = o
  BY <1>1, OwnerOfSettings
<1>5. MayWrite(<<k, o>>, for)
  BY <1>3, <1>4 DEF MayWrite
<1>6. k \in Kinds /\ k \in {"chatwoot", "schedules", "key", "providers"} /\ k # "key"
  BY <1>1 DEF PaneKinds, Kinds
<1> QED
  BY <1>1, <1>2, <1>5, <1>6 DEF Fit

\* A pane that loads holds the same.
LEMMA LoadingShows ==
  ASSUME IInv, NEW b \in BOOLEAN PROVE Shows([view EXCEPT !.loading = b])
<1> PICK v : v = [view EXCEPT !.loading = b]
  OBVIOUS
<1>1. /\ v \in Views /\ v.dialog = view.dialog /\ v.of = view.of /\ v.form = view.form
      /\ v.left = view.left /\ v.name = view.name
  BY DEF IInv, Shows, Views
<1> QED
  BY <1>1, SameDialogs DEF IInv, Shows

\* SaveChatwoot: the pane holds what is of its session, unless that is excused.
LEMMA SaveChatwootKeeps == ASSUME IInv, SaveChatwoot PROVE IInv'
<1> PICK id, for, v : id = Sid /\ for = view.form /\ v = [view EXCEPT !.loading = TRUE]
  OBVIOUS
<1>1. /\ section = "integrations" /\ Sid # None
      /\ Post("update", "chatwoot", id, for) /\ view' = v
  BY DEF SaveChatwoot, ChatwootShown
<1>2. Fit("update", "chatwoot", id, for)
  <2>1. OnPane /\ PaneKind = "chatwoot" /\ PaneOwner = Sid
    BY <1>1 DEF OnPane, PaneKind, PaneOwner
  <2> QED
    BY <1>1, <2>1, PaneFits
<1> QED
  BY <1>1, <1>2, LoadingShows, PostKeeps

\* DisconnectChatwoot: no text is written.
LEMMA DisconnectChatwootKeeps == ASSUME IInv, DisconnectChatwoot PROVE IInv'
<1> PICK v : v = [view EXCEPT !.loading = TRUE]
  OBVIOUS
<1>1. /\ section = "integrations"
      /\ Post("touch", "chatwoot", None, "new") /\ view' = v
  BY DEF DisconnectChatwoot, ChatwootShown
<1>2. Fit("touch", "chatwoot", None, "new")
  BY <1>1, TextsNamed DEF Fit, Kinds, OnPane, PaneKind, Fits
<1> QED
  BY <1>1, <1>2, LoadingShows, PostKeeps

\* SaveProvider: the pane holds what is of its workspace, unless that is excused.
LEMMA SaveProviderKeeps == ASSUME IInv, SaveProvider PROVE IInv'
<1> PICK id, for : id = current /\ for = view.form
  OBVIOUS
<1>1. /\ section = "settings" /\ current # None
      /\ Post("update", "providers", id, for) /\ view' = view
  BY DEF SaveProvider, ProvidersShown
<1>2. Fit("update", "providers", id, for)
  <2>1. OnPane /\ PaneKind = "providers" /\ PaneOwner = current
    BY <1>1 DEF OnPane, PaneKind, PaneOwner
  <2> QED
    BY <1>1, <2>1, PaneFits
<1> QED
  BY <1>1, <1>2, PostKeeps DEF IInv

\* PersistSchedules: the pane holds what is of its session, unless that is excused.
LEMMA PersistSchedulesKeeps == ASSUME IInv, PersistSchedules PROVE IInv'
<1> PICK id, for : id = Sid /\ for = view.form
  OBVIOUS
<1>1. /\ section = "schedules" /\ Sid # None
      /\ Post("update", "schedules", id, for) /\ view' = view
  BY DEF PersistSchedules, SchedulesShown
<1>2. Fit("update", "schedules", id, for)
  <2>1. OnPane /\ PaneKind = "schedules" /\ PaneOwner = Sid
    BY <1>1 DEF OnPane, PaneKind, PaneOwner
  <2> QED
    BY <1>1, <2>1, PaneFits
<1> QED
  BY <1>1, <1>2, PostKeeps DEF IInv

\* What a pane takes from an answer is right, as it is of the pane.
LEMMA FormShows ==
  ASSUME IInv, OnPane, NEW t \in Texts, Fits(t), NEW b \in BOOLEAN
  PROVE  Shows([view EXCEPT !.loading = b, !.form = t])
<1> PICK v : v = [view EXCEPT !.loading = b, !.form = t]
  OBVIOUS
<1>1. v \in Views /\ v.form = t
  BY DEF IInv, Shows, Views
<1>2. Dialogs(v)
  BY DEF Dialogs, OnPane
<1> QED
  BY <1>1, <1>2 DEF Shows

\* PaneReturns: an answer is taken by the pane that asked, which fits it or is excused.
LEMMA PaneReturnsKeeps ==
  ASSUME IInv, NEW r, NEW ok \in BOOLEAN, PaneReturns(r, ok) PROVE IInv'
<1>1. /\ Answered(r, ok) /\ UNCHANGED <<stored, isSuperAdmin, stores, section, excused>>
      /\ r.msg.kind \in PaneKinds
  BY DEF PaneReturns, PaneKinds
<1>2. r.msg \in Msgs
  BY <1>1, AnsweredFacts
<1> PICK m : m = r.msg
  OBVIOUS
<1>3. Mail(m) /\ m \in Writes
  BY <1>2 DEF IInv, Mail
<1>4. m.mine => OnPane /\ m.kind = PaneKind /\ Fits(m.for) /\ (m.ws # None => Fits(m.ws))
  BY <1>1, <1>3 DEF Mail, Placed
<1>5. CASE UNCHANGED <<reads, view>>
  BY <1>1, <1>5, AnswerKeeps DEF IInv
<1>6. CASE m.mine /\ m.kind = "chatwoot"
  <2> PICK v : v = view'
    OBVIOUS
  <2>1. /\ reads' = reads
        /\ v = [view EXCEPT !.loading = FALSE,
                            !.form = IF ok /\ m.what = "touch" THEN "new" ELSE @]
    BY <1>6 DEF PaneReturns
  <2>2. Fits("new") /\ "new" \in Texts /\ Fits(view.form) /\ view.form \in Texts
    BY TextsNamed DEF Fits, IInv, Shows, Views
  <2>3. Shows(v)
    BY <1>4, <1>6, <2>1, <2>2, FormShows
  <2> QED
    BY <1>1, <2>1, <2>3, AnswerKeeps
<1>7. CASE m.mine /\ m.kind = "schedules"
  <2> PICK v : v = view'
    OBVIOUS
  <2>1. reads' = reads /\ v = [view EXCEPT !.form = IF ok THEN m.for ELSE @]
    BY <1>7 DEF PaneReturns
  <2> PICK t, b : t = (IF ok THEN m.for ELSE view.form) /\ b = view.loading
    OBVIOUS
  <2>2. v = [view EXCEPT !.loading = b, !.form = t]
    BY <2>1 DEF IInv, Shows, Views
  <2>3. Fits(t) /\ t \in Texts /\ b \in BOOLEAN
    BY <1>3, <1>4, <1>7 DEF IInv, Shows, Views, Writes
  <2>4. Shows(v)
    <3>1. OnPane
      BY <1>4, <1>7
    <3>2. Shows([view EXCEPT !.loading = b, !.form = t])
      BY <2>3, <3>1, FormShows
    <3> QED
      BY <2>2, <3>2
  <2> QED
    BY <1>1, <2>1, <2>4, AnswerKeeps
<1>8. CASE ok /\ m.mine /\ m.kind = "providers"
  <2> PICK v, w : v = view' /\ w = m.ws
    OBVIOUS
  <2>1. reads' = reads \union {Read("providers", w)} /\ v = [view EXCEPT !.loading = TRUE]
    BY <1>8 DEF PaneReturns
  <2>2. Asked(Read("providers", w))
    BY <1>3, <1>4, <1>8, IdsNamed DEF Read, Asked, Reads, Lists, PaneKinds, Writes
  <2>3. Shows(v)
    BY <2>1, LoadingShows
  <2> QED
    BY <1>1, <2>1, <2>2, <2>3, AnswerKeeps
<1> QED
  BY <1>1, <1>5, <1>6, <1>7, <1>8 DEF PaneReturns, PaneKinds

-----------------------------------------------------------------------------
(* The profile. *)

\* SetActiveTab: the tab holds no text.
LEMMA SetActiveTabKeeps == ASSUME IInv, SetActiveTab PROVE IInv'
<1> PICK v : v = view'
  OBVIOUS
<1>1. /\ UNCHANGED <<server, isSuperAdmin, stores, section, excused>>
      /\ \/ v = [view EXCEPT !.under = "admin", !.loading = TRUE]
         \/ v = [view EXCEPT !.under = None]
      /\ reads' \subseteq reads \union {Read("admin", None)}
  BY DEF SetActiveTab
<1>2. Asked(Read("admin", None))
  BY PlainAsked DEF Lists, PaneKinds
<1>3. /\ v \in Views /\ v.dialog = view.dialog /\ v.of = view.of /\ v.form = view.form
      /\ v.left = view.left /\ v.name = view.name
  BY <1>1 DEF IInv, Shows, Views
<1> QED
  BY <1>1, <1>2, <1>3, ListKeeps

\* AdminRead: the tab holds no text.
LEMMA AdminReadKeeps == ASSUME IInv, NEW r \in reads, AdminRead(r) PROVE IInv'
<1> PICK v : v = view'
  OBVIOUS
<1>1. /\ reads' = reads \ {r}
      /\ UNCHANGED <<server, isSuperAdmin, stores, section, excused>>
  BY DEF AdminRead
<1>2. PICK l \in SUBSET Named : v = [view EXCEPT !.list = l, !.loading = FALSE]
  BY ListedOfKind, OfKindNamed DEF AdminRead
<1>3. /\ v \in Views /\ v.dialog = view.dialog /\ v.of = view.of /\ v.form = view.form
      /\ v.left = view.left /\ v.name = view.name
  BY <1>2 DEF IInv, Shows, Views
<1> QED
  BY <1>1, <1>3, ListKeeps

\* HandleSaveProfile: no text is written.
LEMMA HandleSaveProfileKeeps == ASSUME IInv, HandleSaveProfile PROVE IInv'
<1>1. Post("touch", "profile", None, "new") /\ view' = view
  BY DEF HandleSaveProfile
<1> QED
  BY <1>1, FitTouch, PostKeeps DEF IInv, Kinds, PaneKinds

\* HandleChangePassword: no text is written.
LEMMA HandleChangePasswordKeeps == ASSUME IInv, HandleChangePassword PROVE IInv'
<1>1. Post("touch", "password", None, "new") /\ view' = view
  BY DEF HandleChangePassword
<1> QED
  BY <1>1, FitTouch, PostKeeps DEF IInv, Kinds, PaneKinds

\* ChangeRoleOrPlan: no text is written.
LEMMA ChangeRoleOrPlanKeeps == ASSUME IInv, ChangeRoleOrPlan PROVE IInv'
<1>1. PICK kind \in {"role", "plan"} : Post("touch", kind, None, "new")
  BY DEF ChangeRoleOrPlan
<1>2. view' = view
  BY DEF ChangeRoleOrPlan
<1> QED
  BY <1>1, <1>2, FitTouch, PostKeeps DEF IInv, Kinds, PaneKinds

\* HandleSelectWorkspace: a pane that stays while its workspace changes is excused.
LEMMA HandleSelectWorkspaceKeeps ==
  ASSUME IInv, NEW w \in Workspaces, HandleSelectWorkspace(w) PROVE IInv'
<1>1. /\ current' = w /\ Commit(view, reads)
      /\ UNCHANGED <<server, isSuperAdmin, workspaces, sessions, activeId, section>>
  BY DEF HandleSelectWorkspace
<1>2. Stores' /\ Msgs' = Msgs /\ replies' = replies /\ stored' = stored /\ Shows(view)
  BY <1>1 DEF IInv, Stores, server, Msgs
<1> QED
  BY <1>1, <1>2, CommitKeeps

\* AccountReturns: the answer changes nothing but the mail.
LEMMA AccountReturnsKeeps ==
  ASSUME IInv, NEW r, NEW ok \in BOOLEAN, AccountReturns(r, ok) PROVE IInv'
<1>1. Answered(r, ok) /\ UNCHANGED <<stored, reads, isSuperAdmin, stores, shell>>
  BY DEF AccountReturns
<1> QED
  BY <1>1, AnswerKeeps DEF shell, IInv

-----------------------------------------------------------------------------
(* The invariant. *)

\* It holds at first: nothing is under way but the first lists.
LEMMA InitRight == Init => IInv
<1> SUFFICES ASSUME Init PROVE IInv
  OBVIOUS
<1>1. ServerTypes /\ RecordsKeepTheirs
  BY OwnerNamed, TextsNamed DEF Init, ServerTypes, RecordsKeepTheirs
<1>2. Stores /\ Msgs = {} /\ replies = {}
  BY DEF Init, Stores, Sections, Msgs
<1>3. ASSUME NEW r \in reads PROVE Asked(r)
  <2>1. PICK what \in {"workspaces", "sessions"} :
          r = [what |-> what, of |-> IF what = "sessions" THEN current ELSE None,
               then |-> "none", id |-> None, mine |-> TRUE]
    BY DEF Init
  <2>2. current \in Named \union {None}
    BY <1>2, IdsNamed DEF Stores
  <2> QED
    BY <2>1, <2>2 DEF Asked, Reads, Lists, PaneKinds
<1>4. Shows(view)
  BY NoViewTypes DEF Init, Shows, Dialogs, Fits
<1> QED
  BY <1>1, <1>2, <1>3, <1>4 DEF IInv

\* A step that changes nothing.
LEMMA StutterKeeps == ASSUME IInv, UNCHANGED vars PROVE IInv'
<1>1. /\ UNCHANGED <<server, isSuperAdmin, stores, section, excused>>
      /\ reads' = reads /\ view' = view
  BY DEF vars, shell
<1> QED
  BY <1>1, ListKeeps DEF IInv, Shows

\* The steps of each part of the console.
LEMMA ShellKeeps == ASSUME IInv, Shell PROVE IInv'
<1>1. CASE SessionList \/ HandleCreateWorkspace
  BY <1>1, SessionListKeeps, HandleCreateWorkspaceKeeps
<1>2. ASSUME NEW sec \in Sections, Navigate(sec) PROVE IInv'
  BY <1>2, NavigateKeeps
<1>3. ASSUME NEW w \in Workspaces, SelectWorkspace(w) PROVE IInv'
  BY <1>3, SelectWorkspaceKeeps
<1>4. ASSUME NEW r \in reads, StoreAnswer(r) PROVE IInv'
  BY <1>4, StoreAnswerKeeps
<1>5. ASSUME NEW r \in Pending, NEW ok \in BOOLEAN, WorkspaceCreated(r, ok) PROVE IInv'
  BY <1>5, WorkspaceCreatedKeeps
<1>6. ASSUME NEW m \in sent, Serve(m) PROVE IInv'
  BY <1>6, ServeKeeps
<1> QED
  BY <1>1, <1>2, <1>3, <1>4, <1>5, <1>6 DEF Shell

\* The steps of the contacts page keep IInv.
LEMMA ContactsKeep == ASSUME IInv, ContactsNext PROVE IInv'
<1>1. CASE HandleOpenCreate \/ CloseSheet \/ CloseDialog \/ HandleSaveContact
             \/ ConfirmDeleteContact
  BY <1>1, OpenCreateKeeps, CloseSheetKeeps, CloseDialogKeeps, HandleSaveContactKeeps,
     ConfirmDeleteContactKeeps
<1>2. ASSUME NEW c \in Contacts,
             OpenSheet(c) \/ HandleOpenEdit(c) \/ HandleOpenDelete(c) \/ HandleDial(c)
      PROVE  IInv'
  BY <1>2, OpenSheetKeeps, HandleOpenEditKeeps, HandleOpenDeleteKeeps, HandleDialKeeps
<1>3. ASSUME NEW r \in reads, ContactsRead(r) PROVE IInv'
  BY <1>3, ContactsReadKeeps
<1>4. ASSUME NEW r \in Pending, NEW ok \in BOOLEAN, ContactReturns(r, ok) PROVE IInv'
  BY <1>4, ContactReturnsKeeps
<1> QED
  BY <1>1, <1>2, <1>3, <1>4 DEF ContactsNext

\* The steps of the connections page keep IInv.
LEMMA ConnectionsKeep == ASSUME IInv, ConnectionsNext PROVE IInv'
<1>1. CASE \/ HandleOpenCreateModal \/ TypeApiKey \/ CloseConnectionDialog
           \/ OnNewSessionSubmit \/ OnRenameSubmit \/ HandleRotateKeySubmit \/ OnRemoveSession
  BY <1>1, HandleOpenCreateModalKeeps, TypeApiKeyKeeps, CloseConnectionDialogKeeps,
     OnNewSessionSubmitKeeps, OnRenameSubmitKeeps, HandleRotateKeySubmitKeeps,
     OnRemoveSessionKeeps
<1>2. CASE \/ OpenSettings \/ CloseSettings \/ HandleSaveName \/ HandleSaveDefaultSession
           \/ HandleInviteMember \/ AskRemoveMember \/ HandleRemoveMember
           \/ AskDeleteWorkspace \/ HandleDeleteWorkspace
  BY <1>2, OpenSettingsKeeps, CloseSettingsKeeps, HandleSaveNameKeeps,
     HandleSaveDefaultSessionKeeps, HandleInviteMemberKeeps, AskRemoveMemberKeeps,
     HandleRemoveMemberKeeps, AskDeleteWorkspaceKeeps, HandleDeleteWorkspaceKeeps
<1>3. ASSUME NEW s \in Sessions,
             \/ SetActiveSession(s) \/ OpenWebphone(s) \/ HandleOpenRenameModal(s)
             \/ OpenRotate(s) \/ OpenRemove(s) \/ TouchSession(s)
      PROVE  IInv'
  BY <1>3, SetActiveSessionKeeps, OpenWebphoneKeeps, HandleOpenRenameModalKeeps,
     OpenRotateKeeps, OpenRemoveKeeps, TouchSessionKeeps
<1>4. ASSUME NEW r \in reads, Refreshed(r) PROVE IInv'
  BY <1>4, RefreshedKeeps
<1>5. ASSUME NEW r \in Pending, NEW ok \in BOOLEAN,
             SessionReturns(r, ok) \/ WorkspaceReturns(r, ok)
      PROVE  IInv'
  BY <1>5, SessionReturnsKeeps, WorkspaceReturnsKeeps
<1> QED
  BY <1>1, <1>2, <1>3, <1>4, <1>5 DEF ConnectionsNext

\* The steps of the knowledge base keep IInv.
LEMMA KnowledgeKeeps == ASSUME IInv, KnowledgeNext PROVE IInv'
<1>1. CASE \/ Filter \/ HandleOpenAdd \/ TypeOther \/ HandleFileUpload \/ HandleSaveDocument
           \/ CloseDocument \/ HandleDeleteConfirm \/ OpenTest \/ HandleTestSearch
  BY <1>1, FilterKeeps, HandleOpenAddKeeps, TypeOtherKeeps, HandleFileUploadKeeps,
     HandleSaveDocumentKeeps, CloseDocumentKeeps, DeleteConfirmKeeps, OpenTestKeeps,
     HandleTestSearchKeeps
<1>2. ASSUME NEW d \in Documents, HandleOpenAddModal(d) \/ HandleToggle(d) \/ OpenDelete(d)
      PROVE  IInv'
  BY <1>2, HandleOpenAddModalKeeps, HandleToggleKeeps, OpenDeleteKeeps
<1>3. ASSUME NEW r \in reads, DocumentsRead(r) \/ FileLoaded(r) PROVE IInv'
  BY <1>3, DocumentsReadKeeps, FileLoadedKeeps
<1>4. ASSUME NEW r \in Pending, NEW ok \in BOOLEAN, DocumentReturns(r, ok) PROVE IInv'
  BY <1>4, DocumentReturnsKeeps
<1> QED
  BY <1>1, <1>2, <1>3, <1>4 DEF KnowledgeNext

\* The steps of the panes keep IInv.
LEMMA PanesKeep == ASSUME IInv, PanesNext PROVE IInv'
<1>1. CASE SwitchTab \/ SaveChatwoot \/ DisconnectChatwoot \/ SaveProvider \/ PersistSchedules
  BY <1>1, SwitchTabKeeps, SaveChatwootKeeps, DisconnectChatwootKeeps, SaveProviderKeeps,
     PersistSchedulesKeeps
<1>2. ASSUME NEW r \in reads, PaneRead(r) PROVE IInv'
  BY <1>2, PaneReadKeeps
<1>3. ASSUME NEW r \in Pending, NEW ok \in BOOLEAN, PaneReturns(r, ok) PROVE IInv'
  BY <1>3, PaneReturnsKeeps
<1> QED
  BY <1>1, <1>2, <1>3 DEF PanesNext

\* The steps of the profile page keep IInv.
LEMMA ProfileKeeps == ASSUME IInv, ProfileNext PROVE IInv'
<1>1. CASE SetActiveTab \/ ChangeRoleOrPlan \/ HandleSaveProfile \/ HandleChangePassword
  BY <1>1, SetActiveTabKeeps, ChangeRoleOrPlanKeeps, HandleSaveProfileKeeps,
     HandleChangePasswordKeeps
<1>2. ASSUME NEW w \in Workspaces,
             HandleSelectWorkspace(w) \/ HandleSuperadminEnterWorkspace(w)
      PROVE  IInv'
  BY <1>2, HandleSelectWorkspaceKeeps, EnterWorkspaceKeeps DEF HandleSuperadminEnterWorkspace
<1>3. ASSUME NEW r \in reads, AdminRead(r) PROVE IInv'
  BY <1>3, AdminReadKeeps
<1>4. ASSUME NEW r \in Pending, NEW ok \in BOOLEAN, AccountReturns(r, ok) PROVE IInv'
  BY <1>4, AccountReturnsKeeps
<1> QED
  BY <1>1, <1>2, <1>3, <1>4 DEF ProfileNext

\* Every step keeps it.
THEOREM ConsoleInductive == IInv /\ [Next]_vars => IInv'
<1> SUFFICES ASSUME IInv, [Next]_vars PROVE IInv'
  OBVIOUS
<1>1. CASE Shell
  BY <1>1, ShellKeeps
<1>2. CASE ContactsNext
  BY <1>2, ContactsKeep
<1>3. CASE ConnectionsNext
  BY <1>3, ConnectionsKeep
<1>4. CASE KnowledgeNext
  BY <1>4, KnowledgeKeeps
<1>5. CASE PanesNext
  BY <1>5, PanesKeep
<1>6. CASE ProfileNext
  BY <1>6, ProfileKeeps
<1>7. CASE UNCHANGED vars
  BY <1>7, StutterKeeps
<1> QED
  BY <1>1, <1>2, <1>3, <1>4, <1>5, <1>6, <1>7 DEF Next

\* The invariant gives the types of the run.
LEMMA IInvTypes == IInv => TypeOK
<1> SUFFICES ASSUME IInv PROVE TypeOK
  OBVIOUS
<1>1. \A m \in sent : m \in Writes
  BY DEF IInv, Msgs, Mail
<1>2. \A r \in replies : r.msg \in Writes /\ r.id \in Named \union {None}
  BY DEF IInv, Msgs, Mail, Answer
<1>3. \A r \in reads : r \in Reads
  BY DEF IInv, Asked
<1>4. /\ view.list \subseteq Named /\ view.loading \in BOOLEAN
      /\ view.under \in Contacts \union {None, "settings", "providers", "admin"}
      /\ view.of \in Named \union {None}
      /\ {view.form, view.left, view.name} \subseteq Texts
  BY DEF IInv, Shows, Views
<1> QED
  BY <1>1, <1>2, <1>3, <1>4 DEF TypeOK, IInv, ServerTypes, Stores

\* The console's variables have the types that its stores, its requests and its
\* pages give them (src/client/src/stores/workspace.ts and sessions.ts, App.tsx
\* and the pages), whatever the bounds.
THEOREM ConsoleTypes == Spec => []TypeOK
<1>1. Init => IInv
  BY InitRight
<1>2. IInv /\ [Next]_vars => IInv'
  BY ConsoleInductive
<1>3. IInv => TypeOK
  BY IInvTypes
<1> QED
  BY <1>1, <1>2, <1>3, PTL DEF Spec

\* No record is written, or created, with what was typed for another, whatever
\* is opened and closed while answers are late and the workspace or the session
\* changes, but for the exceptions that the code makes and that excused lists.
THEOREM ConsoleRecordsKeepTheirs == Spec => []RecordsKeepTheirs
<1>1. Init => IInv
  BY InitRight
<1>2. IInv /\ [Next]_vars => IInv'
  BY ConsoleInductive
<1>3. IInv => RecordsKeepTheirs
  BY DEF IInv
<1> QED
  BY <1>1, <1>2, <1>3, PTL DEF Spec

=============================================================================
