-------------------------------- MODULE Agents --------------------------------
(***************************************************************************)
(* The page of the AI agents: the voice specialists, one of which is       *)
(* selected and edited in a form of the page, and the chat agents, edited  *)
(* in a component of their own (ChatAgentEditor), which takes its text     *)
(* once, when React mounts it, and its agent from the page at every        *)
(* render.  Loads, saves, creations and deletions are requests whose       *)
(* answers come in any order, or fail, while the operator goes on          *)
(* clicking, leaves the page and comes back.                               *)
(*                                                                         *)
(* The text of an agent is abstracted to the agent it was written for.     *)
(* The effects of a React commit are part of the step that causes it.      *)
(***************************************************************************)
EXTENDS Naturals, FiniteSets

CONSTANTS Specialists, ChatAgents, \* ids of the agents there may be
          None, Slots,             \* bound: loads under way at once
          MaxUnderWay,             \* bound: no request is begun beyond it, load or other
          MaxGone                  \* bound: no deletion is asked beyond it

AgentIds == Specialists \union ChatAgents

ASSUME AgentsAssumption ==
  /\ Specialists \intersect ChatAgents = {}
  /\ {None, "master", "new", "free", "gone"} \intersect AgentIds = {}
  /\ None \notin Slots /\ None # "new" /\ {MaxUnderWay, MaxGone} \subseteq Nat

VARIABLES
  text,     \* (server) the text of each agent; "free" and "gone" have none
  sent,     \* requests on their way to the server
  replies,  \* and answers on their way back
  open,     \* the page is mounted
  agents,   \* agents and chatAgents of the page: the text listed, or None
  loads,    \* loadData's requests, "asked" then "done", and their lists
  loading,
  selected, form,             \* selectedId, specForm
  deleting,                   \* deletingAgent, the confirmation is shown
  op,                         \* the handler that holds saveBusy: its await, what it selects
  channel, editing, chosen,   \* channelType, isEditingChatAgent, selectedChatAgent
  draft                       \* the text in ChatAgentEditor, None when unmounted

server == <<text, sent, replies>>
voice == <<selected, form, deleting, op>>
chat == <<channel, editing, chosen, draft>>
vars == <<server, open, agents, loads, loading, voice, chat>>

Texts == AgentIds \union {"new"}
Lists == [AgentIds -> Texts \union {None}]
NoOp == [step |-> "idle", id |-> None, load |-> None]
Empty == [a \in AgentIds |-> None]
NoLoad == [step |-> "free", lists |-> Empty]

Messages ==
  [side : {"voice", "editor", "list"}, what : {"create", "update", "delete"},
   id : AgentIds \union {None}, text : Texts,
   mine : BOOLEAN,  \* the page that sent it is still mounted
   shown : BOOLEAN] \* the ChatAgentEditor that sent it is still mounted

TypeOK ==
  /\ text \in [AgentIds -> Texts \union {"free", "gone"}]
  /\ sent \subseteq Messages
  /\ replies \subseteq [msg : Messages, ok : BOOLEAN, id : AgentIds \union {None}]
  /\ agents \in Lists
  /\ loads \in [Slots -> [step : {"free", "asked", "done"}, lists : Lists]]
  /\ {open, loading, editing} \subseteq BOOLEAN
  /\ selected \in Specialists \union {"master"} /\ form \in Texts
  /\ deleting \in Specialists \union {None}
  /\ op \in [step : {"idle", "reply", "refetch", "load"},
             id : Specialists \union {None}, load : Slots \union {None}]
  /\ channel \in {"voice", "chat"}
  /\ chosen \in [id : ChatAgents, text : Texts] \union {None}
  /\ draft \in Texts \union {None}
  /\ draft # None <=> open /\ ~loading /\ channel = "chat" /\ editing

Init ==
  /\ text \in [AgentIds -> {"free"}] \union {[a \in AgentIds |-> a]}
  /\ sent = {} /\ replies = {}
  /\ open = FALSE /\ agents = Empty /\ loads = [s \in Slots |-> NoLoad]
  /\ loading = TRUE /\ selected = "master" /\ form = "new" /\ deleting = None
  /\ op = NoOp /\ channel = "voice" /\ editing = FALSE /\ chosen = None /\ draft = None

-----------------------------------------------------------------------------
(* Server. *)

Live(a) == text[a] \notin {"free", "gone"}

\* A request is carried out or not; the page may learn of a failure even
\* when it has been.
Written(m, id) ==
  CASE m.what = "create" -> [text EXCEPT ![id] = IF m.text = "new" THEN id ELSE m.text]
    [] m.what = "update" -> IF Live(id) THEN [text EXCEPT ![id] = m.text] ELSE text
    [] OTHER -> [text EXCEPT ![id] = "gone"]

Ids(m) ==
  IF m.what # "create" THEN {m.id}
  ELSE {a \in IF m.side = "voice" THEN Specialists ELSE ChatAgents : text[a] = "free"}

Serve(m) ==
  /\ m \in sent /\ sent' = sent \ {m}
  /\ \E id \in Ids(m) \union {m.id}, done, ok \in BOOLEAN :
       /\ ok => done
       /\ done => id # None
       /\ text' = IF done THEN Written(m, id) ELSE text
       /\ replies' = IF m.mine THEN replies \union {[msg |-> m, ok |-> ok, id |-> IF ok THEN id ELSE None]}
                     ELSE replies
  /\ UNCHANGED <<open, agents, loads, loading, voice, chat>>

\* listAgents and listChatAgents; a list that fails is empty.
ServeLoad(s) ==
  /\ loads[s].step = "asked"
  /\ \E failed \in {{}, Specialists, ChatAgents} :
       loads' = [loads EXCEPT ![s] = [step |-> "done", lists |->
         [a \in AgentIds |-> IF Live(a) /\ a \notin failed THEN text[a] ELSE None]]]
  /\ UNCHANGED <<server, open, agents, loading, voice, chat>>

-----------------------------------------------------------------------------
(* The page. *)

FreeSlots == {s \in Slots : loads[s] = NoLoad}

\* Loads, other requests, and the list that createAgent reads once more.
UnderWay == Cardinality(Slots \ FreeSlots) + Cardinality(sent) + Cardinality(replies)
            + (IF op.step = "refetch" THEN 1 ELSE 0)

\* Mutant: the editor is hidden, not unmounted.
EditorHidden ==
  draft' = IF draft # None THEN draft
           ELSE IF ~(open' /\ ~loading' /\ channel' = "chat" /\ editing') THEN None
           ELSE IF chosen' = None THEN "new" ELSE chosen'.text

\* ChatAgentEditor is rendered under these conditions.  Mounted, it takes the
\* text of its agent; unmounted, it loses it, and no answer finds it again.
Editor ==
  LET shown == open' /\ ~loading' /\ channel' = "chat" /\ editing' IN
  draft' = IF ~shown THEN None
           ELSE IF draft # None THEN draft
           ELSE IF chosen' = None THEN "new" ELSE chosen'.text

Orphaned(ms) == IF draft' = None THEN {[m EXCEPT !.shown = FALSE] : m \in ms} ELSE ms
OrphanedReplies(rs) ==
  IF draft' = None THEN {[r EXCEPT !.msg = [r.msg EXCEPT !.shown = FALSE]] : r \in rs} ELSE rs

\* Mutant: an effect on [selectedId] alone.
SpecFormEffectSelected ==
  form' = IF selected' # selected /\ selected' # "master" /\ agents'[selected'] # None
          THEN agents'[selected'] ELSE form

\* The effect on [selectedId, agents]: the form takes the selected agent.
SpecFormEffect ==
  form' = IF selected' # "master" /\ agents'[selected'] # None
          THEN agents'[selected'] ELSE form

\* loadData, up to its await.
LoadData(s) == loads' = [loads EXCEPT ![s].step = "asked"] /\ loading' = TRUE

Enter ==
  /\ ~open /\ open' = TRUE /\ UnderWay < MaxUnderWay
  /\ \E s \in FreeSlots : LoadData(s)
  /\ UNCHANGED <<server, agents, voice, chat>>

\* The requests go on without the page.
Leave ==
  /\ open /\ open' = FALSE
  /\ agents' = Empty /\ loads' = [s \in Slots |-> NoLoad] /\ loading' = TRUE
  /\ selected' = "master" /\ form' = "new" /\ deleting' = None /\ op' = NoOp
  /\ channel' = "voice" /\ editing' = FALSE /\ chosen' = None /\ draft' = None
  /\ sent' = {[m EXCEPT !.mine = FALSE, !.shown = FALSE] : m \in sent}
  /\ replies' = {} /\ UNCHANGED text

\* The session or the workspace of the page has changed.
Reload ==
  /\ open /\ UnderWay < MaxUnderWay /\ \E s \in FreeSlots : LoadData(s)
  /\ UNCHANGED <<text, open, agents, voice, channel, editing, chosen>>
  /\ Editor /\ sent' = Orphaned(sent) /\ replies' = OrphanedReplies(replies)

\* loadData goes on, and so does the handler that awaits it.
LoadReturns(s) ==
  /\ loads[s].step = "done"
  /\ agents' = loads[s].lists /\ loads' = [loads EXCEPT ![s] = NoLoad] /\ loading' = FALSE
  /\ IF op.load = s
     THEN /\ op' = NoOp
          /\ selected' = IF op.id # None THEN op.id ELSE selected
     ELSE UNCHANGED <<op, selected>>
  /\ UNCHANGED <<server, open, deleting, channel, editing, chosen>>
  /\ SpecFormEffect /\ Editor

-----------------------------------------------------------------------------
(* Voice specialists. *)

Idle == open /\ deleting = None
FormShown == Idle /\ ~loading /\ channel = "voice" /\ selected # "master" /\ agents[selected] # None

Select(a) ==
  /\ Idle /\ ~loading /\ channel = "voice"
  /\ IF a = "master" THEN TRUE ELSE agents[a] # None
  /\ selected' = a /\ UNCHANGED agents /\ SpecFormEffect
  /\ UNCHANGED <<server, open, loads, loading, deleting, op, chat>>

Room(what) ==
  /\ UnderWay < MaxUnderWay
  /\ what = "delete" => Cardinality({a \in AgentIds : text[a] = "gone"}) < MaxGone

Post(what, id, txt) ==
  /\ op.step = "idle" /\ Room(what)
  /\ op' = [step |-> "reply", id |-> None, load |-> None]
  /\ sent' = sent \union {[side |-> "voice", what |-> what, id |-> id, text |-> txt,
                           mine |-> TRUE, shown |-> FALSE]}
  /\ UNCHANGED <<text, replies, open, agents, loads, loading, selected, form, deleting, chat>>

\* The form is "new" until it has taken an agent: without name and instructions,
\* which are asked for.
HandleSaveSpecialist == FormShown /\ form # "new" /\ Post("update", selected, form)
HandleCreateSpecialist == Idle /\ channel = "voice" /\ Post("create", None, "new")
ConfirmDeleteSpecialist == deleting # None /\ Post("delete", deleting, "new")

\* The button of the form, and the dialog, which Esc closes at any time.
AskDelete ==
  /\ \/ FormShown /\ op.step = "idle" /\ deleting' = selected
     \/ deleting # None /\ deleting' = None
  /\ UNCHANGED <<server, open, agents, loads, loading, selected, form, op, chat>>

\* The handler goes on after its request: it loads the page again and keeps
\* saveBusy until the lists are there.
VoiceReturns(r) ==
  /\ r \in replies /\ r.msg.side = "voice"
  /\ UNCHANGED <<text, open, agents, channel, editing, chosen>>
  /\ \/ /\ ~r.ok /\ op' = NoOp
        /\ UNCHANGED <<selected, form, deleting, loads, loading, draft>>
     \/ /\ r.ok /\ r.msg.what = "create" \* createAgent reads the list once more
        /\ op' = [step |-> "refetch", id |-> r.id, load |-> None]
        /\ UNCHANGED <<selected, form, deleting, loads, loading, draft>>
     \/ /\ r.ok /\ r.msg.what # "create"
        /\ \E s \in FreeSlots :
             /\ LoadData(s)
             /\ op' = [step |-> "load", id |-> None, load |-> s]
        /\ IF r.msg.what = "delete" THEN deleting' = None /\ selected' = "master"
           ELSE UNCHANGED <<deleting, selected>>
        /\ UNCHANGED form /\ Editor
  /\ sent' = Orphaned(sent) /\ replies' = OrphanedReplies(replies \ {r})

Refetched ==
  /\ op.step = "refetch"
  /\ UNCHANGED <<text, open, agents, selected, form, deleting, channel, editing, chosen>>
  /\ \/ op' = NoOp /\ UNCHANGED <<loads, loading, draft>> \* the list fails
     \/ /\ \E s \in FreeSlots : LoadData(s) /\ op' = [op EXCEPT !.step = "load", !.load = s]
        /\ Editor
  /\ sent' = Orphaned(sent) /\ replies' = OrphanedReplies(replies)

\* Saving the main agent's configuration, which is not a text of this module,
\* takes saveBusy and loads the page again.
HandleSaveMaster ==
  /\ Idle /\ ~loading /\ channel = "voice" /\ selected = "master" /\ op.step = "idle"
  /\ UnderWay < MaxUnderWay
  /\ \E s \in FreeSlots :
       LoadData(s) /\ op' = [step |-> "load", id |-> None, load |-> s]
  /\ UNCHANGED <<server, open, agents, selected, form, deleting, chat>>

-----------------------------------------------------------------------------
(* Chat agents. *)

ChatPending == {m \in sent \union {r.msg : r \in replies} : m.side # "voice"}
Saving == \E m \in ChatPending : m.shown /\ m.what # "delete"
Deleting == \E m \in ChatPending : m.shown /\ m.what = "delete"

Render ==
  /\ UNCHANGED <<text, open, agents, loads, loading, voice>>
  /\ Editor /\ sent' = Orphaned(sent) /\ replies' = OrphanedReplies(replies)

ShowChannel(c) ==
  /\ Idle /\ channel' = c
  /\ editing' = (editing /\ c = "chat") /\ UNCHANGED chosen
  /\ Render

NewChatAgent ==
  /\ Idle /\ channel = "chat" /\ ~editing
  /\ editing' = TRUE /\ chosen' = None /\ UNCHANGED channel
  /\ Render

OpenChatAgent(a) ==
  /\ Idle /\ ~loading /\ channel = "chat" /\ ~editing /\ agents[a] # None
  /\ editing' = TRUE /\ chosen' = [id |-> a, text |-> agents[a]] /\ UNCHANGED channel
  /\ Render

CancelEditor ==
  /\ draft # None /\ ~Saving
  /\ editing' = FALSE /\ chosen' = None /\ UNCHANGED channel
  /\ Render

ChatPost(side, what, id, txt) ==
  /\ Room(what)
  /\ sent' = sent \union {[side |-> side, what |-> what, id |-> id, text |-> txt,
                           mine |-> TRUE, shown |-> side = "editor"]}
  /\ UNCHANGED <<text, replies, open, agents, loads, loading, voice, chat>>

\* handleSave of the editor: it creates when the page has chosen no agent.  Its
\* buttons mind isSaving alone: a deletion may be under way, its dialog closed.
HandleSave ==
  /\ draft # None /\ ~Saving /\ deleting = None
  /\ IF chosen = None THEN ChatPost("editor", "create", None, draft)
     ELSE ChatPost("editor", "update", chosen.id, draft)

HandleDelete ==
  /\ draft # None /\ ~Saving /\ ~Deleting /\ chosen # None
  /\ ChatPost("editor", "delete", chosen.id, "new")

HandleDeleteConfirm(a) ==
  /\ Idle /\ ~loading /\ channel = "chat" /\ ~editing /\ agents[a] # None
  /\ ChatPost("list", "delete", a, "new")

\* Mutant: the save clears the agent and leaves the editor open.
OnSavedStays(r) ==
  /\ UNCHANGED editing
  /\ IF r.msg.side = "editor" THEN chosen' = None ELSE UNCHANGED chosen
  /\ agents' = [agents EXCEPT ![r.id] =
       IF r.msg.what = "delete" THEN None
       ELSE IF r.msg.text = "new" THEN r.id ELSE r.msg.text]

\* onSave, onDelete and onAgentDeleted of the page, for the editor that is
\* shown, for one that has gone, or for the list.
OnSaved(r) ==
  /\ IF r.msg.side = "editor" THEN editing' = FALSE /\ chosen' = None
     ELSE UNCHANGED <<editing, chosen>>
  /\ agents' = [agents EXCEPT ![r.id] =
       IF r.msg.what = "delete" THEN None
       ELSE IF r.msg.text = "new" THEN r.id ELSE r.msg.text]

ChatReturns(r) ==
  /\ r \in replies /\ r.msg.side # "voice"
  /\ IF r.ok THEN OnSaved(r) ELSE UNCHANGED <<editing, chosen, agents>>
  /\ UNCHANGED <<text, open, loads, loading, voice, channel>>
  /\ Editor /\ sent' = Orphaned(sent) /\ replies' = OrphanedReplies(replies \ {r})

-----------------------------------------------------------------------------

Operator ==
  \/ Enter \/ Leave \/ Reload
  \/ HandleSaveSpecialist \/ HandleCreateSpecialist \/ ConfirmDeleteSpecialist
  \/ AskDelete \/ HandleSaveMaster
  \/ NewChatAgent \/ CancelEditor \/ HandleSave \/ HandleDelete
  \/ \E a \in Specialists \union {"master"} : Select(a)
  \/ \E c \in {"voice", "chat"} : ShowChannel(c)
  \/ \E a \in ChatAgents : OpenChatAgent(a) \/ HandleDeleteConfirm(a)

Answers ==
  \/ Refetched
  \/ \E m \in sent : Serve(m)
  \/ \E s \in Slots : ServeLoad(s) \/ LoadReturns(s)
  \/ \E r \in replies : VoiceReturns(r) \/ ChatReturns(r)

Next == Operator \/ Answers

Spec == Init /\ [][Next]_vars

-----------------------------------------------------------------------------
(* Properties. *)

\* Whatever the order of loads, saves and clicks, a save of a specialist never
\* carries the form of another: the form follows the selection and the list (the
\* effect on [selectedId, agents]), and is hidden while the list does not have
\* the agent selected, as when a load failed or was read before its creation.
SpecialistsKeepText == \A a \in Specialists : text[a] \in {a, "free", "gone"}

\* A chat agent is never written, nor created, with the text of another, though
\* the editor keeps its text when its agent changes: the answer of a save that
\* an earlier editor sent closes the editor it finds.
ChatAgentsKeepText == \A a \in ChatAgents : text[a] \in {a, "free", "gone"}

=============================================================================
