------------------------------ MODULE AgentsProofs ------------------------------
(***************************************************************************)
(* Proofs about the AI agents: the page that edits them (Agents), for any  *)
(* agents and any bounds - the types, and that no agent is written with    *)
(* the text of another - and the voice agent at work in a call             *)
(* (VoiceAgent), for any number of agents created for it - the types, and  *)
(* that the operator is heard again once no agent is at work, however each *)
(* of them ended.                                                          *)
(*                                                                         *)
(* That a save of the page is right depends on what it shows, which        *)
(* depends on the lists it has been given (Listed), and on the answers of  *)
(* earlier saves (Posted), which it puts into its lists.                   *)
(***************************************************************************)
EXTENDS Agents, VoiceAgent, TLAPS

-----------------------------------------------------------------------------
(* The page of the agents. *)

\* The agents of a side: the voice form, the editor or the list.
Kind(side) == IF side = "voice" THEN Specialists ELSE ChatAgents

\* Every text on the server is of its agent.
Stored == \A a \in AgentIds : text[a] \in {a, "free", "gone"}

\* So is every text in a list, of the page or of a load.
Own(list) == \A a \in AgentIds : list[a] \in {None, a}
Listed == Own(agents) /\ \A s \in Slots : Own(loads[s].lists)

\* A save carries the text of the agent it is for, and a creation new text.
Right(m) ==
  IF m.what = "create" THEN m.id = None /\ m.text = "new"
  ELSE m.id \in Kind(m.side) /\ (m.what = "update" => m.text = m.id)

\* A success tells the agent of its request.
Told(r) ==
  /\ Right(r.msg)
  /\ r.ok => r.id \in Kind(r.msg.side) /\ (r.msg.what # "create" => r.id = r.msg.id)

Posted == (\A m \in sent : Right(m)) /\ (\A r \in replies : Told(r))

\* The form is of the specialist selected, if it is listed, and the editor's
\* text of the chat agent chosen.
SpecForm == selected # "master" => agents[selected] = None \/ form = selected
Draft ==
  /\ chosen # None => chosen.text = chosen.id
  /\ draft # None => draft = IF chosen = None THEN "new" ELSE chosen.id

-----------------------------------------------------------------------------
\* TypeOK, by the variables that change together.
Replies == [msg : Messages, ok : BOOLEAN, id : AgentIds \union {None}]
MailOK == sent \subseteq Messages /\ replies \subseteq Replies
ListsOK ==
  agents \in Lists /\ loads \in [Slots -> [step : {"free", "asked", "done"}, lists : Lists]]
VoiceOK ==
  /\ selected \in Specialists \union {"master"} /\ form \in Texts
  /\ deleting \in Specialists \union {None}
  /\ op \in [step : {"idle", "reply", "refetch", "load"},
             id : Specialists \union {None}, load : Slots \union {None}]
Shown == open /\ ~loading /\ channel = "chat" /\ editing
ChatOK ==
  /\ {open, loading, editing} \subseteq BOOLEAN /\ channel \in {"voice", "chat"}
  /\ chosen \in [id : ChatAgents, text : Texts] \union {None}
  /\ draft \in Texts \union {None} /\ (draft # None <=> Shown)

TextOK == text \in [AgentIds -> Texts \union {"free", "gone"}]

Mail == MailOK /\ Posted
Rows == ListsOK /\ Listed
Chat == ChatOK /\ Draft

\* The inductive invariant.
IInv == TextOK /\ Stored /\ Mail /\ Rows /\ VoiceOK /\ SpecForm /\ Chat

USE AgentsAssumption

\* The parts make up the type invariant.

LEMMA TypeParts ==
  TypeOK <=> TextOK /\ MailOK /\ ListsOK /\ VoiceOK /\ ChatOK
  BY Zenon DEF TypeOK, TextOK, MailOK, Replies, ListsOK, VoiceOK, ChatOK, Shown

-----------------------------------------------------------------------------
(* The requests and their answers. *)

\* The editor that goes does not change what its requests and answers say.
LEMMA Unshown ==
  ASSUME NEW m \in Messages, Right(m)
  PROVE  [m EXCEPT !.shown = FALSE] \in Messages /\ Right([m EXCEPT !.shown = FALSE])
  BY DEF Messages, Right

\* A render of the page, of any of the answers, keeps what they say.
LEMMA Rendered ==
  ASSUME Mail, NEW R \in SUBSET replies,
         sent' = Orphaned(sent), replies' = OrphanedReplies(R)
  PROVE  Mail'
<1>1. \A m \in sent' : m \in Messages /\ Right(m)
  BY Unshown DEF Mail, MailOK, Posted, Orphaned
<1>2. ASSUME NEW r \in R
      PROVE  /\ [r EXCEPT !.msg = [r.msg EXCEPT !.shown = FALSE]] \in Replies
             /\ Told([r EXCEPT !.msg = [r.msg EXCEPT !.shown = FALSE]])
  <2> DEFINE q == [r EXCEPT !.msg = [r.msg EXCEPT !.shown = FALSE]]
  <2>1. r \in Replies /\ Told(r)
    BY DEF Mail, MailOK, Posted
  <2>2. q = [msg |-> [r.msg EXCEPT !.shown = FALSE], ok |-> r.ok, id |-> r.id]
    <3> DEFINE v == [r.msg EXCEPT !.shown = FALSE]
    <3> HIDE DEF v
    <3>1. [r EXCEPT !.msg = v] = [msg |-> v, ok |-> r.ok, id |-> r.id]
      BY <2>1 DEF Replies
    <3> QED BY <3>1 DEF v
  <2>3. r.msg \in Messages /\ Right(r.msg)
    BY <2>1 DEF Replies, Told
  <2>4. q.msg \in Messages /\ Right(q.msg) /\ q.msg.side = r.msg.side
          /\ q.msg.what = r.msg.what /\ q.msg.id = r.msg.id
    BY <2>2, <2>3, Unshown DEF Messages
  <2> QED BY <2>1, <2>2, <2>4 DEF Replies, Told
<1>3. \A r \in replies' : r \in Replies /\ Told(r)
  BY <1>2 DEF Mail, MailOK, Posted, OrphanedReplies
<1> QED BY <1>1, <1>3 DEF Mail, MailOK, Posted

\* A request that is right may be sent.
LEMMA Added ==
  ASSUME Mail, NEW m \in Messages, Right(m), sent' = sent \union {m}, UNCHANGED replies
  PROVE  Mail'
  BY DEF Mail, MailOK, Posted

\* Every step keeps each agent its text: a save that is right writes its own.
LEMMA StoredNext ==
  TextOK /\ Stored /\ Mail /\ [Next]_vars => Stored'
<1> SUFFICES ASSUME TextOK /\ Stored /\ Mail, [Next]_vars PROVE Stored'
  OBVIOUS
<1> USE DEF server, voice, chat, TextOK, Mail, MailOK, Posted, Stored
<1>1. ASSUME Enter PROVE Stored'
  BY <1>1 DEF Enter, LoadData
<1>2. ASSUME Leave PROVE Stored'
  BY <1>2 DEF Leave, Empty, NoLoad, NoOp
<1>3. ASSUME Reload PROVE Stored'
  BY <1>3 DEF Reload, LoadData, Editor
<1>4. ASSUME HandleSaveSpecialist PROVE Stored'
  BY <1>4 DEF HandleSaveSpecialist, Post, FormShown, Idle
<1>5. ASSUME HandleCreateSpecialist PROVE Stored'
  BY <1>5 DEF HandleCreateSpecialist, Post
<1>6. ASSUME ConfirmDeleteSpecialist PROVE Stored'
  BY <1>6 DEF ConfirmDeleteSpecialist, Post
<1>7. ASSUME AskDelete PROVE Stored'
  BY <1>7 DEF AskDelete, FormShown, Idle
<1>8. ASSUME HandleSaveMaster PROVE Stored'
  BY <1>8 DEF HandleSaveMaster, LoadData, NoOp, Idle
<1>9. ASSUME NewChatAgent PROVE Stored'
  BY <1>9 DEF NewChatAgent, Render, Editor
<1>10. ASSUME CancelEditor PROVE Stored'
  BY <1>10 DEF CancelEditor, Render, Editor
<1>11. ASSUME HandleSave PROVE Stored'
  BY <1>11 DEF HandleSave, ChatPost
<1>12. ASSUME HandleDelete PROVE Stored'
  BY <1>12 DEF HandleDelete, ChatPost
<1>13. ASSUME NEW a \in Specialists \union {"master"}, Select(a) PROVE Stored'
  BY <1>13 DEF Select, SpecFormEffect
<1>14. ASSUME NEW c \in {"voice", "chat"}, ShowChannel(c) PROVE Stored'
  BY <1>14 DEF ShowChannel, Render, Editor, Idle
<1>15. ASSUME NEW a \in ChatAgents, OpenChatAgent(a) PROVE Stored'
  BY <1>15 DEF OpenChatAgent, Render, Editor
<1>16. ASSUME NEW a \in ChatAgents, HandleDeleteConfirm(a) PROVE Stored'
  BY <1>16 DEF HandleDeleteConfirm, ChatPost
<1>17. ASSUME Refetched PROVE Stored'
  BY <1>17 DEF Refetched, LoadData, NoOp, Editor
<1>18. ASSUME NEW m \in sent, Serve(m) PROVE Stored'
  <2>1. PICK id \in Ids(m) \union {m.id}, done, ok \in BOOLEAN :
           /\ done => id # None
           /\ text' = IF done THEN Written(m, id) ELSE text
    BY <1>18 DEF Serve
  <2>2. CASE ~done
    BY <2>1, <2>2
  <2>3. CASE done /\ m.what = "create"
    BY <2>1, <2>3 DEF Written, Right, Posted, Ids
  <2>4. CASE done /\ m.what # "create"
    <3>1. id = m.id /\ id \in AgentIds /\ (m.what = "update" => m.text = id)
      BY <2>1, <2>4 DEF Right, Posted, Ids, Kind, AgentIds
    <3> QED BY <2>1, <2>4, <3>1 DEF Written
  <2> QED BY <2>2, <2>3, <2>4
<1>19. ASSUME NEW s \in Slots, ServeLoad(s) PROVE Stored'
  BY <1>19 DEF ServeLoad
<1>20. ASSUME NEW s \in Slots, LoadReturns(s) PROVE Stored'
  BY <1>20 DEF LoadReturns, SpecFormEffect, Editor, NoLoad, Empty, NoOp
<1>21. ASSUME NEW r \in replies, VoiceReturns(r) PROVE Stored'
  BY <1>21 DEF VoiceReturns, LoadData, NoOp, Editor
<1>22. ASSUME NEW r \in replies, ChatReturns(r) PROVE Stored'
  BY <1>22 DEF ChatReturns, OnSaved, Editor
<1>23. CASE UNCHANGED vars
  BY <1>23 DEF vars
<1> QED BY <1>1, <1>2, <1>3, <1>4, <1>5, <1>6, <1>7, <1>8, <1>9, <1>10, <1>11, <1>12, <1>13,
           <1>14, <1>15, <1>16, <1>17, <1>18, <1>19, <1>20, <1>21, <1>22, <1>23 DEF Next,
           Operator, Answers

\* Every step sends right requests, of what the page shows, and tells of no other.
LEMMA MailNext ==
  Mail /\ VoiceOK /\ ChatOK /\ SpecForm /\ Draft /\ [Next]_vars => Mail'
<1> SUFFICES ASSUME Mail /\ VoiceOK /\ ChatOK /\ SpecForm /\ Draft, [Next]_vars PROVE Mail'
  OBVIOUS
<1> USE DEF server, voice, chat
<1>1. ASSUME Enter PROVE Mail'
  <2>1. UNCHANGED <<sent, replies>>
    BY <1>1 DEF Enter
  <2> QED BY <2>1 DEF Mail, MailOK, Posted
<1>2. ASSUME Leave PROVE Mail'
  <2>1. replies' = {} /\ sent' = {[m EXCEPT !.mine = FALSE, !.shown = FALSE] : m \in sent}
    BY <1>2 DEF Leave
  <2>2. ASSUME NEW m \in sent
        PROVE  /\ [m EXCEPT !.mine = FALSE, !.shown = FALSE] \in Messages
               /\ Right([m EXCEPT !.mine = FALSE, !.shown = FALSE])
    BY DEF Mail, MailOK, Posted, Messages, Right
  <2> QED BY <2>1, <2>2 DEF Mail, MailOK, Posted
<1>3. ASSUME Reload PROVE Mail'
  <2>1. sent' = Orphaned(sent) /\ replies' = OrphanedReplies(replies)
    BY <1>3 DEF Reload
  <2> QED BY <2>1, Rendered
<1>4. ASSUME HandleSaveSpecialist PROVE Mail'
  <2> DEFINE m == [side |-> "voice", what |-> "update", id |-> selected, text |-> form,
               mine |-> TRUE, shown |-> FALSE]
  <2>1. sent' = sent \union {m} /\ UNCHANGED replies
    BY <1>4 DEF HandleSaveSpecialist, Post
  <2>3. selected \in Specialists /\ form = selected
    BY <1>4 DEF HandleSaveSpecialist, FormShown, VoiceOK, SpecForm
  <2>2. m \in Messages /\ Right(m)
    BY <1>4, <2>3 DEF Messages, Right, Kind, AgentIds, Texts
  <2> QED BY <2>1, <2>2, Added
<1>5. ASSUME HandleCreateSpecialist PROVE Mail'
  <2> DEFINE m == [side |-> "voice", what |-> "create", id |-> None, text |-> "new",
               mine |-> TRUE, shown |-> FALSE]
  <2>1. sent' = sent \union {m} /\ UNCHANGED replies
    BY <1>5 DEF HandleCreateSpecialist, Post
  <2>2. m \in Messages /\ Right(m)
    BY <1>5 DEF Messages, Right, Kind, AgentIds, Texts
  <2> QED BY <2>1, <2>2, Added
<1>6. ASSUME ConfirmDeleteSpecialist PROVE Mail'
  <2> DEFINE m == [side |-> "voice", what |-> "delete", id |-> deleting, text |-> "new",
               mine |-> TRUE, shown |-> FALSE]
  <2>1. sent' = sent \union {m} /\ UNCHANGED replies
    BY <1>6 DEF ConfirmDeleteSpecialist, Post
  <2>2. m \in Messages /\ Right(m)
    BY <1>6 DEF ConfirmDeleteSpecialist, VoiceOK, Messages, Right, Kind, AgentIds, Texts
  <2> QED BY <2>1, <2>2, Added
<1>7. ASSUME AskDelete PROVE Mail'
  <2>1. UNCHANGED <<sent, replies>>
    BY <1>7 DEF AskDelete
  <2> QED BY <2>1 DEF Mail, MailOK, Posted
<1>8. ASSUME HandleSaveMaster PROVE Mail'
  <2>1. UNCHANGED <<sent, replies>>
    BY <1>8 DEF HandleSaveMaster
  <2> QED BY <2>1 DEF Mail, MailOK, Posted
<1>9. ASSUME NewChatAgent PROVE Mail'
  <2>1. sent' = Orphaned(sent) /\ replies' = OrphanedReplies(replies)
    BY <1>9 DEF NewChatAgent, Render
  <2> QED BY <2>1, Rendered
<1>10. ASSUME CancelEditor PROVE Mail'
  <2>1. sent' = Orphaned(sent) /\ replies' = OrphanedReplies(replies)
    BY <1>10 DEF CancelEditor, Render
  <2> QED BY <2>1, Rendered
<1>11. ASSUME HandleSave PROVE Mail'
  <2>1. CASE chosen = None
    <3> DEFINE m == [side |-> "editor", what |-> "create", id |-> None, text |-> draft,
                     mine |-> TRUE, shown |-> TRUE]
    <3>1. sent' = sent \union {m} /\ UNCHANGED replies
      BY <1>11, <2>1 DEF HandleSave, ChatPost
    <3>2. m \in Messages /\ Right(m)
      BY <1>11, <2>1 DEF HandleSave, Draft, Messages, Right, Texts
    <3> QED BY <3>1, <3>2, Added
  <2>2. CASE chosen # None
    <3> DEFINE m == [side |-> "editor", what |-> "update", id |-> chosen.id, text |-> draft,
                     mine |-> TRUE, shown |-> TRUE]
    <3>1. sent' = sent \union {m} /\ UNCHANGED replies
      BY <1>11, <2>2 DEF HandleSave, ChatPost
    <3>2. chosen.id \in ChatAgents /\ draft = chosen.id
      BY <1>11, <2>2 DEF HandleSave, Draft, ChatOK
    <3>3. m \in Messages /\ Right(m)
      BY <3>2 DEF Messages, Right, Kind, AgentIds, Texts
    <3> QED BY <3>1, <3>3, Added
  <2> QED BY <2>1, <2>2
<1>12. ASSUME HandleDelete PROVE Mail'
  <2> DEFINE m == [side |-> "editor", what |-> "delete", id |-> chosen.id, text |-> "new",
               mine |-> TRUE, shown |-> TRUE]
  <2>1. sent' = sent \union {m} /\ UNCHANGED replies
    BY <1>12 DEF HandleDelete, ChatPost
  <2>2. m \in Messages /\ Right(m)
    BY <1>12 DEF HandleDelete, ChatOK, Messages, Right, Kind, AgentIds, Texts
  <2> QED BY <2>1, <2>2, Added
<1>13. ASSUME NEW a \in Specialists \union {"master"}, Select(a) PROVE Mail'
  <2>1. UNCHANGED <<sent, replies>>
    BY <1>13 DEF Select
  <2> QED BY <2>1 DEF Mail, MailOK, Posted
<1>14. ASSUME NEW c \in {"voice", "chat"}, ShowChannel(c) PROVE Mail'
  <2>1. sent' = Orphaned(sent) /\ replies' = OrphanedReplies(replies)
    BY <1>14 DEF ShowChannel, Render
  <2> QED BY <2>1, Rendered
<1>15. ASSUME NEW a \in ChatAgents, OpenChatAgent(a) PROVE Mail'
  <2>1. sent' = Orphaned(sent) /\ replies' = OrphanedReplies(replies)
    BY <1>15 DEF OpenChatAgent, Render
  <2> QED BY <2>1, Rendered
<1>16. ASSUME NEW a \in ChatAgents, HandleDeleteConfirm(a) PROVE Mail'
  <2> DEFINE m == [side |-> "list", what |-> "delete", id |-> a, text |-> "new",
               mine |-> TRUE, shown |-> FALSE]
  <2>1. sent' = sent \union {m} /\ UNCHANGED replies
    BY <1>16 DEF HandleDeleteConfirm, ChatPost
  <2>2. m \in Messages /\ Right(m)
    BY <1>16 DEF Messages, Right, Kind, AgentIds, Texts
  <2> QED BY <2>1, <2>2, Added
<1>17. ASSUME Refetched PROVE Mail'
  <2>1. sent' = Orphaned(sent) /\ replies' = OrphanedReplies(replies)
    BY <1>17 DEF Refetched
  <2> QED BY <2>1, Rendered
<1>18. ASSUME NEW m \in sent, Serve(m) PROVE Mail'
  <2>1. PICK id \in Ids(m) \union {m.id}, done, ok \in BOOLEAN :
           /\ ok => done
           /\ done => id # None
           /\ sent' = sent \ {m}
           /\ replies' \subseteq replies \union {[msg |-> m, ok |-> ok, id |-> IF ok THEN id ELSE None]}
    BY <1>18 DEF Serve
  <2>2. m \in Messages /\ Right(m)
    BY DEF Mail, MailOK, Posted
  <2>3. id \in AgentIds \union {None}
    BY <2>2 DEF Ids, Messages, AgentIds
  <2>4. ok => id \in Kind(m.side) /\ (m.what # "create" => id = m.id)
    BY <2>1, <2>2 DEF Ids, Right, Kind
  <2> DEFINE r == [msg |-> m, ok |-> ok, id |-> IF ok THEN id ELSE None]
  <2>5. r \in Replies /\ Told(r)
    BY <2>2, <2>3, <2>4 DEF Replies, Told
  <2> QED BY <2>1, <2>5 DEF Mail, MailOK, Posted
<1>19. ASSUME NEW s \in Slots, ServeLoad(s) PROVE Mail'
  <2>1. UNCHANGED <<sent, replies>>
    BY <1>19 DEF ServeLoad
  <2> QED BY <2>1 DEF Mail, MailOK, Posted
<1>20. ASSUME NEW s \in Slots, LoadReturns(s) PROVE Mail'
  <2>1. UNCHANGED <<sent, replies>>
    BY <1>20 DEF LoadReturns
  <2> QED BY <2>1 DEF Mail, MailOK, Posted
<1>21. ASSUME NEW r \in replies, VoiceReturns(r) PROVE Mail'
  <2>1. sent' = Orphaned(sent) /\ replies' = OrphanedReplies(replies \ {r})
    BY <1>21 DEF VoiceReturns
  <2> QED BY <2>1, Rendered
<1>22. ASSUME NEW r \in replies, ChatReturns(r) PROVE Mail'
  <2>1. sent' = Orphaned(sent) /\ replies' = OrphanedReplies(replies \ {r})
    BY <1>22 DEF ChatReturns
  <2> QED BY <2>1, Rendered
<1>23. CASE UNCHANGED vars
  BY <1>23 DEF vars, Mail, MailOK, Posted
<1> QED BY <1>1, <1>2, <1>3, <1>4, <1>5, <1>6, <1>7, <1>8, <1>9, <1>10, <1>11, <1>12, <1>13,
           <1>14, <1>15, <1>16, <1>17, <1>18, <1>19, <1>20, <1>21, <1>22, <1>23 DEF Next,
           Operator, Answers

-----------------------------------------------------------------------------
(* The lists, of the page and of the loads. *)

\* A load that begins has no list yet.
LEMMA Asked ==
  ASSUME Rows, NEW s \in Slots, LoadData(s), UNCHANGED agents
  PROVE  Rows'
<1>1. /\ loads' \in [Slots -> [step : {"free", "asked", "done"}, lists : Lists]]
      /\ \A t \in Slots : loads'[t].lists = loads[t].lists
  BY DEF Rows, ListsOK, LoadData
<1> QED BY <1>1 DEF Rows, ListsOK, Listed, Own

\* Every step keeps the lists: a list that comes is the server's, and the answer
\* of a save writes the text of the agent it names.
LEMMA RowsNext ==
  Rows /\ Stored /\ Mail /\ [Next]_vars => Rows'
<1> SUFFICES ASSUME Rows /\ Stored /\ Mail, [Next]_vars PROVE Rows'
  OBVIOUS
<1> USE DEF server, voice, chat
<1>1. ASSUME Enter PROVE Rows'
  <2>1. PICK s \in Slots : LoadData(s)
    BY <1>1 DEF Enter, FreeSlots
  <2> QED BY <1>1, <2>1, Asked DEF Enter
<1>2. ASSUME Leave PROVE Rows'
  <2>1. agents' = Empty /\ loads' = [s \in Slots |-> NoLoad]
    BY <1>2 DEF Leave
  <2>2. Empty \in Lists /\ Own(Empty)
    BY DEF Empty, Lists, Own
  <2> QED BY <2>1, <2>2 DEF NoLoad, Rows, ListsOK, Listed
<1>3. ASSUME Reload PROVE Rows'
  <2>1. PICK s \in Slots : LoadData(s)
    BY <1>3 DEF Reload, FreeSlots
  <2> QED BY <1>3, <2>1, Asked DEF Reload
<1>4. ASSUME HandleSaveSpecialist PROVE Rows'
  BY <1>4 DEF HandleSaveSpecialist, Post, Rows, ListsOK, Listed
<1>5. ASSUME HandleCreateSpecialist PROVE Rows'
  BY <1>5 DEF HandleCreateSpecialist, Post, Rows, ListsOK, Listed
<1>6. ASSUME ConfirmDeleteSpecialist PROVE Rows'
  BY <1>6 DEF ConfirmDeleteSpecialist, Post, Rows, ListsOK, Listed
<1>7. ASSUME AskDelete PROVE Rows'
  BY <1>7 DEF AskDelete, Rows, ListsOK, Listed
<1>8. ASSUME HandleSaveMaster PROVE Rows'
  <2>1. PICK s \in Slots : LoadData(s)
    BY <1>8 DEF HandleSaveMaster, FreeSlots
  <2> QED BY <1>8, <2>1, Asked DEF HandleSaveMaster
<1>9. ASSUME NewChatAgent PROVE Rows'
  BY <1>9 DEF NewChatAgent, Render, Rows, ListsOK, Listed
<1>10. ASSUME CancelEditor PROVE Rows'
  BY <1>10 DEF CancelEditor, Render, Rows, ListsOK, Listed
<1>11. ASSUME HandleSave PROVE Rows'
  BY <1>11 DEF HandleSave, ChatPost, Rows, ListsOK, Listed
<1>12. ASSUME HandleDelete PROVE Rows'
  BY <1>12 DEF HandleDelete, ChatPost, Rows, ListsOK, Listed
<1>13. ASSUME NEW a \in Specialists \union {"master"}, Select(a) PROVE Rows'
  BY <1>13 DEF Select, Rows, ListsOK, Listed
<1>14. ASSUME NEW c \in {"voice", "chat"}, ShowChannel(c) PROVE Rows'
  BY <1>14 DEF ShowChannel, Render, Rows, ListsOK, Listed
<1>15. ASSUME NEW a \in ChatAgents, OpenChatAgent(a) PROVE Rows'
  BY <1>15 DEF OpenChatAgent, Render, Rows, ListsOK, Listed
<1>16. ASSUME NEW a \in ChatAgents, HandleDeleteConfirm(a) PROVE Rows'
  BY <1>16 DEF HandleDeleteConfirm, ChatPost, Rows, ListsOK, Listed
<1>17. ASSUME Refetched PROVE Rows'
  <2>1. UNCHANGED agents /\ (UNCHANGED loads \/ \E s \in Slots : LoadData(s))
    BY <1>17 DEF Refetched, FreeSlots
  <2>2. CASE UNCHANGED loads
    BY <2>1, <2>2 DEF Rows, ListsOK, Listed
  <2> QED BY <2>1, <2>2, Asked
<1>18. ASSUME NEW m \in sent, Serve(m) PROVE Rows'
  BY <1>18 DEF Serve, Rows, ListsOK, Listed
<1>19. ASSUME NEW s \in Slots, ServeLoad(s) PROVE Rows'
  <2>1. PICK failed \in {{}, Specialists, ChatAgents} :
          loads' = [loads EXCEPT ![s] = [step |-> "done", lists |->
            [a \in AgentIds |-> IF Live(a) /\ a \notin failed THEN text[a] ELSE None]]]
    BY <1>19 DEF ServeLoad
  <2> DEFINE list == [a \in AgentIds |-> IF Live(a) /\ a \notin failed THEN text[a] ELSE None]
  <2>2. list \in Lists /\ Own(list)
    BY DEF Lists, Own, Stored, Live, Texts
  <2>3. loads'[s].lists = list /\ \A t \in Slots \ {s} : loads'[t] = loads[t]
    BY <2>1 DEF Rows, ListsOK
  <2> HIDE DEF list
  <2>4. loads' = [loads EXCEPT ![s] = [step |-> "done", lists |-> list]] /\ UNCHANGED agents
    BY <1>19, <2>1 DEF ServeLoad, list
  <2>5. ListsOK'
    BY <2>2, <2>4 DEF Rows, ListsOK
  <2>6. Listed'
    BY <2>2, <2>3, <2>4 DEF Rows, Listed
  <2> QED BY <2>5, <2>6 DEF Rows
<1>20. ASSUME NEW s \in Slots, LoadReturns(s) PROVE Rows'
  <2>1. agents' = loads[s].lists /\ loads' = [loads EXCEPT ![s] = NoLoad]
    BY <1>20 DEF LoadReturns
  <2>2. Empty \in Lists /\ Own(Empty)
    BY DEF Empty, Lists, Own
  <2>3. ListsOK'
    BY <2>1, <2>2 DEF Rows, ListsOK, NoLoad
  <2>4. Own(agents')
    BY <2>1 DEF Rows, Listed
  <2>5. \A t \in Slots : Own(loads'[t].lists)
    BY <2>1, <2>2 DEF Rows, ListsOK, Listed, NoLoad
  <2> QED BY <2>3, <2>4, <2>5 DEF Rows, Listed
<1>21. ASSUME NEW r \in replies, VoiceReturns(r) PROVE Rows'
  <2>1. UNCHANGED agents /\ (UNCHANGED loads \/ \E s \in Slots : LoadData(s))
    BY <1>21 DEF VoiceReturns, FreeSlots
  <2>2. CASE UNCHANGED loads
    BY <2>1, <2>2 DEF Rows, ListsOK, Listed
  <2> QED BY <2>1, <2>2, Asked
<1>22. ASSUME NEW r \in replies, ChatReturns(r) PROVE Rows'
  <2>1. UNCHANGED loads
    BY <1>22 DEF ChatReturns
  <2>2. CASE ~r.ok
    BY <1>22, <2>1, <2>2 DEF ChatReturns, Rows, ListsOK, Listed
  <2>3. CASE r.ok
    <3>1. r \in Replies /\ Told(r)
      BY DEF Mail, MailOK, Posted
    <3>2. /\ r.id \in ChatAgents /\ r.msg \in Messages
          /\ r.msg.what = "create" => r.msg.text = "new"
          /\ r.msg.what = "update" => r.msg.text = r.id
      BY <1>22, <2>3, <3>1 DEF Replies, Told, Right, Kind, ChatReturns
    <3>3. PICK v \in {None, r.id} : agents' = [agents EXCEPT ![r.id] = v]
      BY <1>22, <2>3, <3>2 DEF ChatReturns, OnSaved, Messages
    <3>4. agents' \in Lists /\ Own(agents')
      BY <3>2, <3>3 DEF Rows, ListsOK, Listed, Own, Lists, Texts, AgentIds
    <3> QED BY <2>1, <3>4 DEF Rows, ListsOK, Listed
  <2> QED BY <2>2, <2>3
<1>23. CASE UNCHANGED vars
  BY <1>23 DEF vars, Rows, ListsOK, Listed
<1> QED BY <1>1, <1>2, <1>3, <1>4, <1>5, <1>6, <1>7, <1>8, <1>9, <1>10, <1>11, <1>12, <1>13,
           <1>14, <1>15, <1>16, <1>17, <1>18, <1>19, <1>20, <1>21, <1>22, <1>23 DEF Next,
           Operator, Answers

-----------------------------------------------------------------------------
(* The specialists: the handler under way, and the form. *)

\* Every step keeps what the handlers of the specialists hold.
LEMMA VoiceFormNext ==
  VoiceOK /\ Rows /\ Mail /\ [Next]_vars => VoiceOK'
<1> SUFFICES ASSUME VoiceOK /\ Rows /\ Mail, [Next]_vars PROVE VoiceOK'
  OBVIOUS
<1> USE DEF server, voice, chat
<1>1. ASSUME Enter PROVE VoiceOK'
  BY <1>1 DEF Enter, VoiceOK
<1>2. ASSUME Leave PROVE VoiceOK'
  BY <1>2 DEF Leave, VoiceOK, NoOp, Texts
<1>3. ASSUME Reload PROVE VoiceOK'
  BY <1>3 DEF Reload, VoiceOK
<1>4. ASSUME HandleSaveSpecialist PROVE VoiceOK'
  BY <1>4 DEF HandleSaveSpecialist, VoiceOK, Post, FormShown, AgentIds
<1>5. ASSUME HandleCreateSpecialist PROVE VoiceOK'
  BY <1>5 DEF HandleCreateSpecialist, VoiceOK, Post
<1>6. ASSUME ConfirmDeleteSpecialist PROVE VoiceOK'
  BY <1>6 DEF ConfirmDeleteSpecialist, VoiceOK, Post, AgentIds
<1>7. ASSUME AskDelete PROVE VoiceOK'
  BY <1>7 DEF AskDelete, VoiceOK, FormShown
<1>8. ASSUME HandleSaveMaster PROVE VoiceOK'
  <2>1. PICK s \in Slots : op' = [step |-> "load", id |-> None, load |-> s]
    BY <1>8 DEF HandleSaveMaster, FreeSlots
  <2> QED BY <1>8, <2>1 DEF HandleSaveMaster, VoiceOK
<1>9. ASSUME NewChatAgent PROVE VoiceOK'
  BY <1>9 DEF NewChatAgent, VoiceOK, Render
<1>10. ASSUME CancelEditor PROVE VoiceOK'
  BY <1>10 DEF CancelEditor, VoiceOK, Render
<1>11. ASSUME HandleSave PROVE VoiceOK'
  BY <1>11 DEF HandleSave, VoiceOK, ChatPost
<1>12. ASSUME HandleDelete PROVE VoiceOK'
  BY <1>12 DEF HandleDelete, VoiceOK, ChatPost
<1>13. ASSUME NEW a \in Specialists \union {"master"}, Select(a) PROVE VoiceOK'
  <2>1. form' \in Texts
    BY <1>13 DEF Select, SpecFormEffect, VoiceOK, Rows, ListsOK, Lists, Texts, AgentIds
  <2> QED BY <1>13, <2>1 DEF Select, VoiceOK
<1>14. ASSUME NEW c \in {"voice", "chat"}, ShowChannel(c) PROVE VoiceOK'
  BY <1>14 DEF ShowChannel, VoiceOK, Render
<1>15. ASSUME NEW a \in ChatAgents, OpenChatAgent(a) PROVE VoiceOK'
  BY <1>15 DEF OpenChatAgent, VoiceOK, Render
<1>16. ASSUME NEW a \in ChatAgents, HandleDeleteConfirm(a) PROVE VoiceOK'
  BY <1>16 DEF HandleDeleteConfirm, VoiceOK, ChatPost
<1>17. ASSUME Refetched PROVE VoiceOK'
  <2>1. UNCHANGED <<selected, form, deleting>> /\ op.step = "refetch"
    BY <1>17 DEF Refetched
  <2>2. CASE op' = NoOp
    BY <2>1, <2>2 DEF VoiceOK, NoOp
  <2>3. CASE op' # NoOp
    <3>1. PICK s \in Slots : op' = [op EXCEPT !.step = "load", !.load = s]
      BY <1>17, <2>3 DEF Refetched, FreeSlots
    <3>2. op' = [step |-> "load", id |-> op.id, load |-> s]
      BY <3>1 DEF VoiceOK
    <3> QED BY <2>1, <3>2 DEF VoiceOK
  <2> QED BY <2>2, <2>3
<1>18. ASSUME NEW m \in sent, Serve(m) PROVE VoiceOK'
  BY <1>18 DEF Serve, VoiceOK
<1>19. ASSUME NEW s \in Slots, ServeLoad(s) PROVE VoiceOK'
  BY <1>19 DEF ServeLoad, VoiceOK
<1>20. ASSUME NEW s \in Slots, LoadReturns(s) PROVE VoiceOK'
  <2>1. /\ UNCHANGED deleting
        /\ \/ op' = NoOp
              /\ selected' = IF op.load = s /\ op.id # None THEN op.id ELSE selected
           \/ UNCHANGED <<op, selected>>
    BY <1>20 DEF LoadReturns
  <2>2. op.id # None => op.id \in Specialists
    BY DEF VoiceOK
  <2>3. selected' \in Specialists \union {"master"}
    BY <2>1, <2>2 DEF VoiceOK
  <2>4. loads[s].lists \in Lists
    BY DEF Rows, ListsOK
  <2>5. agents' \in Lists
    BY <1>20, <2>4 DEF LoadReturns
  <2>6. form' \in Texts
    BY <1>20, <2>3, <2>5 DEF LoadReturns, SpecFormEffect, VoiceOK, Lists, Texts, AgentIds
  <2> QED BY <2>1, <2>3, <2>6 DEF VoiceOK, NoOp
<1>21. ASSUME NEW r \in replies, VoiceReturns(r) PROVE VoiceOK'
  <2>1. /\ r \in Replies /\ r.msg \in Messages
        /\ r.ok => r.id \in Specialists
    BY <1>21 DEF VoiceReturns, Mail, MailOK, Posted, Replies, Told, Kind
  <2>2. UNCHANGED form /\ deleting' \in {deleting, None} /\ selected' \in {selected, "master"}
    BY <1>21 DEF VoiceReturns
  <2>3. CASE op' = NoOp
    BY <2>2, <2>3 DEF VoiceOK, NoOp
  <2>4. CASE r.ok /\ op' = [step |-> "refetch", id |-> r.id, load |-> None]
    BY <2>1, <2>2, <2>4 DEF VoiceOK, AgentIds
  <2>5. CASE /\ r.ok
             /\ \E s \in Slots : op' = [step |-> "load", id |-> None, load |-> s]
    BY <2>1, <2>2, <2>5 DEF VoiceOK, AgentIds, Messages
  <2> QED BY <1>21, <2>3, <2>4, <2>5 DEF VoiceReturns, FreeSlots
<1>22. ASSUME NEW r \in replies, ChatReturns(r) PROVE VoiceOK'
  BY <1>22 DEF ChatReturns, VoiceOK
<1>23. CASE UNCHANGED vars
  BY <1>23 DEF vars, VoiceOK
<1> QED BY <1>1, <1>2, <1>3, <1>4, <1>5, <1>6, <1>7, <1>8, <1>9, <1>10, <1>11, <1>12, <1>13,
           <1>14, <1>15, <1>16, <1>17, <1>18, <1>19, <1>20, <1>21, <1>22, <1>23 DEF Next,
           Operator, Answers

\* Every step keeps the form the selected specialist's.
LEMMA SpecFormNext ==
  SpecForm /\ Stored /\ VoiceOK /\ Rows /\ Mail /\ [Next]_vars => SpecForm'
<1> SUFFICES ASSUME SpecForm /\ Stored /\ VoiceOK /\ Rows /\ Mail, [Next]_vars PROVE SpecForm'
  OBVIOUS
<1> USE DEF server, voice, chat
<1>1. ASSUME Enter PROVE SpecForm'
  BY <1>1 DEF Enter, SpecForm
<1>2. ASSUME Leave PROVE SpecForm'
  BY <1>2 DEF Leave, SpecForm
<1>3. ASSUME Reload PROVE SpecForm'
  BY <1>3 DEF Reload, SpecForm
<1>4. ASSUME HandleSaveSpecialist PROVE SpecForm'
  BY <1>4 DEF HandleSaveSpecialist, SpecForm, Post
<1>5. ASSUME HandleCreateSpecialist PROVE SpecForm'
  BY <1>5 DEF HandleCreateSpecialist, SpecForm, Post
<1>6. ASSUME ConfirmDeleteSpecialist PROVE SpecForm'
  BY <1>6 DEF ConfirmDeleteSpecialist, SpecForm, Post
<1>7. ASSUME AskDelete PROVE SpecForm'
  BY <1>7 DEF AskDelete, SpecForm
<1>8. ASSUME HandleSaveMaster PROVE SpecForm'
  BY <1>8 DEF HandleSaveMaster, SpecForm
<1>9. ASSUME NewChatAgent PROVE SpecForm'
  BY <1>9 DEF NewChatAgent, SpecForm, Render
<1>10. ASSUME CancelEditor PROVE SpecForm'
  BY <1>10 DEF CancelEditor, SpecForm, Render
<1>11. ASSUME HandleSave PROVE SpecForm'
  BY <1>11 DEF HandleSave, SpecForm, ChatPost
<1>12. ASSUME HandleDelete PROVE SpecForm'
  BY <1>12 DEF HandleDelete, SpecForm, ChatPost
<1>13. ASSUME NEW a \in Specialists \union {"master"}, Select(a) PROVE SpecForm'
  <2>1. a # "master" => agents[a] \in {None, a}
    BY DEF Rows, Listed, Own, AgentIds
  <2> QED BY <1>13, <2>1 DEF Select, SpecFormEffect, SpecForm
<1>14. ASSUME NEW c \in {"voice", "chat"}, ShowChannel(c) PROVE SpecForm'
  BY <1>14 DEF ShowChannel, SpecForm, Render
<1>15. ASSUME NEW a \in ChatAgents, OpenChatAgent(a) PROVE SpecForm'
  BY <1>15 DEF OpenChatAgent, SpecForm, Render
<1>16. ASSUME NEW a \in ChatAgents, HandleDeleteConfirm(a) PROVE SpecForm'
  BY <1>16 DEF HandleDeleteConfirm, SpecForm, ChatPost
<1>17. ASSUME Refetched PROVE SpecForm'
  BY <1>17 DEF Refetched, SpecForm
<1>18. ASSUME NEW m \in sent, Serve(m) PROVE SpecForm'
  BY <1>18 DEF Serve, SpecForm
<1>19. ASSUME NEW s \in Slots, ServeLoad(s) PROVE SpecForm'
  BY <1>19 DEF ServeLoad, SpecForm
<1>20. ASSUME NEW s \in Slots, LoadReturns(s) PROVE SpecForm'
  <2>1. Rows' /\ VoiceOK'
    BY <1>20, RowsNext, VoiceFormNext DEF Next, Answers
  <2>2. selected' # "master" => agents'[selected'] \in {None, selected'}
    BY <2>1 DEF Rows, Listed, Own, VoiceOK, AgentIds
  <2> QED BY <1>20, <2>2 DEF LoadReturns, SpecFormEffect, SpecForm
<1>21. ASSUME NEW r \in replies, VoiceReturns(r) PROVE SpecForm'
  BY <1>21 DEF VoiceReturns, SpecForm
<1>22. ASSUME NEW r \in replies, ChatReturns(r) PROVE SpecForm'
  <2>1. UNCHANGED <<selected, form>>
    BY <1>22 DEF ChatReturns
  <2>2. r.ok => r.id \in ChatAgents
    BY <1>22 DEF ChatReturns, Mail, MailOK, Posted, Replies, Messages, Told, Kind
  <2> DEFINE v == IF r.msg.what = "delete" THEN None
                  ELSE IF r.msg.text = "new" THEN r.id ELSE r.msg.text
  <2>3. agents' = agents \/ (r.ok /\ agents' = [agents EXCEPT ![r.id] = v])
    BY <1>22 DEF ChatReturns, OnSaved
  <2>4. selected # "master" => selected \in Specialists
    BY DEF VoiceOK
  <2> HIDE DEF v
  <2>5. selected # "master" => agents'[selected] = agents[selected]
    BY <2>2, <2>3, <2>4 DEF Rows, ListsOK, Lists, AgentIds
  <2> QED BY <2>1, <2>5 DEF SpecForm
<1>23. CASE UNCHANGED vars
  BY <1>23 DEF vars, SpecForm
<1> QED BY <1>1, <1>2, <1>3, <1>4, <1>5, <1>6, <1>7, <1>8, <1>9, <1>10, <1>11, <1>12, <1>13,
           <1>14, <1>15, <1>16, <1>17, <1>18, <1>19, <1>20, <1>21, <1>22, <1>23 DEF Next,
           Operator, Answers

-----------------------------------------------------------------------------
(* The chat agents: the editor. *)

\* The editor takes the text of the agent chosen when it is mounted, and the
\* page chooses another only while it is not.
LEMMA EditorKeeps ==
  ASSUME Chat, Editor, {open', loading', editing'} \subseteq BOOLEAN,
         channel' \in {"voice", "chat"},
         chosen' \in [id : ChatAgents, text : Texts] \union {None},
         chosen' # None => chosen'.text = chosen'.id,
         chosen' = chosen \/ draft = None \/ ~Shown'
  PROVE  Chat'
<1>1. draft' \in Texts \union {None} /\ (draft' # None <=> Shown')
  BY DEF Chat, ChatOK, Editor, Shown, Texts, AgentIds
<1>2. draft' # None => draft' = IF chosen' = None THEN "new" ELSE chosen'.id
  BY <1>1 DEF Chat, Draft, Editor, Shown
<1> QED BY <1>1, <1>2 DEF Chat, ChatOK, Draft

\* Nothing of the editor changes.
LEMMA EditorUntouched ==
  ASSUME Chat, UNCHANGED <<open, loading, channel, editing, chosen, draft>>
  PROVE  Chat'
  BY DEF Chat, ChatOK, Draft, Shown

\* Nor while it is not shown, whatever the page loads.
LEMMA EditorAway ==
  ASSUME Chat, ~Shown, ~Shown', {open', loading'} \subseteq BOOLEAN,
         UNCHANGED <<channel, editing, chosen, draft>>
  PROVE  Chat'
  BY DEF Chat, ChatOK, Draft

\* Every step keeps what the editor shows the agent chosen.
LEMMA ChatNext ==
  Chat /\ Rows /\ [Next]_vars => Chat'
<1> SUFFICES ASSUME Chat /\ Rows, [Next]_vars PROVE Chat'
  OBVIOUS
<1> USE DEF server, voice, chat
<1>1. ASSUME Enter PROVE Chat'
  BY <1>1, EditorAway DEF Enter, LoadData, Shown
<1>2. ASSUME Leave PROVE Chat'
  BY <1>2 DEF Leave, Chat, ChatOK, Draft, Shown
<1>3. ASSUME Reload PROVE Chat'
  BY <1>3, EditorKeeps DEF Reload, LoadData, Chat, ChatOK, Draft, Shown
<1>4. ASSUME HandleSaveSpecialist PROVE Chat'
  <2>1. UNCHANGED <<open, loading, channel, editing, chosen, draft>>
    BY <1>4 DEF HandleSaveSpecialist, Post
  <2> QED BY <2>1, EditorUntouched
<1>5. ASSUME HandleCreateSpecialist PROVE Chat'
  <2>1. UNCHANGED <<open, loading, channel, editing, chosen, draft>>
    BY <1>5 DEF HandleCreateSpecialist, Post
  <2> QED BY <2>1, EditorUntouched
<1>6. ASSUME ConfirmDeleteSpecialist PROVE Chat'
  <2>1. UNCHANGED <<open, loading, channel, editing, chosen, draft>>
    BY <1>6 DEF ConfirmDeleteSpecialist, Post
  <2> QED BY <2>1, EditorUntouched
<1>7. ASSUME AskDelete PROVE Chat'
  <2>1. UNCHANGED <<open, loading, channel, editing, chosen, draft>>
    BY <1>7 DEF AskDelete
  <2> QED BY <2>1, EditorUntouched
<1>8. ASSUME HandleSaveMaster PROVE Chat'
  BY <1>8, EditorAway DEF HandleSaveMaster, LoadData, Shown, Idle, Chat, ChatOK
<1>9. ASSUME NewChatAgent PROVE Chat'
  BY <1>9, EditorKeeps DEF NewChatAgent, Render, Chat, ChatOK, Draft, Shown
<1>10. ASSUME CancelEditor PROVE Chat'
  BY <1>10, EditorKeeps DEF CancelEditor, Render, Chat, ChatOK, Draft, Shown
<1>11. ASSUME HandleSave PROVE Chat'
  <2>1. UNCHANGED <<open, loading, channel, editing, chosen, draft>>
    BY <1>11 DEF HandleSave, ChatPost
  <2> QED BY <2>1, EditorUntouched
<1>12. ASSUME HandleDelete PROVE Chat'
  <2>1. UNCHANGED <<open, loading, channel, editing, chosen, draft>>
    BY <1>12 DEF HandleDelete, ChatPost
  <2> QED BY <2>1, EditorUntouched
<1>13. ASSUME NEW a \in Specialists \union {"master"}, Select(a) PROVE Chat'
  <2>1. UNCHANGED <<open, loading, channel, editing, chosen, draft>>
    BY <1>13 DEF Select
  <2> QED BY <2>1, EditorUntouched
<1>14. ASSUME NEW c \in {"voice", "chat"}, ShowChannel(c) PROVE Chat'
  BY <1>14, EditorKeeps DEF ShowChannel, Render, Chat, ChatOK, Draft, Shown
<1>15. ASSUME NEW a \in ChatAgents, OpenChatAgent(a) PROVE Chat'
  <2>1. agents[a] = a /\ a \in Texts
    BY <1>15 DEF OpenChatAgent, Rows, Listed, Own, AgentIds, Texts
  <2> QED BY <1>15, <2>1, EditorKeeps DEF OpenChatAgent, Render, Chat, ChatOK, Draft, Shown
<1>16. ASSUME NEW a \in ChatAgents, HandleDeleteConfirm(a) PROVE Chat'
  <2>1. UNCHANGED <<open, loading, channel, editing, chosen, draft>>
    BY <1>16 DEF HandleDeleteConfirm, ChatPost
  <2> QED BY <2>1, EditorUntouched
<1>17. ASSUME Refetched PROVE Chat'
  <2>1. /\ UNCHANGED <<open, channel, editing, chosen>>
        /\ UNCHANGED <<loading, draft>> \/ (loading' = TRUE /\ Editor)
    BY <1>17 DEF Refetched, LoadData
  <2>2. CASE UNCHANGED <<loading, draft>>
    BY <2>1, <2>2, EditorUntouched
  <2>3. CASE loading' = TRUE /\ Editor
    BY <2>1, <2>3, EditorKeeps DEF Chat, ChatOK, Draft
  <2> QED BY <2>1, <2>2, <2>3
<1>18. ASSUME NEW m \in sent, Serve(m) PROVE Chat'
  <2>1. UNCHANGED <<open, loading, channel, editing, chosen, draft>>
    BY <1>18 DEF Serve
  <2> QED BY <2>1, EditorUntouched
<1>19. ASSUME NEW s \in Slots, ServeLoad(s) PROVE Chat'
  <2>1. UNCHANGED <<open, loading, channel, editing, chosen, draft>>
    BY <1>19 DEF ServeLoad
  <2> QED BY <2>1, EditorUntouched
<1>20. ASSUME NEW s \in Slots, LoadReturns(s) PROVE Chat'
  BY <1>20, EditorKeeps DEF LoadReturns, Chat, ChatOK, Draft, Shown
<1>21. ASSUME NEW r \in replies, VoiceReturns(r) PROVE Chat'
  <2>1. /\ UNCHANGED <<open, channel, editing, chosen>>
        /\ UNCHANGED <<loading, draft>> \/ (loading' = TRUE /\ Editor)
    BY <1>21 DEF VoiceReturns, LoadData
  <2>2. CASE UNCHANGED <<loading, draft>>
    BY <2>1, <2>2, EditorUntouched
  <2>3. CASE loading' = TRUE /\ Editor
    BY <2>1, <2>3, EditorKeeps DEF Chat, ChatOK, Draft
  <2> QED BY <2>1, <2>2, <2>3
<1>22. ASSUME NEW r \in replies, ChatReturns(r) PROVE Chat'
  <2>1. UNCHANGED <<open, loading, channel>> /\ Editor
    BY <1>22 DEF ChatReturns
  <2>2. UNCHANGED <<editing, chosen>> \/ (editing' = FALSE /\ chosen' = None)
    BY <1>22 DEF ChatReturns, OnSaved
  <2> QED BY <2>1, <2>2, EditorKeeps DEF Chat, ChatOK, Draft, Shown
<1>23. CASE UNCHANGED vars
  BY <1>23 DEF vars, Chat, ChatOK, Draft, Shown
<1> QED BY <1>1, <1>2, <1>3, <1>4, <1>5, <1>6, <1>7, <1>8, <1>9, <1>10, <1>11, <1>12, <1>13,
           <1>14, <1>15, <1>16, <1>17, <1>18, <1>19, <1>20, <1>21, <1>22, <1>23 DEF Next,
           Operator, Answers

-----------------------------------------------------------------------------
\* The page starts with nothing listed, and the agents with their own texts.
LEMMA InitIInv == Init => IInv
<1> SUFFICES ASSUME Init PROVE IInv
  OBVIOUS
<1>1. TextOK /\ Stored
  BY DEF Init, TextOK, Stored, Texts
<1>2. Mail
  BY DEF Init, Mail, MailOK, Posted
<1>3. Empty \in Lists /\ Own(Empty)
  BY DEF Empty, Lists, Own
<1>4. Rows
  BY <1>3 DEF Init, Rows, ListsOK, Listed, NoLoad
<1>5. VoiceOK /\ SpecForm
  BY DEF Init, VoiceOK, SpecForm, NoOp, Texts
<1>6. Chat
  BY DEF Init, Chat, ChatOK, Draft, Shown
<1> QED BY <1>1, <1>2, <1>4, <1>5, <1>6 DEF IInv

\* The texts keep their type: what is written is a text.
LEMMA TextNext ==
  TextOK /\ Mail /\ [Next]_vars
    => TextOK'
<1> SUFFICES ASSUME TextOK, Mail, [Next]_vars
             PROVE  TextOK'
  OBVIOUS
<1>1. ASSUME NEW m \in sent, Serve(m)
      PROVE  TextOK'
  <2>1. PICK id \in Ids(m) \union {m.id}, done \in BOOLEAN :
         text' = IF done THEN Written(m, id) ELSE text
    BY <1>1 DEF Serve
  <2>2. m.text \in Texts
    BY DEF Mail, MailOK, Messages
  <2> QED BY <2>1, <2>2 DEF TextOK, Written, Texts
<1>2. CASE UNCHANGED text
  BY <1>2 DEF TextOK
<1>3. UNCHANGED text \/ \E m \in sent : Serve(m)
  BY DEF Next, Operator, Answers, vars, server, voice, chat, Enter, Leave, Reload,
     HandleSaveSpecialist,
         HandleCreateSpecialist, ConfirmDeleteSpecialist, Post, AskDelete, HandleSaveMaster,
         NewChatAgent, CancelEditor, Render, HandleSave, HandleDelete, ChatPost, Select,
         ShowChannel, OpenChatAgent, HandleDeleteConfirm, Refetched, ServeLoad, LoadReturns,
         VoiceReturns, ChatReturns
<1> QED BY <1>1, <1>2, <1>3

\* IInv is inductive.
LEMMA IInvNext == IInv /\ [Next]_vars => IInv'
<1> SUFFICES ASSUME IInv, [Next]_vars PROVE IInv'
  OBVIOUS
<1>1. /\ TextOK /\ Stored
      /\ Mail /\ Rows /\ VoiceOK /\ SpecForm /\ Chat
  BY DEF IInv
<1>2. TextOK' /\ Stored'
  BY <1>1, TextNext, StoredNext
<1>3. Mail'
  BY <1>1, MailNext DEF VoiceOK, Chat
<1>4. Rows' /\ VoiceOK' /\ SpecForm' /\ Chat'
  BY <1>1, RowsNext, VoiceFormNext, SpecFormNext, ChatNext
<1> QED BY <1>2, <1>3, <1>4 DEF IInv

-----------------------------------------------------------------------------
\* In every reachable state the invariant holds.
THEOREM Invariant == Spec => []IInv
<1> QED BY InitIInv, IInvNext, PTL DEF Spec

\* The page, its requests and the server keep their types: in particular the
\* editor is mounted exactly while its conditions hold.
THEOREM TypeCorrect == Spec => []TypeOK
<1>1. IInv => TypeOK
  BY TypeParts DEF IInv, Mail, Rows, VoiceOK, Chat
<1> QED BY Invariant, <1>1, PTL

\* Whatever the order of loads, saves and clicks, a specialist never has the
\* text of another agent (handleSaveSpecialist, AgentsPage.tsx).
THEOREM SpecialistsKeep == Spec => []SpecialistsKeepText
<1>1. IInv => SpecialistsKeepText
  BY DEF IInv, Stored, SpecialistsKeepText, AgentIds
<1> QED BY Invariant, <1>1, PTL

\* Nor does a chat agent (handleSave of ChatAgentEditor.tsx).
THEOREM ChatAgentsKeep == Spec => []ChatAgentsKeepText
<1>1. IInv => ChatAgentsKeepText
  BY DEF IInv, Stored, ChatAgentsKeepText, AgentIds
<1> QED BY Invariant, <1>1, PTL


-----------------------------------------------------------------------------
(* The voice agent of a call. *)

USE DEF store, handler, button, agent, audio

Changes == {"take", "restore"} \X Agents

\* VoiceTypeOK, by the variables that change together.
StoreTypes ==
  /\ call \in {"connected", "ended"} /\ registered \in Agents \union {NoAgent}
  /\ active \in BOOLEAN /\ starting \in BOOLEAN /\ asking \in 0 .. MaxAsking
ButtonTypes ==
  /\ toggle \in {"idle", "starting", "detaching", "cleanup"}
  /\ awaited \in Agents \union {NoAgent}
AgentTypes ==
  /\ by \in [Agents -> {"nobody", "handler", "button"}]
  /\ phase \in [Agents -> {"none", "preparing", "connecting", "swapping", "live", "failed"}]
  /\ session \in [Agents -> {"none", "opening", "ready", "closed"}]
  /\ det \in [Agents -> {"no", "restoring", "done"}]
  /\ hangup \in [Agents -> {"no", "timer", "speaking"}]
AudioTypes ==
  /\ chain \in Seq(Changes) /\ track \in Agents \union {NoAgent} /\ micOn \in BOOLEAN
  /\ early \subseteq Agents

Types == StoreTypes /\ ButtonTypes /\ AgentTypes /\ AudioTypes

\* An agent has a session once connect() is called; one that nobody has created is
\* not registered, and neither detached nor told to hang up.
Fresh ==
  /\ \A a \in Agents : phase[a] \in {"none", "preparing"} => session[a] = "none"
  /\ \A a \in Agents : phase[a] = "none" => det[a] = "no" /\ hangup[a] = "no"
  /\ \A a \in Agents : registered = a => phase[a] # "none"

\* An agent that is detached before its start() returns is remembered.
Remembered == \A a \in Agents : Starting(a) /\ det[a] # "no" => a \in early

\* An agent that waits for the sender's track asked for it once.
TakesOnce ==
  \A i \in DOMAIN chain : chain[i][1] = "take" =>
    /\ phase[chain[i][2]] = "swapping"
    /\ \A j \in DOMAIN chain : chain[j] = chain[i] => j = i

\* A change of the track is of an agent that was created, and gives the track back
\* only if it is detached.
Created ==
  \A i \in DOMAIN chain :
    /\ phase[chain[i][2]] # "none"
    /\ chain[i][1] = "restore" => det[chain[i][2]] # "no"

\* The two cases of TrackReplaced: a gives the track back, or has it.
GivesBack(a) ==
  /\ chain[1] = <<"restore", a>>
  /\ track' = NoAgent /\ micOn' = TRUE /\ active' = FALSE
  /\ det' = [det EXCEPT ![a] = "done"] /\ session' = Closed(a)
  /\ phase' = phase /\ toggle' = toggle
HasTrack(a) ==
  /\ chain[1] = <<"take", a>> /\ phase[a] = "swapping"
  /\ track' = a /\ micOn' = FALSE /\ active' = TRUE
  /\ phase' = [phase EXCEPT ![a] = "live"]
  /\ det' = det /\ session' = session /\ toggle' \in {toggle, "idle"}

\* The microphone is off, or the call hears an agent, or the card says so, only while
\* an agent that took the audio has not given it back.
Taken ==
  early = {} /\ ~(micOn /\ track = NoAgent /\ ~active) =>
    \E a \in Agents : phase[a] = "live" /\ det[a] # "done"

VoiceIInv == Types /\ Fresh /\ Remembered /\ TakesOnce /\ Created /\ Taken

-----------------------------------------------------------------------------
\* detach() marks one agent at most, remembers it if its start() is under way, and
\* asks for the microphone's track.
LEMMA DetachShape ==
  ASSUME Types, NEW a \in Agents \union {NoAgent}, Detach(a)
  PROVE /\ det' \in [Agents -> {"no", "restoring", "done"}]
        /\ \A b \in Agents : det'[b] # det[b] =>
             b = a /\ det[b] = "no" /\ det'[b] = "restoring" /\ (Starting(b) => b \in early')
        /\ hangup' \in [Agents -> {"no", "timer", "speaking"}]
        /\ \A b \in Agents : hangup'[b] \in {hangup[b], "no"}
        /\ early \subseteq early' /\ early' \subseteq Agents
        /\ chain' = chain \/ (/\ a \in Agents /\ chain' = Append(chain, <<"restore", a>>)
                             /\ det'[a] # "no")
        /\ chain' \in Seq(Changes)
<1> USE DEF Types, AgentTypes, AudioTypes
<1>1. CASE a # NoAgent /\ det[a] = "no"
  <2>1. /\ det' = [det EXCEPT ![a] = "restoring"]
        /\ hangup' = [hangup EXCEPT ![a] = IF hangup[a] = "timer" THEN "no" ELSE hangup[a]]
        /\ chain' = Append(chain, <<"restore", a>>)
        /\ early' = IF Starting(a) THEN early \union {a} ELSE early
    BY <1>1 DEF Detach
  <2>2. chain' \in Seq(Changes)
    BY <1>1, <2>1 DEF Changes
  <2> QED BY <1>1, <2>1, <2>2
<1>2. CASE ~(a # NoAgent /\ det[a] = "no")
  BY <1>2 DEF Detach
<1> QED BY <1>1, <1>2

\* A change of the track is of an agent, and the rest of the chain stays.
LEMMA FirstChange ==
  ASSUME Types, chain # <<>>
  PROVE /\ chain[1] \in Changes /\ Head(chain) = chain[1]
        /\ Tail(chain) \in Seq(Changes) /\ Len(Tail(chain)) = Len(chain) - 1
        /\ \A i \in 1 .. Len(chain) - 1 : Tail(chain)[i] = chain[i + 1]
        /\ Len(chain) \in Nat \ {0}
BY DEF Types, AudioTypes

\* What TrackReplaced does, by the kind of the first change.
LEMMA ReplacedShape ==
  ASSUME Types, TakesOnce, TrackReplaced
  PROVE /\ chain' = Tail(chain) /\ chain # <<>>
        /\ UNCHANGED <<by, hangup, registered, early, call, starting, asking, awaited>>
        /\ \E a \in Agents : GivesBack(a) \/ HasTrack(a)
<1>1. chain # <<>> /\ chain' = Tail(chain)
  BY DEF TrackReplaced
<1>2. PICK kind \in {"take", "restore"}, a \in Agents : chain[1] = <<kind, a>>
  BY <1>1, FirstChange DEF Changes
<1>3. Head(chain) = <<kind, a>> /\ 1 \in DOMAIN chain
  BY <1>1, <1>2, FirstChange DEF Types, AudioTypes
<1>4. CASE kind = "restore"
  BY <1>1, <1>2, <1>3, <1>4 DEF TrackReplaced, Restore, GivesBack
<1>5. CASE kind = "take"
  <2>1. phase[a] = "swapping"
    BY <1>2, <1>3, <1>5 DEF TakesOnce
  <2> QED BY <1>1, <1>2, <1>3, <1>5, <2>1 DEF TrackReplaced, HasTrack
<1>6. UNCHANGED <<by, hangup, registered, early, call, starting, asking, awaited>>
  BY DEF TrackReplaced
<1> QED BY <1>1, <1>2, <1>4, <1>5, <1>6

\* The chain's takes are as they were when nothing, or a restore, joins it and no agent
\* that waits for the track goes on.
LEMMA TakesKept ==
  ASSUME Types, TakesOnce,
         chain' = chain \/ \E a \in Agents : chain' = Append(chain, <<"restore", a>>),
         \A a \in Agents : phase[a] = "swapping" => phase'[a] = "swapping"
  PROVE TakesOnce'
<1>1. \A i \in DOMAIN chain : chain[i] \in Changes /\ chain[i][2] \in Agents
  BY DEF Types, AudioTypes, Changes
<1>2. CASE chain' = chain
  BY <1>1, <1>2 DEF TakesOnce
<1>3. ASSUME NEW a \in Agents, chain' = Append(chain, <<"restore", a>>) PROVE TakesOnce'
  <2>1. /\ DOMAIN chain = 1 .. Len(chain) /\ Len(chain) \in Nat
        /\ DOMAIN chain' = 1 .. Len(chain) + 1
        /\ \A i \in 1 .. Len(chain) : chain'[i] = chain[i]
        /\ chain'[Len(chain) + 1] = <<"restore", a>>
    BY <1>3 DEF Types, AudioTypes
  <2>2. SUFFICES ASSUME NEW i \in DOMAIN chain', chain'[i][1] = "take"
                 PROVE /\ phase'[chain'[i][2]] = "swapping"
                       /\ \A j \in DOMAIN chain' : chain'[j] = chain'[i] => j = i
    BY DEF TakesOnce
  <2>3. i \in DOMAIN chain /\ chain[i] = chain'[i]
    BY <2>1, <2>2
  <2>4. /\ phase[chain[i][2]] = "swapping"
        /\ \A j \in DOMAIN chain : chain[j] = chain[i] => j = i
    BY <2>2, <2>3 DEF TakesOnce
  <2>5. ASSUME NEW j \in DOMAIN chain', chain'[j] = chain'[i] PROVE j = i
    BY <2>1, <2>2, <2>3, <2>4, <2>5
  <2> QED BY <1>1, <2>3, <2>4, <2>5
<1> QED BY <1>2, <1>3

\* Nobody forgets that an agent was created, or detached.
LEMMA Grows ==
  ASSUME Types, TakesOnce, [VoiceNext]_voiceVars, NEW a \in Agents
  PROVE /\ phase[a] # "none" => phase'[a] # "none"
        /\ det[a] # "no" => det'[a] # "no"
<1> USE DEF Types, AgentTypes
<1>1. CASE TrackReplaced
  <2>1. PICK b \in Agents : GivesBack(b) \/ HasTrack(b)
    BY <1>1, ReplacedShape
  <2>2. CASE GivesBack(b)
    BY <2>2 DEF GivesBack
  <2>3. CASE HasTrack(b)
    BY <2>3 DEF HasTrack
  <2> QED BY <2>1, <2>2, <2>3
<1>2. ASSUME NEW b \in Agents, Start(b) \/ HandlerCreates(b) \/ ToggleOn(b)
      PROVE /\ phase[a] # "none" => phase'[a] # "none"
            /\ det' = det
  BY <1>2 DEF Start, Prepared, SetupComplete, StartFails, HandlerCreates, ToggleOn, Create
<1>3. ASSUME NEW b \in Agents, Farewell(b)
      PROVE phase' = phase /\ (det[a] # "no" => det'[a] # "no")
  BY <1>3 DEF Farewell
<1>4. ASSUME NEW b \in Agents \union {NoAgent}, Detach(b), phase' = phase
      PROVE det[a] # "no" => det'[a] # "no"
  BY <1>4, DetachShape
<1>5. CASE phase' = phase /\ det' = det
  BY <1>5
<1>6. CASE phase' = phase /\ Detach(registered)
  BY <1>4, <1>6 DEF StoreTypes
<1> QED BY <1>1, <1>2, <1>3, <1>4, <1>5, <1>6
     DEF VoiceNext, Hangup, NoticeConnected, OldList, HandlerDeclines, ToggleOff,
     ToggleCatches, ToggleDone, CallEnded, HangupTimer, SessionDies, HangupTool, voiceVars

\* An agent that joins the chain was created.
LEMMA CreatedKept ==
  ASSUME Types, TakesOnce, Created, [VoiceNext]_voiceVars, NEW a \in Agents, phase[a] # "none",
         NEW kind \in {"take", "restore"}, kind = "restore" => det'[a] # "no",
         chain' \in {chain, Append(chain, <<kind, a>>)}
  PROVE Created'
<1>1. \A i \in DOMAIN chain : chain[i][2] \in Agents
  BY DEF Types, AudioTypes, Changes
<1>2. CASE chain' = chain
  BY <1>1, <1>2, Grows DEF Created
<1>3. CASE chain' = Append(chain, <<kind, a>>)
  <2>1. ASSUME NEW i \in DOMAIN chain'
        PROVE chain'[i] = <<kind, a>> \/ (i \in DOMAIN chain /\ chain'[i] = chain[i])
    BY <1>3 DEF Types, AudioTypes
  <2> QED BY <1>1, <2>1, Grows DEF Created
<1> QED BY <1>2, <1>3

\* Every step keeps StoreTypes.
LEMMA StoreTypesNext ==
  Types /\ [VoiceNext]_voiceVars => StoreTypes'
<1> SUFFICES ASSUME Types, [VoiceNext]_voiceVars PROVE StoreTypes'
  OBVIOUS
<1> USE DEF Types, StoreTypes
<1>1. ASSUME TrackReplaced PROVE StoreTypes'
  BY <1>1 DEF TrackReplaced, Restore, Closed
<1>2. ASSUME NoticeConnected PROVE StoreTypes'
  BY <1>2 DEF NoticeConnected, MaxAsking
<1>3. ASSUME OldList PROVE StoreTypes'
  BY <1>3 DEF OldList
<1>4. ASSUME HandlerDeclines PROVE StoreTypes'
  <2>1. asking' \in 0 .. MaxAsking
    BY <1>4 DEF HandlerDeclines, MaxAsking
  <2> QED BY <1>4, <2>1 DEF HandlerDeclines
<1>5. ASSUME ToggleOff PROVE StoreTypes'
  BY <1>5 DEF ToggleOff, Await
<1>6. ASSUME ToggleCatches PROVE StoreTypes'
  BY <1>6 DEF ToggleCatches, Await
<1>7. ASSUME ToggleDone PROVE StoreTypes'
  BY <1>7 DEF ToggleDone
<1>8. ASSUME CallEnded PROVE StoreTypes'
  BY <1>8 DEF CallEnded
<1>9. ASSUME NEW a \in Agents, Prepared(a) PROVE StoreTypes'
  BY <1>9 DEF Prepared
<1>10. ASSUME NEW a \in Agents, SetupComplete(a) PROVE StoreTypes'
  BY <1>10 DEF SetupComplete
<1>11. ASSUME NEW a \in Agents, StartFails(a) PROVE StoreTypes'
  BY <1>11 DEF StartFails, Closed
<1>12. ASSUME NEW a \in Agents, HangupTimer(a) PROVE StoreTypes'
  BY <1>12 DEF HangupTimer
<1>13. ASSUME NEW a \in Agents, Farewell(a) PROVE StoreTypes'
  BY <1>13 DEF Farewell
<1>14. ASSUME NEW a \in Agents, HandlerCreates(a) PROVE StoreTypes'
  BY <1>14 DEF HandlerCreates, Create, MaxAsking
<1>15. ASSUME NEW a \in Agents, ToggleOn(a) PROVE StoreTypes'
  BY <1>15 DEF ToggleOn, Create
<1>16. ASSUME NEW a \in Agents, SessionDies(a) PROVE StoreTypes'
  BY <1>16 DEF SessionDies, Closed
<1>17. ASSUME NEW a \in Agents, HangupTool(a) PROVE StoreTypes'
  BY <1>17 DEF HangupTool
<1>18. CASE UNCHANGED voiceVars
  BY <1>18 DEF voiceVars
<1> QED BY <1>1, <1>2, <1>3, <1>4, <1>5, <1>6, <1>7, <1>8, <1>9, <1>10, <1>11, <1>12, <1>13,
     <1>14, <1>15, <1>16, <1>17, <1>18 DEF VoiceNext, Start, Hangup

\* Every step keeps ButtonTypes.
LEMMA ButtonTypesNext ==
  Types /\ [VoiceNext]_voiceVars => ButtonTypes'
<1> SUFFICES ASSUME Types, [VoiceNext]_voiceVars PROVE ButtonTypes'
  OBVIOUS
<1> USE DEF Types, StoreTypes, ButtonTypes
<1>1. ASSUME TrackReplaced PROVE ButtonTypes'
  BY <1>1 DEF TrackReplaced, Restore, Closed
<1>2. ASSUME NoticeConnected PROVE ButtonTypes'
  BY <1>2 DEF NoticeConnected
<1>3. ASSUME OldList PROVE ButtonTypes'
  BY <1>3 DEF OldList
<1>4. ASSUME HandlerDeclines PROVE ButtonTypes'
  BY <1>4 DEF HandlerDeclines
<1>5. ASSUME ToggleOff PROVE ButtonTypes'
  BY <1>5 DEF ToggleOff, Await
<1>6. ASSUME ToggleCatches PROVE ButtonTypes'
  BY <1>6 DEF ToggleCatches, Await
<1>7. ASSUME ToggleDone PROVE ButtonTypes'
  BY <1>7 DEF ToggleDone
<1>8. ASSUME CallEnded PROVE ButtonTypes'
  BY <1>8 DEF CallEnded
<1>9. ASSUME NEW a \in Agents, Prepared(a) PROVE ButtonTypes'
  BY <1>9 DEF Prepared
<1>10. ASSUME NEW a \in Agents, SetupComplete(a) PROVE ButtonTypes'
  BY <1>10 DEF SetupComplete
<1>11. ASSUME NEW a \in Agents, StartFails(a) PROVE ButtonTypes'
  BY <1>11 DEF StartFails, Closed
<1>12. ASSUME NEW a \in Agents, HangupTimer(a) PROVE ButtonTypes'
  BY <1>12 DEF HangupTimer
<1>13. ASSUME NEW a \in Agents, Farewell(a) PROVE ButtonTypes'
  BY <1>13 DEF Farewell
<1>14. ASSUME NEW a \in Agents, HandlerCreates(a) PROVE ButtonTypes'
  BY <1>14 DEF HandlerCreates, Create
<1>15. ASSUME NEW a \in Agents, ToggleOn(a) PROVE ButtonTypes'
  BY <1>15 DEF ToggleOn, Create
<1>16. ASSUME NEW a \in Agents, SessionDies(a) PROVE ButtonTypes'
  BY <1>16 DEF SessionDies, Closed
<1>17. ASSUME NEW a \in Agents, HangupTool(a) PROVE ButtonTypes'
  BY <1>17 DEF HangupTool
<1>18. CASE UNCHANGED voiceVars
  BY <1>18 DEF voiceVars
<1> QED BY <1>1, <1>2, <1>3, <1>4, <1>5, <1>6, <1>7, <1>8, <1>9, <1>10, <1>11, <1>12, <1>13,
     <1>14, <1>15, <1>16, <1>17, <1>18 DEF VoiceNext, Start, Hangup

\* Every step keeps AgentTypes.
LEMMA AgentTypesNext ==
  Types /\ [VoiceNext]_voiceVars => AgentTypes'
<1> SUFFICES ASSUME Types, [VoiceNext]_voiceVars PROVE AgentTypes'
  OBVIOUS
<1> USE DEF Types, AgentTypes
<1>1. ASSUME TrackReplaced PROVE AgentTypes'
  BY <1>1 DEF TrackReplaced, Restore, Closed
<1>2. ASSUME NoticeConnected PROVE AgentTypes'
  BY <1>2 DEF NoticeConnected
<1>3. ASSUME OldList PROVE AgentTypes'
  BY <1>3 DEF OldList
<1>4. ASSUME HandlerDeclines PROVE AgentTypes'
  BY <1>4 DEF HandlerDeclines
<1>5. ASSUME ToggleOff PROVE AgentTypes'
  <2>1. Detach(registered) /\ registered \in Agents \union {NoAgent}
    BY <1>5 DEF ToggleOff, StoreTypes
  <2> QED BY <1>5, <2>1, DetachShape DEF ToggleOff
<1>6. ASSUME ToggleCatches PROVE AgentTypes'
  <2>1. Detach(registered) /\ registered \in Agents \union {NoAgent}
    BY <1>6 DEF ToggleCatches, StoreTypes
  <2> QED BY <1>6, <2>1, DetachShape DEF ToggleCatches
<1>7. ASSUME ToggleDone PROVE AgentTypes'
  BY <1>7 DEF ToggleDone
<1>8. ASSUME CallEnded PROVE AgentTypes'
  <2>1. Detach(registered) /\ registered \in Agents \union {NoAgent}
    BY <1>8 DEF CallEnded, StoreTypes
  <2> QED BY <1>8, <2>1, DetachShape DEF CallEnded
<1>9. ASSUME NEW a \in Agents, Prepared(a) PROVE AgentTypes'
  BY <1>9 DEF Prepared
<1>10. ASSUME NEW a \in Agents, SetupComplete(a) PROVE AgentTypes'
  BY <1>10 DEF SetupComplete
<1>11. ASSUME NEW a \in Agents, StartFails(a) PROVE AgentTypes'
  BY <1>11 DEF StartFails, Closed
<1>12. ASSUME NEW a \in Agents, HangupTimer(a) PROVE AgentTypes'
  BY <1>12 DEF HangupTimer
<1>13. ASSUME NEW a \in Agents, Farewell(a) PROVE AgentTypes'
  BY <1>13 DEF Farewell
<1>14. ASSUME NEW a \in Agents, HandlerCreates(a) PROVE AgentTypes'
  BY <1>14 DEF HandlerCreates, Create
<1>15. ASSUME NEW a \in Agents, ToggleOn(a) PROVE AgentTypes'
  BY <1>15 DEF ToggleOn, Create
<1>16. ASSUME NEW a \in Agents, SessionDies(a) PROVE AgentTypes'
  <2>1. Detach(a) /\ a \in Agents \union {NoAgent}
    BY <1>16 DEF SessionDies
  <2> QED BY <1>16, <2>1, DetachShape DEF SessionDies, Closed
<1>17. ASSUME NEW a \in Agents, HangupTool(a) PROVE AgentTypes'
  BY <1>17 DEF HangupTool
<1>18. CASE UNCHANGED voiceVars
  BY <1>18 DEF voiceVars
<1> QED BY <1>1, <1>2, <1>3, <1>4, <1>5, <1>6, <1>7, <1>8, <1>9, <1>10, <1>11, <1>12, <1>13,
     <1>14, <1>15, <1>16, <1>17, <1>18 DEF VoiceNext, Start, Hangup

\* Every step keeps AudioTypes.
LEMMA AudioTypesNext ==
  Types /\ TakesOnce /\ [VoiceNext]_voiceVars => AudioTypes'
<1> SUFFICES ASSUME Types, TakesOnce, [VoiceNext]_voiceVars PROVE AudioTypes'
  OBVIOUS
<1> USE DEF Types, AudioTypes, Changes
<1>1. ASSUME TrackReplaced PROVE AudioTypes'
  <2>1. chain' \in Seq(Changes) /\ early' = early
    BY <1>1, FirstChange, ReplacedShape
  <2>2. track' \in Agents \union {NoAgent} /\ micOn' \in BOOLEAN
    BY <1>1, ReplacedShape DEF GivesBack, HasTrack
  <2> QED BY <2>1, <2>2
<1>2. ASSUME NoticeConnected PROVE AudioTypes'
  BY <1>2 DEF NoticeConnected
<1>3. ASSUME OldList PROVE AudioTypes'
  BY <1>3 DEF OldList
<1>4. ASSUME HandlerDeclines PROVE AudioTypes'
  BY <1>4 DEF HandlerDeclines
<1>5. ASSUME ToggleOff PROVE AudioTypes'
  <2>1. Detach(registered) /\ registered \in Agents \union {NoAgent}
    BY <1>5 DEF ToggleOff, StoreTypes
  <2>2. chain' \in Seq(Changes)
    BY <2>1, DetachShape
  <2> QED BY <1>5, <2>1, <2>2, DetachShape DEF ToggleOff
<1>6. ASSUME ToggleCatches PROVE AudioTypes'
  <2>1. Detach(registered) /\ registered \in Agents \union {NoAgent}
    BY <1>6 DEF ToggleCatches, StoreTypes
  <2>2. chain' \in Seq(Changes)
    BY <2>1, DetachShape
  <2> QED BY <1>6, <2>1, <2>2, DetachShape DEF ToggleCatches
<1>7. ASSUME ToggleDone PROVE AudioTypes'
  BY <1>7 DEF ToggleDone
<1>8. ASSUME CallEnded PROVE AudioTypes'
  <2>1. Detach(registered) /\ registered \in Agents \union {NoAgent}
    BY <1>8 DEF CallEnded, StoreTypes
  <2>2. chain' \in Seq(Changes)
    BY <2>1, DetachShape
  <2> QED BY <1>8, <2>1, <2>2, DetachShape DEF CallEnded
<1>9. ASSUME NEW a \in Agents, Prepared(a) PROVE AudioTypes'
  BY <1>9 DEF Prepared
<1>10. ASSUME NEW a \in Agents, SetupComplete(a) PROVE AudioTypes'
  BY <1>10 DEF SetupComplete
<1>11. ASSUME NEW a \in Agents, StartFails(a) PROVE AudioTypes'
  BY <1>11 DEF StartFails, Closed
<1>12. ASSUME NEW a \in Agents, HangupTimer(a) PROVE AudioTypes'
  BY <1>12 DEF HangupTimer
<1>13. ASSUME NEW a \in Agents, Farewell(a) PROVE AudioTypes'
  <2>1. CASE det[a] = "no"
    <3>1. chain' = Append(chain, <<"restore", a>>) /\ <<"restore", a>> \in Changes
      BY <1>13, <2>1 DEF Farewell
    <3>2. early' \subseteq Agents /\ track' = track /\ micOn' = micOn
      BY <1>13, <2>1 DEF Farewell
    <3> QED BY <3>1, <3>2
  <2>2. CASE det[a] # "no"
    BY <1>13, <2>2 DEF Farewell
  <2> QED BY <2>1, <2>2
<1>14. ASSUME NEW a \in Agents, HandlerCreates(a) PROVE AudioTypes'
  BY <1>14 DEF HandlerCreates, Create
<1>15. ASSUME NEW a \in Agents, ToggleOn(a) PROVE AudioTypes'
  BY <1>15 DEF ToggleOn, Create
<1>16. ASSUME NEW a \in Agents, SessionDies(a) PROVE AudioTypes'
  <2>1. Detach(a) /\ a \in Agents \union {NoAgent}
    BY <1>16 DEF SessionDies
  <2>2. chain' \in Seq(Changes)
    BY <2>1, DetachShape
  <2> QED BY <1>16, <2>1, <2>2, DetachShape DEF SessionDies
<1>17. ASSUME NEW a \in Agents, HangupTool(a) PROVE AudioTypes'
  BY <1>17 DEF HangupTool
<1>18. CASE UNCHANGED voiceVars
  BY <1>18 DEF voiceVars
<1> QED BY <1>1, <1>2, <1>3, <1>4, <1>5, <1>6, <1>7, <1>8, <1>9, <1>10, <1>11, <1>12, <1>13,
     <1>14, <1>15, <1>16, <1>17, <1>18 DEF VoiceNext, Start, Hangup

\* Every step keeps Fresh.
LEMMA FreshNext ==
  Types /\ TakesOnce /\ Created /\ Fresh /\ [VoiceNext]_voiceVars => Fresh'
<1> SUFFICES ASSUME Types, TakesOnce, Created, Fresh, [VoiceNext]_voiceVars PROVE Fresh'
  OBVIOUS
<1> USE DEF Types, AgentTypes, Fresh
<1>1. ASSUME TrackReplaced PROVE Fresh'
  <2>1. PICK a \in Agents : GivesBack(a) \/ HasTrack(a)
    BY <1>1, ReplacedShape
  <2>2. hangup' = hangup /\ registered' = registered
    BY <1>1, ReplacedShape
  <2>3. CASE GivesBack(a)
    <3>1. phase[a] # "none"
      <4>1. 1 \in DOMAIN chain
        BY <1>1, FirstChange, ReplacedShape DEF AudioTypes
      <4>2. chain[1][1] = "restore" /\ chain[1][2] = a
        BY <2>3 DEF GivesBack
      <4> QED BY <4>1, <4>2 DEF Created
    <3> QED BY <2>2, <2>3, <3>1 DEF GivesBack, Closed
  <2>4. CASE HasTrack(a)
    BY <2>2, <2>4 DEF HasTrack
  <2> QED BY <2>1, <2>3, <2>4
<1>2. ASSUME NoticeConnected PROVE Fresh'
  BY <1>2 DEF NoticeConnected
<1>3. ASSUME OldList PROVE Fresh'
  BY <1>3 DEF OldList
<1>4. ASSUME HandlerDeclines PROVE Fresh'
  BY <1>4 DEF HandlerDeclines
<1>5. ASSUME ToggleOff PROVE Fresh'
  <2>1. Detach(registered) /\ registered \in Agents \union {NoAgent}
    BY <1>5 DEF ToggleOff, StoreTypes
  <2>2. /\ registered' = registered
        /\ phase' = phase
        /\ session' = session
    BY <1>5 DEF ToggleOff
  <2>3. registered # NoAgent => phase[registered] # "none"
    BY <1>5, VoiceAgentsAssumption DEF ToggleOff, StoreTypes
  <2> QED BY <1>5, <2>1, <2>2, <2>3, DetachShape, VoiceAgentsAssumption
<1>6. ASSUME ToggleCatches PROVE Fresh'
  <2>1. Detach(registered) /\ registered \in Agents \union {NoAgent}
    BY <1>6 DEF ToggleCatches, StoreTypes
  <2>2. /\ registered' = registered
        /\ phase' = phase
        /\ session' = session
    BY <1>6 DEF ToggleCatches
  <2>3. registered # NoAgent => phase[registered] # "none"
    BY <1>6, VoiceAgentsAssumption DEF ToggleCatches, StoreTypes
  <2> QED BY <1>6, <2>1, <2>2, <2>3, DetachShape, VoiceAgentsAssumption
<1>7. ASSUME ToggleDone PROVE Fresh'
  BY <1>7, VoiceAgentsAssumption DEF ToggleDone
<1>8. ASSUME CallEnded PROVE Fresh'
  <2>1. Detach(registered) /\ registered \in Agents \union {NoAgent}
    BY <1>8 DEF CallEnded, StoreTypes
  <2>2. /\ registered' = NoAgent
        /\ phase' = phase
        /\ session' = session
    BY <1>8 DEF CallEnded
  <2>3. registered # NoAgent => phase[registered] # "none"
    BY <1>8, VoiceAgentsAssumption DEF CallEnded, StoreTypes
  <2> QED BY <1>8, <2>1, <2>2, <2>3, DetachShape, VoiceAgentsAssumption
<1>9. ASSUME NEW a \in Agents, Prepared(a) PROVE Fresh'
  BY <1>9 DEF Prepared
<1>10. ASSUME NEW a \in Agents, SetupComplete(a) PROVE Fresh'
  BY <1>10 DEF SetupComplete
<1>11. ASSUME NEW a \in Agents, StartFails(a) PROVE Fresh'
  BY <1>11, VoiceAgentsAssumption DEF StartFails, Closed
<1>12. ASSUME NEW a \in Agents, HangupTimer(a) PROVE Fresh'
  BY <1>12 DEF HangupTimer
<1>13. ASSUME NEW a \in Agents, Farewell(a) PROVE Fresh'
  BY <1>13 DEF Farewell
<1>14. ASSUME NEW a \in Agents, HandlerCreates(a) PROVE Fresh'
  BY <1>14 DEF HandlerCreates, Create
<1>15. ASSUME NEW a \in Agents, ToggleOn(a) PROVE Fresh'
  BY <1>15 DEF ToggleOn, Create
<1>16. ASSUME NEW a \in Agents, SessionDies(a) PROVE Fresh'
  <2>1. Detach(a) /\ a \in Agents \union {NoAgent}
    BY <1>16 DEF SessionDies
  <2>2. /\ registered' = registered
        /\ phase' = phase
        /\ \A b \in Agents : session[b] = "none" => session'[b] = "none"
    BY <1>16 DEF SessionDies, Closed
  <2>3. a # NoAgent => phase[a] # "none"
    BY <1>16, VoiceAgentsAssumption DEF SessionDies
  <2> QED BY <1>16, <2>1, <2>2, <2>3, DetachShape, VoiceAgentsAssumption
<1>17. ASSUME NEW a \in Agents, HangupTool(a) PROVE Fresh'
  BY <1>17 DEF HangupTool
<1>18. CASE UNCHANGED voiceVars
  BY <1>18 DEF voiceVars
<1> QED BY <1>1, <1>2, <1>3, <1>4, <1>5, <1>6, <1>7, <1>8, <1>9, <1>10, <1>11, <1>12, <1>13,
     <1>14, <1>15, <1>16, <1>17, <1>18 DEF VoiceNext, Start, Hangup

\* Every step keeps Remembered.
LEMMA RememberedNext ==
  Types /\ Fresh /\ TakesOnce /\ Created /\ Remembered /\ [VoiceNext]_voiceVars => Remembered'
<1> SUFFICES ASSUME Types, Fresh, TakesOnce, Created, Remembered, [VoiceNext]_voiceVars
     PROVE Remembered'
  OBVIOUS
<1> USE DEF Types, AgentTypes, Remembered, Starting
<1>1. ASSUME TrackReplaced PROVE Remembered'
  <2>1. PICK a \in Agents : GivesBack(a) \/ HasTrack(a)
    BY <1>1, ReplacedShape
  <2>2. early' = early
    BY <1>1, ReplacedShape
  <2>3. CASE GivesBack(a)
    <3>1. det[a] # "no"
      <4>1. 1 \in DOMAIN chain
        BY <1>1, FirstChange, ReplacedShape DEF AudioTypes
      <4>2. chain[1][1] = "restore" /\ chain[1][2] = a
        BY <2>3 DEF GivesBack
      <4> QED BY <4>1, <4>2 DEF Created
    <3> QED BY <2>2, <2>3, <3>1 DEF GivesBack
  <2>4. CASE HasTrack(a)
    BY <2>2, <2>4 DEF HasTrack
  <2> QED BY <2>1, <2>3, <2>4
<1>2. ASSUME NoticeConnected PROVE Remembered'
  BY <1>2 DEF NoticeConnected
<1>3. ASSUME OldList PROVE Remembered'
  BY <1>3 DEF OldList
<1>4. ASSUME HandlerDeclines PROVE Remembered'
  BY <1>4 DEF HandlerDeclines
<1>5. ASSUME ToggleOff PROVE Remembered'
  <2>1. Detach(registered) /\ registered \in Agents \union {NoAgent}
    BY <1>5 DEF ToggleOff, StoreTypes
  <2>2. phase' = phase
    BY <1>5 DEF ToggleOff
  <2> QED BY <2>1, <2>2, DetachShape
<1>6. ASSUME ToggleCatches PROVE Remembered'
  <2>1. Detach(registered) /\ registered \in Agents \union {NoAgent}
    BY <1>6 DEF ToggleCatches, StoreTypes
  <2>2. phase' = phase
    BY <1>6 DEF ToggleCatches
  <2> QED BY <2>1, <2>2, DetachShape
<1>7. ASSUME ToggleDone PROVE Remembered'
  BY <1>7 DEF ToggleDone
<1>8. ASSUME CallEnded PROVE Remembered'
  <2>1. Detach(registered) /\ registered \in Agents \union {NoAgent}
    BY <1>8 DEF CallEnded, StoreTypes
  <2>2. phase' = phase
    BY <1>8 DEF CallEnded
  <2> QED BY <2>1, <2>2, DetachShape
<1>9. ASSUME NEW a \in Agents, Prepared(a) PROVE Remembered'
  BY <1>9 DEF Prepared
<1>10. ASSUME NEW a \in Agents, SetupComplete(a) PROVE Remembered'
  BY <1>10 DEF SetupComplete
<1>11. ASSUME NEW a \in Agents, StartFails(a) PROVE Remembered'
  BY <1>11 DEF StartFails, Closed
<1>12. ASSUME NEW a \in Agents, HangupTimer(a) PROVE Remembered'
  BY <1>12 DEF HangupTimer
<1>13. ASSUME NEW a \in Agents, Farewell(a) PROVE Remembered'
  BY <1>13 DEF Farewell
<1>14. ASSUME NEW a \in Agents, HandlerCreates(a) PROVE Remembered'
  BY <1>14 DEF HandlerCreates, Create, Fresh
<1>15. ASSUME NEW a \in Agents, ToggleOn(a) PROVE Remembered'
  BY <1>15 DEF ToggleOn, Create, Fresh
<1>16. ASSUME NEW a \in Agents, SessionDies(a) PROVE Remembered'
  <2>1. Detach(a) /\ a \in Agents \union {NoAgent}
    BY <1>16 DEF SessionDies
  <2>2. phase' = phase
    BY <1>16 DEF SessionDies
  <2> QED BY <2>1, <2>2, DetachShape
<1>17. ASSUME NEW a \in Agents, HangupTool(a) PROVE Remembered'
  BY <1>17 DEF HangupTool
<1>18. CASE UNCHANGED voiceVars
  BY <1>18 DEF voiceVars
<1> QED BY <1>1, <1>2, <1>3, <1>4, <1>5, <1>6, <1>7, <1>8, <1>9, <1>10, <1>11, <1>12, <1>13,
     <1>14, <1>15, <1>16, <1>17, <1>18 DEF VoiceNext, Start, Hangup

\* Every step keeps TakesOnce.
LEMMA TakesOnceNext ==
  Types /\ TakesOnce /\ [VoiceNext]_voiceVars => TakesOnce'
<1> SUFFICES ASSUME Types, TakesOnce, [VoiceNext]_voiceVars PROVE TakesOnce'
  OBVIOUS
<1> USE DEF Types, AgentTypes
<1>1. ASSUME TrackReplaced PROVE TakesOnce'
  <2>1. PICK a \in Agents : GivesBack(a) \/ HasTrack(a)
    BY <1>1, ReplacedShape
  <2>2. chain # <<>> /\ chain' = Tail(chain)
    BY <1>1, ReplacedShape
  <2>3. /\ DOMAIN chain = 1 .. Len(chain) /\ DOMAIN chain' = 1 .. Len(chain) - 1
        /\ Len(chain) \in Nat \ {0}
        /\ \A i \in DOMAIN chain' : chain'[i] = chain[i + 1]
    BY <2>2, FirstChange DEF Types, AudioTypes
  <2>4. SUFFICES ASSUME NEW i \in DOMAIN chain', chain'[i][1] = "take"
                 PROVE /\ phase'[chain'[i][2]] = "swapping"
                       /\ \A j \in DOMAIN chain' : chain'[j] = chain'[i] => j = i
    BY DEF TakesOnce
  <2>5. /\ i + 1 \in DOMAIN chain /\ 1 \in DOMAIN chain /\ chain'[i] = chain[i + 1]
        /\ i \in Nat \ {0}
    BY <2>3
  <2>6. /\ phase[chain[i + 1][2]] = "swapping"
        /\ \A j \in DOMAIN chain : chain[j] = chain[i + 1] => j = i + 1
    BY <2>4, <2>5 DEF TakesOnce
  <2>7. ASSUME NEW j \in DOMAIN chain', chain'[j] = chain'[i] PROVE j = i
    <3>1. j + 1 \in DOMAIN chain /\ chain[j + 1] = chain[i + 1] /\ j \in Nat
      BY <2>3, <2>5, <2>7
    <3> QED BY <2>5, <2>6, <3>1
  <2>8. PICK b \in Agents : chain[i + 1] = <<"take", b>>
    BY <2>4, <2>5 DEF Types, AudioTypes, Changes
  <2>9. phase'[b] = "swapping"
    <3>1. phase[b] = "swapping"
      BY <2>6, <2>8
    <3>2. HasTrack(a) => b # a
      BY <2>5, <2>6, <2>8 DEF HasTrack
    <3> QED BY <2>1, <3>1, <3>2 DEF GivesBack, HasTrack
  <2> QED BY <2>5, <2>7, <2>8, <2>9
<1>2. ASSUME NoticeConnected PROVE TakesOnce'
  BY <1>2, TakesKept DEF NoticeConnected
<1>3. ASSUME OldList PROVE TakesOnce'
  BY <1>3, TakesKept DEF OldList
<1>4. ASSUME HandlerDeclines PROVE TakesOnce'
  BY <1>4, TakesKept DEF HandlerDeclines
<1>5. ASSUME ToggleOff PROVE TakesOnce'
  <2>1. Detach(registered) /\ registered \in Agents \union {NoAgent}
    BY <1>5 DEF ToggleOff, StoreTypes
  <2>2. phase' = phase
    BY <1>5 DEF ToggleOff
  <2> QED BY <2>1, <2>2, DetachShape, TakesKept
<1>6. ASSUME ToggleCatches PROVE TakesOnce'
  <2>1. Detach(registered) /\ registered \in Agents \union {NoAgent}
    BY <1>6 DEF ToggleCatches, StoreTypes
  <2>2. phase' = phase
    BY <1>6 DEF ToggleCatches
  <2> QED BY <2>1, <2>2, DetachShape, TakesKept
<1>7. ASSUME ToggleDone PROVE TakesOnce'
  BY <1>7, TakesKept DEF ToggleDone
<1>8. ASSUME CallEnded PROVE TakesOnce'
  <2>1. Detach(registered) /\ registered \in Agents \union {NoAgent}
    BY <1>8 DEF CallEnded, StoreTypes
  <2>2. phase' = phase
    BY <1>8 DEF CallEnded
  <2> QED BY <2>1, <2>2, DetachShape, TakesKept
<1>9. ASSUME NEW a \in Agents, Prepared(a) PROVE TakesOnce'
  BY <1>9, TakesKept DEF Prepared
<1>10. ASSUME NEW a \in Agents, SetupComplete(a) PROVE TakesOnce'
  <2>1. /\ phase[a] = "connecting" /\ phase' = [phase EXCEPT ![a] = "swapping"]
        /\ chain' = Append(chain, <<"take", a>>)
    BY <1>10 DEF SetupComplete
  <2>2. /\ DOMAIN chain = 1 .. Len(chain) /\ Len(chain) \in Nat
        /\ DOMAIN chain' = 1 .. Len(chain) + 1
        /\ \A i \in 1 .. Len(chain) : chain'[i] = chain[i]
        /\ chain'[Len(chain) + 1] = <<"take", a>>
    BY <2>1 DEF Types, AudioTypes
  <2>3. \A i \in DOMAIN chain : chain[i] # <<"take", a>>
    BY <2>1 DEF TakesOnce
  <2>4. SUFFICES ASSUME NEW i \in DOMAIN chain', chain'[i][1] = "take"
                 PROVE /\ phase'[chain'[i][2]] = "swapping"
                       /\ \A j \in DOMAIN chain' : chain'[j] = chain'[i] => j = i
    BY DEF TakesOnce
  <2>5. CASE i = Len(chain) + 1
    BY <2>1, <2>2, <2>3, <2>5
  <2>6. CASE i \in DOMAIN chain
    <3>1. /\ phase[chain[i][2]] = "swapping" /\ chain'[i] = chain[i]
          /\ \A j \in DOMAIN chain : chain[j] = chain[i] => j = i
      BY <2>2, <2>4, <2>6 DEF TakesOnce
    <3>2. \A j \in DOMAIN chain' : chain'[j] = chain'[i] => j = i
      BY <2>2, <2>3, <2>6, <3>1
    <3>3. chain[i][2] \in Agents
      BY <2>6 DEF Types, AudioTypes, Changes
    <3> QED BY <2>1, <3>1, <3>2, <3>3
  <2> QED BY <2>2, <2>5, <2>6
<1>11. ASSUME NEW a \in Agents, StartFails(a) PROVE TakesOnce'
  BY <1>11, TakesKept DEF StartFails
<1>12. ASSUME NEW a \in Agents, HangupTimer(a) PROVE TakesOnce'
  BY <1>12, TakesKept DEF HangupTimer
<1>13. ASSUME NEW a \in Agents, Farewell(a) PROVE TakesOnce'
  BY <1>13, TakesKept DEF Farewell
<1>14. ASSUME NEW a \in Agents, HandlerCreates(a) PROVE TakesOnce'
  BY <1>14, TakesKept DEF HandlerCreates, Create
<1>15. ASSUME NEW a \in Agents, ToggleOn(a) PROVE TakesOnce'
  BY <1>15, TakesKept DEF ToggleOn, Create
<1>16. ASSUME NEW a \in Agents, SessionDies(a) PROVE TakesOnce'
  <2>1. Detach(a) /\ a \in Agents \union {NoAgent}
    BY <1>16 DEF SessionDies
  <2>2. phase' = phase
    BY <1>16 DEF SessionDies
  <2> QED BY <2>1, <2>2, DetachShape, TakesKept
<1>17. ASSUME NEW a \in Agents, HangupTool(a) PROVE TakesOnce'
  BY <1>17, TakesKept DEF HangupTool
<1>18. CASE UNCHANGED voiceVars
  BY <1>18, TakesKept DEF voiceVars
<1> QED BY <1>1, <1>2, <1>3, <1>4, <1>5, <1>6, <1>7, <1>8, <1>9, <1>10, <1>11, <1>12, <1>13,
     <1>14, <1>15, <1>16, <1>17, <1>18 DEF VoiceNext, Start, Hangup

\* Every step keeps Created.
LEMMA CreatedNext ==
  Types /\ Fresh /\ TakesOnce /\ Created /\ [VoiceNext]_voiceVars => Created'
<1> SUFFICES ASSUME Types, Fresh, TakesOnce, Created, [VoiceNext]_voiceVars PROVE Created'
  OBVIOUS
<1>1. CASE TrackReplaced
  <2>1. chain # <<>> /\ chain' = Tail(chain)
    BY <1>1, ReplacedShape
  <2>2. \A i \in DOMAIN chain' : i + 1 \in DOMAIN chain /\ chain'[i] = chain[i + 1]
    BY <2>1, FirstChange DEF Types, AudioTypes
  <2>3. \A i \in DOMAIN chain : chain[i][2] \in Agents
    BY DEF Types, AudioTypes, Changes
  <2> QED BY <2>2, <2>3, Grows DEF Created
<1>2. CASE chain' = chain
  <2>1. \A i \in DOMAIN chain : chain[i][2] \in Agents
    BY DEF Types, AudioTypes, Changes
  <2> QED BY <1>2, <2>1, Grows DEF Created
<1>3. ASSUME NEW a \in Agents, SetupComplete(a) PROVE Created'
  BY <1>3, CreatedKept DEF SetupComplete
<1>4. ASSUME NEW a \in Agents, Farewell(a) PROVE Created'
  <2>1. phase[a] # "none" /\ chain' \in {chain, Append(chain, <<"restore", a>>)}
    BY <1>4 DEF Farewell, Fresh
  <2>2. det'[a] # "no"
    BY <1>4 DEF Farewell, Types, AgentTypes
  <2> QED BY <2>1, <2>2, CreatedKept
<1>5. ASSUME NEW a \in Agents, SessionDies(a) PROVE Created'
  <2>1. phase[a] # "none" /\ Detach(a)
    BY <1>5 DEF SessionDies, Fresh
  <2>2. chain' = chain \/ (chain' = Append(chain, <<"restore", a>>) /\ det'[a] # "no")
    BY <2>1, DetachShape
  <2> QED BY <1>2, <2>1, <2>2, CreatedKept
<1>6. CASE Detach(registered)
  <2>1. registered \in Agents => phase[registered] # "none"
    BY DEF Fresh
  <2>2. registered \in Agents \union {NoAgent}
    BY DEF Types, StoreTypes
  <2>3. \/ chain' = chain
        \/ /\ registered \in Agents /\ chain' = Append(chain, <<"restore", registered>>)
           /\ det'[registered] # "no"
    BY <1>6, <2>2, DetachShape
  <2> QED BY <1>2, <2>1, <2>3, CreatedKept
<1> QED BY <1>1, <1>2, <1>3, <1>4, <1>5, <1>6
     DEF VoiceNext, Start, Hangup, NoticeConnected, OldList,
     HandlerDeclines, ToggleOff, ToggleCatches, ToggleDone, CallEnded, Prepared, StartFails,
     HangupTimer, HandlerCreates, ToggleOn, HangupTool, voiceVars

\* Every step keeps Taken.
LEMMA TakenNext ==
  Types /\ Remembered /\ TakesOnce /\ Taken /\ [VoiceNext]_voiceVars => Taken'
<1> SUFFICES ASSUME Types, Remembered, TakesOnce, Taken, [VoiceNext]_voiceVars PROVE Taken'
  OBVIOUS
<1> USE DEF Types, AgentTypes, Taken
<1>1. ASSUME TrackReplaced PROVE Taken'
  <2>1. PICK a \in Agents : GivesBack(a) \/ HasTrack(a)
    BY <1>1, ReplacedShape
  <2>2. CASE GivesBack(a)
    BY <2>2 DEF GivesBack
  <2>3. CASE HasTrack(a)
    <3>1. early' = {} => det[a] = "no"
      BY <2>3, <1>1, ReplacedShape DEF HasTrack, Remembered, Starting
    <3> QED BY <2>3, <3>1 DEF HasTrack
  <2> QED BY <2>1, <2>2, <2>3
<1>2. ASSUME NoticeConnected PROVE Taken'
  BY <1>2 DEF NoticeConnected
<1>3. ASSUME OldList PROVE Taken'
  BY <1>3 DEF OldList
<1>4. ASSUME HandlerDeclines PROVE Taken'
  BY <1>4 DEF HandlerDeclines
<1>5. ASSUME ToggleOff PROVE Taken'
  <2>1. Detach(registered) /\ registered \in Agents \union {NoAgent}
    BY <1>5 DEF ToggleOff, StoreTypes
  <2>2. phase' = phase /\ micOn' = micOn /\ track' = track /\ active' \in {active, FALSE}
    BY <1>5 DEF ToggleOff
  <2>3. early' = {} => early = {}
    BY <2>1, DetachShape
  <2>4. \A b \in Agents : det'[b] = "done" => det[b] = "done"
    BY <2>1, DetachShape
  <2> QED BY <2>2, <2>3, <2>4
<1>6. ASSUME ToggleCatches PROVE Taken'
  <2>1. Detach(registered) /\ registered \in Agents \union {NoAgent}
    BY <1>6 DEF ToggleCatches, StoreTypes
  <2>2. phase' = phase /\ micOn' = micOn /\ track' = track /\ active' \in {active, FALSE}
    BY <1>6 DEF ToggleCatches
  <2>3. early' = {} => early = {}
    BY <2>1, DetachShape
  <2>4. \A b \in Agents : det'[b] = "done" => det[b] = "done"
    BY <2>1, DetachShape
  <2> QED BY <2>2, <2>3, <2>4
<1>7. ASSUME ToggleDone PROVE Taken'
  BY <1>7 DEF ToggleDone
<1>8. ASSUME CallEnded PROVE Taken'
  <2>1. Detach(registered) /\ registered \in Agents \union {NoAgent}
    BY <1>8 DEF CallEnded, StoreTypes
  <2>2. phase' = phase /\ micOn' = micOn /\ track' = track /\ active' \in {active, FALSE}
    BY <1>8 DEF CallEnded
  <2>3. early' = {} => early = {}
    BY <2>1, DetachShape
  <2>4. \A b \in Agents : det'[b] = "done" => det[b] = "done"
    BY <2>1, DetachShape
  <2> QED BY <2>2, <2>3, <2>4
<1>9. ASSUME NEW a \in Agents, Prepared(a) PROVE Taken'
  BY <1>9 DEF Prepared
<1>10. ASSUME NEW a \in Agents, SetupComplete(a) PROVE Taken'
  BY <1>10 DEF SetupComplete
<1>11. ASSUME NEW a \in Agents, StartFails(a) PROVE Taken'
  BY <1>11 DEF StartFails, Closed
<1>12. ASSUME NEW a \in Agents, HangupTimer(a) PROVE Taken'
  BY <1>12 DEF HangupTimer
<1>13. ASSUME NEW a \in Agents, Farewell(a) PROVE Taken'
  BY <1>13 DEF Farewell
<1>14. ASSUME NEW a \in Agents, HandlerCreates(a) PROVE Taken'
  BY <1>14 DEF HandlerCreates, Create
<1>15. ASSUME NEW a \in Agents, ToggleOn(a) PROVE Taken'
  BY <1>15 DEF ToggleOn, Create
<1>16. ASSUME NEW a \in Agents, SessionDies(a) PROVE Taken'
  <2>1. Detach(a) /\ a \in Agents \union {NoAgent}
    BY <1>16 DEF SessionDies
  <2>2. phase' = phase /\ micOn' = micOn /\ track' = track /\ active' \in {active, FALSE}
    BY <1>16 DEF SessionDies
  <2>3. early' = {} => early = {}
    BY <2>1, DetachShape
  <2>4. \A b \in Agents : det'[b] = "done" => det[b] = "done"
    BY <2>1, DetachShape
  <2> QED BY <2>2, <2>3, <2>4
<1>17. ASSUME NEW a \in Agents, HangupTool(a) PROVE Taken'
  BY <1>17 DEF HangupTool
<1>18. CASE UNCHANGED voiceVars
  BY <1>18 DEF voiceVars
<1> QED BY <1>1, <1>2, <1>3, <1>4, <1>5, <1>6, <1>7, <1>8, <1>9, <1>10, <1>11, <1>12, <1>13,
     <1>14, <1>15, <1>16, <1>17, <1>18 DEF VoiceNext, Start, Hangup

-----------------------------------------------------------------------------
\* The strengthened invariant holds of every behaviour.
LEMMA Inductive == VoiceSpec => []VoiceIInv
<1>1. VoiceInit => VoiceIInv
  <2> SUFFICES ASSUME VoiceInit PROVE VoiceIInv
    OBVIOUS
  <2> USE DEF VoiceInit
  <2>1. StoreTypes
    <3>1. 0 \in 0 .. MaxAsking
      BY DEF MaxAsking
    <3> QED BY <3>1 DEF StoreTypes
  <2>2. ButtonTypes /\ AgentTypes /\ AudioTypes
    BY DEF ButtonTypes, AgentTypes, AudioTypes
  <2>3. Fresh
    BY VoiceAgentsAssumption DEF Fresh
  <2>4. Remembered /\ TakesOnce /\ Created /\ Taken
    BY DEF Remembered, TakesOnce, Created, Taken
  <2> QED BY <2>1, <2>2, <2>3, <2>4 DEF VoiceIInv, Types
<1>2. VoiceIInv /\ [VoiceNext]_voiceVars => VoiceIInv'
  BY StoreTypesNext, ButtonTypesNext, AgentTypesNext, AudioTypesNext, FreshNext, RememberedNext,
     TakesOnceNext, CreatedNext, TakenNext DEF VoiceIInv, Types
<1> QED BY <1>1, <1>2, PTL DEF VoiceSpec

\* Every variable keeps its type: an agent has no session before it calls connect(),
\* and the changes of the track under way are those of agents of the call.
THEOREM VoiceTypeCorrect == VoiceSpec => []VoiceTypeOK
<1>1. VoiceIInv => VoiceTypeOK
  BY DEF VoiceIInv, Types, StoreTypes, ButtonTypes, AgentTypes, AudioTypes, Fresh, Changes,
         VoiceTypeOK
<1> QED BY <1>1, Inductive, PTL

\* Once no agent is being started, talks or is being detached, the microphone is
\* enabled, it is what the call hears, and the card does not say that the AI is on.
THEOREM OperatorHeardCorrect == VoiceSpec => []OperatorHeard
<1>1. VoiceIInv => OperatorHeard
  BY DEF VoiceIInv, Taken, OperatorHeard, Settled
<1> QED BY <1>1, Inductive, PTL
=============================================================================
