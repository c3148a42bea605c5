------------------------------ MODULE WebLinks ------------------------------
(***************************************************************************)
(* The links of the web application (persistence/store.py and              *)
(* server/routers/links.py) between the requests of their owners and of    *)
(* the admin and the parser, which reads all of them now and then          *)
(* (get_all_links) and takes a link for unchanged when its key and its     *)
(* revision are those it saw before.                                       *)
(*                                                                         *)
(* sqlite3 opens a transaction at the first write: what a request has      *)
(* read before may have changed.  A request (edit) is at                   *)
(*   away     no request                                                   *)
(*   write    update_link has found the link                               *)
(*   answer   update_link has committed and reads the row for its answer   *)
(*   owner    create_link_any has found no user of that name               *)
(*   insert   the owner is known                                           *)
(* seen is a history: what the parser has read.                            *)
(***************************************************************************)
EXTENDS Integers

CONSTANTS Requests, Owners, Urls, Filters,
          WebAdmin,        \* the actor who may change every link
          MaxId, MaxRevision  \* bounds: links ever made, edits of one

ASSUME LinksAssumption ==
  /\ Owners # {} /\ Urls # {} /\ Filters # {}
  /\ WebAdmin \notin Owners
  /\ MaxId \in Nat /\ MaxRevision \in Nat

VARIABLES owners, links, lastId, edit, seen

linksVars == <<owners, links, lastId, edit, seen>>

Data == [url : Urls, filter : Filters]
Rows == [id : 1..MaxId, owner : Owners, data : Data, revision : 0..MaxRevision]

LinksTypeOK ==
  /\ owners \subseteq Owners
  /\ links \subseteq Rows
  /\ lastId \in 0..MaxId
  /\ edit \in [Requests -> [pc : {"away", "write", "answer", "owner", "insert"},
                    actor : Owners \cup {WebAdmin}, owner : Owners, id : 0..MaxId, data : Data]]
  /\ seen \subseteq [id : 1..MaxId, data : Data, revision : 0..MaxRevision]

SomeOwner == CHOOSE owner \in Owners : TRUE
SomeData == CHOOSE data \in Data : TRUE
NoRequest == [pc |-> "away", actor |-> WebAdmin, owner |-> SomeOwner, id |-> 0,
              data |-> SomeData]

LinksInit ==
  /\ owners \in SUBSET Owners
  /\ links = {} /\ lastId = 0
  /\ edit = [r \in Requests |-> NoRequest]
  /\ seen = {}

Proceeds(r, pc) == edit' = [edit EXCEPT ![r].pc = pc]
Closes(r) == edit' = [edit EXCEPT ![r] = NoRequest]

\* WHERE id = ? AND user_id = ?, without the owner for the admin.
Reaches(actor, id) ==
  {link \in links : link.id = id /\ (actor = WebAdmin \/ link.owner = actor)}

\* A session keeps its user: users are never deleted.
Actors == owners \cup {WebAdmin}

---------------------------------------------------------------------------

Register(owner) ==
  /\ owners' = owners \cup {owner}
  /\ UNCHANGED <<links, lastId, edit, seen>>

\* create_link; create_link_any reads the user first.
AskCreate(r, actor, owner, data) ==
  /\ edit[r].pc = "away"
  /\ actor # WebAdmin => owner = actor
  /\ edit' = [edit EXCEPT ![r] = [NoRequest EXCEPT
       !.pc = IF owner \in owners THEN "insert" ELSE "owner",
       !.actor = actor, !.owner = owner, !.data = data]]
  /\ UNCHANGED <<owners, links, lastId, seen>>

\* Mutant: without AUTOINCREMENT the id after the largest one is given.
InsertedAfterLargest(owner, data) ==
  /\ lastId < MaxId
  /\ lastId' = CHOOSE id \in 1..MaxId :
                 /\ \A link \in links : link.id < id
                 /\ id = 1 \/ \E link \in links : link.id = id - 1
  /\ links' = links \cup {[id |-> lastId', owner |-> owner, data |-> data, revision |-> 0]}

\* AUTOINCREMENT: an id is never given twice.
Inserted(owner, data) ==
  /\ lastId < MaxId
  /\ lastId' = lastId + 1
  /\ links' = links \cup {[id |-> lastId', owner |-> owner, data |-> data, revision |-> 0]}

\* The user and the link in one transaction, or neither when the name was
\* registered meanwhile: IntegrityError.
CreateOwner(r) ==
  /\ edit[r].pc = "owner"
  /\ \/ /\ edit[r].owner \notin owners
        /\ owners' = owners \cup {edit[r].owner}
        /\ Inserted(edit[r].owner, edit[r].data)
     \/ edit[r].owner \in owners /\ UNCHANGED <<owners, links, lastId>>
  /\ Closes(r)
  /\ UNCHANGED seen

CreateLink(r) ==
  /\ edit[r].pc = "insert"
  /\ Inserted(edit[r].owner, edit[r].data)
  /\ Closes(r)
  /\ UNCHANGED <<owners, seen>>

AskUpdate(r, actor, id, data) ==
  /\ edit[r].pc = "away"
  /\ Reaches(actor, id) # {}
  /\ edit' = [edit EXCEPT ![r] = [NoRequest EXCEPT
       !.pc = "write", !.actor = actor, !.id = id, !.data = data]]
  /\ UNCHANGED <<owners, links, lastId, seen>>

\* UPDATE ... SET revision = revision + 1: of no row when it is gone.
UpdateLink(r) ==
  LET found == Reaches(edit[r].actor, edit[r].id) IN
  /\ edit[r].pc = "write"
  /\ \A link \in found : link.revision < MaxRevision
  /\ links' = (links \ found) \cup
       {[link EXCEPT !.data = edit[r].data, !.revision = @ + 1] : link \in found}
  /\ Proceeds(r, "answer")
  /\ UNCHANGED <<owners, lastId, seen>>

\* The row as it is now, or an error for a row that is gone.
AnswerUpdate(r) ==
  /\ edit[r].pc = "answer"
  /\ Closes(r)
  /\ UNCHANGED <<owners, links, lastId, seen>>

DeleteLink(actor, id) ==
  /\ Reaches(actor, id) # {}
  /\ links' = links \ Reaches(actor, id)
  /\ UNCHANGED <<owners, lastId, edit, seen>>

\* get_all_links.
ReadAll ==
  /\ seen' = seen \cup {[id |-> link.id, data |-> link.data, revision |-> link.revision] :
                          link \in links}
  /\ UNCHANGED <<owners, links, lastId, edit>>

LinksNext ==
  \/ \E owner \in Owners : Register(owner)
  \/ \E r \in Requests :
       \/ \E actor \in Actors, owner \in Owners, data \in Data : AskCreate(r, actor, owner, data)
       \/ \E actor \in Actors, id \in 1..lastId, data \in Data : AskUpdate(r, actor, id, data)
       \/ CreateOwner(r) \/ CreateLink(r) \/ UpdateLink(r) \/ AnswerUpdate(r)
  \/ \E actor \in Actors, id \in 1..lastId : DeleteLink(actor, id)
  \/ ReadAll

LinksSpec == LinksInit /\ [][LinksNext]_linksVars

---------------------------------------------------------------------------
(* Properties. *)

\* web_link_key: the history of a subscription begins anew with its URL.
Key(id, url) == <<id, url>>

\* What the parser takes for the link it saw before is that link: no edit,
\* no deletion and no new link between two of its reads gives other data the
\* same key and the same revision.
SameRevisionSameLink ==
  \A s, t \in seen \cup {[id |-> l.id, data |-> l.data, revision |-> l.revision] : l \in links} :
    Key(s.id, s.data.url) = Key(t.id, t.data.url) /\ s.revision = t.revision =>
      s.data = t.data
=============================================================================
