---------------------------- MODULE ProjectProofs ----------------------------
(***************************************************************************)
(* Theorems about ProjectRevision and SceneTree, for any number of         *)
(* requests, processes and library deletions, any projects and assets and  *)
(* any finite set of objects.                                              *)
(***************************************************************************)
EXTENDS ProjectRevision, SceneTree, FiniteSetTheorems, TLAPS

-----------------------------------------------------------------------------
(* No update of a project is lost and a current ETag means current         *)
(* content.                                                                *)
(*                                                                         *)
(* What a client or a handler has read is never of a later revision than   *)
(* the project, so a commit can only make it stale, and as long as it is   *)
(* not stale every part that has been read is current.                     *)

\* view was read from a project that is now at revision rev with content con.
Fits(view, rev, con) ==
    /\ view.revision = Gone => DOMAIN view.parts = {}
    /\ view.revision \in Nat /\ rev \in Nat => view.revision <= rev
    /\ view.revision = rev => \A p \in DOMAIN view.parts : view.parts[p] = con[p]

ViewsFit == /\ \A r \in Request : Fits(seen[r], revision, content)
            /\ \A r \in Request : Fits(draft[r], revision, content)

GoneIsBlank == revision = Gone => content = [p \in Part |-> {}]

Started == \A r \in Request :
               /\ at[r] = "reading" => seen[r].revision # Gone
               /\ at[r] = "loading" => draft[r].revision # Gone
               /\ at[r] = "asking" => Complete(draft[r], kind[r])

ProjectInv == TypeOK /\ ViewsFit /\ GoneIsBlank /\ Started

-----------------------------------------------------------------------------
(* Views.                                                                  *)

(* What a view consists of: some of the parts, each a set of writers.      *)
LEMMA ViewParts ==
    ASSUME NEW view \in View
    PROVE  /\ view.revision \in Nat \cup {Gone}
           /\ DOMAIN view.parts \subseteq Part
           /\ view.parts \in [DOMAIN view.parts -> SUBSET Writer]
           /\ view = [revision |-> view.revision, parts |-> view.parts]
<1>1. PICK S \in SUBSET Part : view.parts \in [S -> SUBSET Writer]
  BY DEF View
<1>2. DOMAIN view.parts = S
  BY <1>1
<1> QED
  BY <1>1, <1>2 DEF View

(* Any parts at any revision make a view.                                  *)
LEMMA MakeView ==
    ASSUME NEW rev \in Nat \cup {Gone}, NEW S \in SUBSET Part, NEW f \in [S -> SUBSET Writer]
    PROVE  [revision |-> rev, parts |-> f] \in View
<1>1. f \in UNION {[T -> SUBSET Writer] : T \in SUBSET Part}
  OBVIOUS
<1> QED
  BY <1>1 DEF View

(* A load that has read only the revision is a view of the project.        *)
LEMMA BeginFits ==
    ASSUME TypeOK, revision # Gone, NEW view
    PROVE  /\ Begin(view) \in View
           /\ Fits(Begin(view), revision, content)
<1>1. [p \in {} |-> {}] \in [{} -> SUBSET Writer]
  OBVIOUS
<1>2. Begin(view) \in View
  BY <1>1, MakeView DEF Begin, TypeOK
<1> QED
  BY <1>2 DEF Begin, Fits, TypeOK

(* Reading one more part keeps a view of the project.                      *)
LEMMA ReadOnFits ==
    ASSUME TypeOK, NEW view \in View, Fits(view, revision, content),
           view.revision # Gone, NEW p \in Part
    PROVE  /\ ReadOn(view, p) \in View
           /\ Fits(ReadOn(view, p), revision, content)
           /\ ReadOn(view, p).revision = view.revision
<1> DEFINE S == DOMAIN view.parts \cup {p}
           f == [q \in S |-> IF q = p THEN content[p] ELSE view.parts[q]]
<1>1. view = [revision |-> view.revision, parts |-> view.parts]
  BY ViewParts
<1>2. ReadOn(view, p) = [revision |-> view.revision, parts |-> f]
  BY <1>1 DEF ReadOn
<1>3. S \in SUBSET Part /\ f \in [S -> SUBSET Writer]
  BY ViewParts DEF TypeOK
<1>4. ReadOn(view, p) \in View
  <2> HIDE DEF S, f
  <2> QED BY <1>2, <1>3, MakeView, ViewParts
<1>5. Fits(ReadOn(view, p), revision, content)
  BY <1>2 DEF Fits
<1> QED
  BY <1>2, <1>4, <1>5

(* A project that advances, or is deleted, leaves every view behind.       *)
LEMMA FitsLater ==
    ASSUME NEW view \in View, NEW rev \in Nat, NEW con, NEW later, NEW others,
           Fits(view, rev, con), later = rev + 1 \/ later = Gone
    PROVE  Fits(view, later, others)
<1>1. view.revision \in Nat \cup {Gone}
  BY ViewParts
<1> QED
  BY <1>1, ProjectAssumption DEF Fits

-----------------------------------------------------------------------------
(* Commits.                                                                *)

(* After a commit every view that was read before it still fits.           *)
LEMMA AdvanceFacts ==
    ASSUME ProjectInv, NEW r \in Request, NEW S \in SUBSET Part,
           NEW parts \in [S -> SUBSET Writer], Advance(r, parts)
    PROVE  /\ revision \in Nat /\ revision' = revision + 1
           /\ content' \in [Part -> SUBSET Writer]
           /\ \A s \in Request : /\ Fits(seen[s], revision', content')
                                 /\ Fits(draft[s], revision', content')
<1>1. revision \in Nat /\ revision' = revision + 1
  BY DEF ProjectInv, TypeOK, Advance
<1>2. content' \in [Part -> SUBSET Writer]
  BY DEF ProjectInv, TypeOK, Advance
<1>3. ASSUME NEW s \in Request
      PROVE  Fits(seen[s], revision', content') /\ Fits(draft[s], revision', content')
  <2>1. seen[s] \in View /\ draft[s] \in View
    BY DEF ProjectInv, TypeOK
  <2>2. Fits(seen[s], revision, content) /\ Fits(draft[s], revision, content)
    BY DEF ProjectInv, ViewsFit
  <2> QED
    BY <1>1, <2>1, <2>2, FitsLater
<1> QED
  BY <1>1, <1>2, <1>3

(* A commit from a draft replaces what the draft shows.                    *)
LEMMA DraftIsReplaced ==
    ASSUME ProjectInv, NEW r \in Request, kind[r] # "scene",
           NEW changed \in SUBSET Read(kind[r]), Advance(r, Written(r, changed))
    PROVE  /\ changed \subseteq DOMAIN draft[r].parts
           /\ Written(r, changed) \in [changed -> SUBSET Writer]
           /\ Expected(r) = revision
           /\ \A p \in DOMAIN draft[r].parts : draft[r].parts[p] = content[p]
<1>1. draft[r] \in View
  BY DEF ProjectInv, TypeOK
<1>2. DOMAIN draft[r].parts = Read(kind[r])
  BY DEF Advance, Committing, Complete, ProjectInv, Started
<1>3. Expected(r) = draft[r].revision /\ draft[r].revision = revision
  BY DEF Advance, Expected
<1>4. Fits(draft[r], revision, content)
  BY DEF ProjectInv, ViewsFit
<1>5. Written(r, changed) \in [changed -> SUBSET Writer]
  BY <1>1, <1>2, ViewParts DEF Written, Writer
<1> QED
  BY <1>2, <1>3, <1>4, <1>5 DEF Fits

(* The answer to a commit shows the project as the commit left it.         *)
LEMMA AnswerFits ==
    ASSUME ProjectInv, NEW r \in Request, kind[r] # "scene",
           NEW changed \in SUBSET Read(kind[r]), Advance(r, Written(r, changed)),
           NEW answer, answer = [revision |-> Expected(r) + 1, parts |-> WithChange(r, changed)]
    PROVE  /\ answer \in View
           /\ Fits(answer, revision', content')
           /\ DOMAIN answer.parts = DOMAIN draft[r].parts
<1>1. /\ changed \subseteq DOMAIN draft[r].parts
      /\ Expected(r) = revision
      /\ \A p \in DOMAIN draft[r].parts : draft[r].parts[p] = content[p]
  BY DraftIsReplaced
<1>2. draft[r] \in View
  BY DEF ProjectInv, TypeOK
<1>3. revision \in Nat /\ revision' = revision + 1
  BY DEF ProjectInv, TypeOK, Advance
<1>4. /\ DOMAIN WithChange(r, changed) = DOMAIN draft[r].parts
      /\ DOMAIN draft[r].parts \in SUBSET Part
      /\ WithChange(r, changed) \in [DOMAIN draft[r].parts -> SUBSET Writer]
  BY <1>2, ViewParts DEF WithChange, Writer
<1>5. answer \in View
  BY <1>1, <1>3, <1>4, MakeView
<1>6. ASSUME NEW p \in DOMAIN draft[r].parts
      PROVE  WithChange(r, changed)[p] = content'[p]
  <2>1. p \in Part
    BY <1>4
  <2>2. DOMAIN Written(r, changed) = changed
    BY DEF Written
  <2>3. CASE p \in changed
    BY <1>1, <2>1, <2>2, <2>3 DEF Advance, Written, WithChange
  <2>4. CASE p \notin changed
    BY <1>1, <2>1, <2>2, <2>4 DEF Advance, WithChange
  <2> QED
    BY <2>3, <2>4
<1>7. answer.revision = revision' /\ answer.parts = WithChange(r, changed)
  BY <1>1, <1>3
<1>8. Fits(answer, revision', content')
  BY <1>3, <1>4, <1>6, <1>7, ProjectAssumption DEF Fits
<1> QED
  BY <1>4, <1>5, <1>7, <1>8

-----------------------------------------------------------------------------
(* Steps that leave the project as it is.                                  *)

(* A client reads and sends.                                               *)
LEMMA ClientStep ==
    ASSUME ProjectInv, NEW r \in Request, Client(r)
    PROVE  ProjectInv'
<1>1. CASE StartRead(r)
  <2>1. Begin(seen[r]) \in View /\ Fits(Begin(seen[r]), revision, content)
    BY <1>1, BeginFits DEF StartRead, ProjectInv
  <2>2. TypeOK'
    BY <1>1, <2>1 DEF StartRead, ProjectInv, TypeOK, LockHeld, Goto, Progress, Inside, project
  <2>3. ViewsFit'
    BY <1>1, <2>1 DEF StartRead, ProjectInv, ViewsFit, TypeOK, project
  <2>4. Started'
    BY <1>1 DEF StartRead, ProjectInv, Started, Complete, Goto, TypeOK, Begin, project
  <2> QED
    BY <1>1, <2>2, <2>3, <2>4 DEF StartRead, ProjectInv, GoneIsBlank, project
<1>2. CASE ReadPart(r)
  <2>1. PICK p \in Read(kind[r]) \ DOMAIN seen[r].parts :
            seen' = [seen EXCEPT ![r] = ReadOn(seen[r], p)]
    BY <1>2 DEF ReadPart
  <2>2. p \in Part
    BY DEF Read, Part
  <2>3. /\ ReadOn(seen[r], p) \in View
        /\ Fits(ReadOn(seen[r], p), revision, content)
        /\ ReadOn(seen[r], p).revision = seen[r].revision
    BY <1>2, <2>2, ReadOnFits DEF ReadPart, ProjectInv, TypeOK, ViewsFit, Started
  <2>4. TypeOK'
    BY <1>2, <2>1, <2>3 DEF ReadPart, ProjectInv, TypeOK, LockHeld, project
  <2>5. ViewsFit'
    BY <1>2, <2>1, <2>3 DEF ReadPart, ProjectInv, ViewsFit, TypeOK, project
  <2>6. Started'
    BY <1>2, <2>1, <2>3 DEF ReadPart, ProjectInv, Started, Complete, TypeOK, project
  <2> QED
    BY <1>2, <2>4, <2>5, <2>6 DEF ReadPart, ProjectInv, GoneIsBlank, project
<1>3. CASE Send(r)
  <2>1. TypeOK'
    BY <1>3 DEF Send, ProjectInv, TypeOK, LockHeld, Goto, Progress, Inside, project
  <2>2. Started'
    BY <1>3 DEF Send, ProjectInv, Started, Complete, Goto, TypeOK
  <2> QED
    BY <1>3, <2>1, <2>2 DEF Send, ProjectInv, ViewsFit, GoneIsBlank, project
<1> QED
  BY <1>1, <1>2, <1>3 DEF Client

(* The end of a handler that changes nothing.                              *)
LEMMA AnswerStep ==
    ASSUME ProjectInv, NEW r \in Request, NEW status \in Answered, Answer(r, status),
           UNCHANGED <<project, kind, via, seen, draft, deleted>>
    PROVE  ProjectInv'
<1>1. TypeOK'
  BY DEF Answer, ProjectInv, TypeOK, LockHeld, Goto, Progress, Inside, Answered, project
<1>2. Started'
  BY DEF Answer, ProjectInv, Started, Complete, Goto, TypeOK, Answered
<1> QED
  BY <1>1, <1>2 DEF ProjectInv, ViewsFit, GoneIsBlank, project

(* The guard and the load of a draft.                                      *)
LEMMA LoadStep ==
    ASSUME ProjectInv, NEW r \in Request, Load(r)
    PROVE  ProjectInv'
<1>1. CASE Enter(r)
  <2>1. LockHeld'
    BY <1>1 DEF Enter, ProjectInv, TypeOK, LockHeld, Goto, Free, Inside
  <2>2. TypeOK'
    BY <1>1, <2>1 DEF Enter, ProjectInv, TypeOK, Goto, Progress, Inside, project
  <2>3. Started'
    BY <1>1 DEF Enter, ProjectInv, Started, Complete, Goto, TypeOK
  <2> QED
    BY <1>1, <2>2, <2>3 DEF Enter, ProjectInv, ViewsFit, GoneIsBlank, project
<1>2. CASE RefuseEntry(r)
  <2>1. TypeOK'
    BY <1>2 DEF RefuseEntry, ProjectInv, TypeOK, LockHeld, Goto, Progress, Inside, Answered, project
  <2>2. Started'
    BY <1>2 DEF RefuseEntry, ProjectInv, Started, Complete, Goto, TypeOK
  <2> QED
    BY <1>2, <2>1, <2>2 DEF RefuseEntry, ProjectInv, ViewsFit, GoneIsBlank, project
<1>3. CASE LoadRevision(r)
  <2>1. CASE revision = Gone
    <3>1. Answer(r, "missing") /\ UNCHANGED draft
      BY <1>3, <2>1 DEF LoadRevision
    <3> QED
      BY <1>3, <3>1, AnswerStep DEF LoadRevision, Answered
  <2>2. CASE revision # Gone
    <3>1. Begin(draft[r]) \in View /\ Fits(Begin(draft[r]), revision, content)
      BY <2>2, BeginFits DEF ProjectInv
    <3>2. draft' = [draft EXCEPT ![r] = Begin(draft[r])] /\ Goto(r, "loading") /\ lock' = lock
      BY <1>3, <2>2 DEF LoadRevision
    <3>3. TypeOK'
      BY <1>3, <3>1, <3>2 DEF LoadRevision, ProjectInv, TypeOK, LockHeld, Goto, Progress, Inside, project
    <3>4. ViewsFit'
      BY <1>3, <3>1, <3>2 DEF LoadRevision, ProjectInv, ViewsFit, TypeOK, project
    <3>5. Started'
      BY <1>3, <2>2, <3>2 DEF LoadRevision, ProjectInv, Started, Complete, Goto, TypeOK, Begin, project
    <3> QED
      BY <1>3, <3>3, <3>4, <3>5 DEF LoadRevision, ProjectInv, GoneIsBlank, project
  <2> QED
    BY <2>1, <2>2
<1>4. CASE LoadPart(r)
  <2>1. PICK p \in Read(kind[r]) \ DOMAIN draft[r].parts :
            draft' = [draft EXCEPT ![r] = ReadOn(draft[r], p)]
    BY <1>4 DEF LoadPart
  <2>2. p \in Part
    BY DEF Read, Part
  <2>3. /\ ReadOn(draft[r], p) \in View
        /\ Fits(ReadOn(draft[r], p), revision, content)
        /\ ReadOn(draft[r], p).revision = draft[r].revision
    BY <1>4, <2>2, ReadOnFits DEF LoadPart, ProjectInv, TypeOK, ViewsFit, Started
  <2>4. TypeOK'
    BY <1>4, <2>1, <2>3 DEF LoadPart, ProjectInv, TypeOK, LockHeld, project
  <2>5. ViewsFit'
    BY <1>4, <2>1, <2>3 DEF LoadPart, ProjectInv, ViewsFit, TypeOK, project
  <2>6. Started'
    BY <1>4, <2>1, <2>3 DEF LoadPart, ProjectInv, Started, Complete, TypeOK, project
  <2> QED
    BY <1>4, <2>4, <2>5, <2>6 DEF LoadPart, ProjectInv, GoneIsBlank, project
<1> QED
  BY <1>1, <1>2, <1>3, <1>4 DEF Load

-----------------------------------------------------------------------------
(* Steps that change the project.                                          *)

(* A commit that ends its request, its answer fitting what it left.        *)
LEMMA FinalCommit ==
    ASSUME ProjectInv, NEW r \in Request, NEW S \in SUBSET Part,
           NEW parts \in [S -> SUBSET Writer], Advance(r, parts), Answer(r, "done"),
           UNCHANGED <<kind, via, draft, deleted>>,
           \/ seen' = seen
           \/ \E answer \in View : /\ Fits(answer, revision', content')
                                   /\ seen' = [seen EXCEPT ![r] = answer]
    PROVE  ProjectInv'
<1>1. /\ revision \in Nat /\ revision' = revision + 1
      /\ content' \in [Part -> SUBSET Writer]
      /\ \A s \in Request : /\ Fits(seen[s], revision', content')
                            /\ Fits(draft[s], revision', content')
  BY AdvanceFacts
<1>2. /\ seen' \in [Request -> View]
      /\ \A s \in Request : Fits(seen'[s], revision', content')
  BY <1>1 DEF ProjectInv, TypeOK
<1>3. LockHeld'
  BY DEF Answer, ProjectInv, TypeOK, LockHeld, Goto, Inside
<1>4. TypeOK'
  <2>1. at' \in [Request -> Progress] /\ lock' \subseteq Request
    BY DEF Answer, ProjectInv, TypeOK, Goto, Progress, Answered
  <2>2. revision' \in Nat \cup {Gone}
    BY <1>1
  <2> QED
    BY <1>1, <1>2, <1>3, <2>1, <2>2 DEF ProjectInv, TypeOK
<1>5. ViewsFit'
  BY <1>1, <1>2 DEF ViewsFit
<1>6. Started'
  BY DEF Answer, ProjectInv, Started, Complete, Goto, TypeOK
<1>7. GoneIsBlank'
  BY <1>1, ProjectAssumption DEF GoneIsBlank
<1> QED
  BY <1>4, <1>5, <1>6, <1>7 DEF ProjectInv

LEMMA EditStep == ASSUME ProjectInv, NEW r \in Request, Edit(r) PROVE ProjectInv'
<1>1. PICK p \in Read(kind[r]) : /\ Advance(r, Written(r, {p}))
                                 /\ Respond(r, WithChange(r, {p}))
  BY DEF Edit
<1>2. kind[r] # "scene" /\ {p} \in SUBSET Read(kind[r]) /\ {p} \in SUBSET Part
  BY DEF Edit, Read, Part
<1>3. Written(r, {p}) \in [{p} -> SUBSET Writer]
  BY <1>1, <1>2, DraftIsReplaced
<1>4. PICK answer : answer = [revision |-> Expected(r) + 1, parts |-> WithChange(r, {p})]
  OBVIOUS
<1>5. answer \in View /\ Fits(answer, revision', content')
  BY <1>1, <1>2, <1>4, AnswerFits
<1>6. seen' = [seen EXCEPT ![r] = answer]
  BY <1>1, <1>4 DEF Respond
<1> QED
  BY <1>1, <1>2, <1>3, <1>5, <1>6, FinalCommit DEF Edit

LEMMA SaveTurnStep == ASSUME ProjectInv, NEW r \in Request, SaveTurn(r) PROVE ProjectInv'
<1> DEFINE changed == {"anchors", "chat"}
<1>1. Advance(r, Written(r, changed)) /\ Respond(r, WithChange(r, changed))
  BY DEF SaveTurn
<1>2. kind[r] # "scene" /\ changed \in SUBSET Read(kind[r]) /\ changed \in SUBSET Part
  BY DEF SaveTurn, Read, Part
<1> HIDE DEF changed
<1>3. Written(r, changed) \in [changed -> SUBSET Writer]
  BY <1>1, <1>2, DraftIsReplaced
<1>4. PICK answer : answer = [revision |-> Expected(r) + 1, parts |-> WithChange(r, changed)]
  OBVIOUS
<1>5. answer \in View /\ Fits(answer, revision', content')
  BY <1>1, <1>2, <1>4, AnswerFits
<1>6. seen' = [seen EXCEPT ![r] = answer]
  BY <1>1, <1>4 DEF Respond
<1> QED
  BY <1>1, <1>2, <1>3, <1>5, <1>6, FinalCommit DEF SaveTurn

LEMMA ResetStep == ASSUME ProjectInv, NEW r \in Request, Reset(r) PROVE ProjectInv'
<1> DEFINE blank == [p \in Part |-> {}]
           shown == [p \in Read(kind[r]) |-> {}]
<1>1. Advance(r, blank) /\ blank \in [Part -> SUBSET Writer]
  BY DEF Reset
<1>2. revision \in Nat /\ Expected(r) = revision /\ revision' = revision + 1
  BY <1>1, AdvanceFacts DEF Advance
<1>3. Read(kind[r]) \in SUBSET Part /\ shown \in [Read(kind[r]) -> SUBSET Writer]
  BY DEF Read, Part
<1>4. PICK answer : answer = [revision |-> Expected(r) + 1, parts |-> shown]
  OBVIOUS
<1>5. answer \in View
  <2> HIDE DEF shown
  <2> QED BY <1>2, <1>3, <1>4, MakeView
<1>6. \A p \in Part : content'[p] = {}
  BY DEF Reset, Advance
<1>7. Fits(answer, revision', content')
  BY <1>2, <1>3, <1>4, <1>6, ProjectAssumption DEF Fits
<1>8. seen' = [seen EXCEPT ![r] = answer]
  BY <1>4 DEF Reset, Respond
<1> QED
  <2> HIDE DEF blank, shown
  <2> QED BY <1>1, <1>5, <1>7, <1>8, FinalCommit DEF Reset

LEMMA ChangeSceneStep == ASSUME ProjectInv, NEW r \in Request, ChangeScene(r) PROVE ProjectInv'
<1> DEFINE parts == [p \in {"scene"} |-> content[p] \cup {r}]
<1>1. Advance(r, parts) /\ {"scene"} \in SUBSET Part
  BY DEF ChangeScene, Part
<1>2. parts \in [{"scene"} -> SUBSET Writer]
  BY DEF ProjectInv, TypeOK, Writer, Part
<1> HIDE DEF parts
<1> QED
  BY <1>1, <1>2, FinalCommit DEF ChangeScene

LEMMA SaveMessageStep == ASSUME ProjectInv, NEW r \in Request, SaveMessage(r) PROVE ProjectInv'
<1> DEFINE changed == {"chat"}
<1>1. Advance(r, Written(r, changed)) /\ kind[r] # "scene"
  BY DEF SaveMessage
<1>2. changed \in SUBSET Read(kind[r]) /\ changed \in SUBSET Part
  BY DEF SaveMessage, Read, Part
<1>3. PICK next \in {"asking", "checked"} : Goto(r, next)
  BY DEF SaveMessage
<1>4. PICK answer : answer = [revision |-> Expected(r) + 1, parts |-> WithChange(r, changed)]
  OBVIOUS
<1>5. draft' = [draft EXCEPT ![r] = answer]
  BY <1>4 DEF SaveMessage
<1>6. at[r] = "loading" /\ UNCHANGED <<lock, kind, via, seen, deleted>>
  BY DEF SaveMessage
<1> HIDE DEF changed
<1>7. Written(r, changed) \in [changed -> SUBSET Writer]
  BY <1>1, <1>2, DraftIsReplaced
<1>8. /\ answer \in View /\ Fits(answer, revision', content')
      /\ DOMAIN answer.parts = DOMAIN draft[r].parts
  BY <1>1, <1>2, <1>4, AnswerFits
<1>9. /\ revision \in Nat /\ revision' = revision + 1
      /\ content' \in [Part -> SUBSET Writer]
      /\ \A s \in Request : /\ Fits(seen[s], revision', content')
                            /\ Fits(draft[s], revision', content')
  BY <1>1, <1>2, <1>7, AdvanceFacts
<1>10. Complete(draft[r], kind[r])
  BY <1>1, <1>6 DEF Advance, Committing
<1>11. LockHeld'
  BY <1>3, <1>6 DEF ProjectInv, TypeOK, LockHeld, Goto, Inside
<1>12. TypeOK'
  BY <1>3, <1>5, <1>6, <1>8, <1>9, <1>11 DEF ProjectInv, TypeOK, Goto, Progress, Inside
<1>13. ViewsFit'
  BY <1>5, <1>6, <1>8, <1>9 DEF ProjectInv, ViewsFit, TypeOK
<1>14. Started'
  BY <1>3, <1>5, <1>6, <1>8, <1>10 DEF ProjectInv, Started, Complete, Goto, TypeOK
<1>15. GoneIsBlank'
  BY <1>9, ProjectAssumption DEF GoneIsBlank
<1> QED
  BY <1>12, <1>13, <1>14, <1>15 DEF ProjectInv

LEMMA DeleteProjectStep ==
    ASSUME ProjectInv, NEW r \in Request, DeleteProject(r)
    PROVE  ProjectInv'
<1>1. revision' = Gone /\ content' = [p \in Part |-> {}]
  BY DEF DeleteProject
<1>2. PICK status \in {"missing", "done"} : Answer(r, status)
  BY DEF DeleteProject
<1>3. ASSUME NEW view \in View, Fits(view, revision, content)
      PROVE  Fits(view, revision', content')
  BY <1>1, <1>3, ViewParts, ProjectAssumption DEF Fits
<1>4. at' \in [Request -> Progress] /\ lock' \subseteq Request /\ LockHeld'
  BY <1>2 DEF DeleteProject, Answer, ProjectInv, TypeOK, LockHeld, Goto, Progress, Inside, Answered
<1>5. TypeOK'
  BY <1>1, <1>4 DEF DeleteProject, ProjectInv, TypeOK
<1>6. ViewsFit'
  BY <1>3 DEF DeleteProject, ProjectInv, ViewsFit, TypeOK
<1>7. Started'
  BY <1>2 DEF DeleteProject, Answer, ProjectInv, Started, Complete, Goto, TypeOK
<1> QED
  BY <1>1, <1>5, <1>6, <1>7 DEF ProjectInv, GoneIsBlank

LEMMA FindMessageStep ==
    ASSUME ProjectInv, NEW r \in Request, FindMessage(r)
    PROVE  ProjectInv'
<1>1. TypeOK'
  BY DEF FindMessage, ProjectInv, TypeOK, LockHeld, Goto, Progress, Inside, project
<1>2. Started'
  BY DEF FindMessage, ProjectInv, Started, Complete, Goto, TypeOK
<1> QED
  BY <1>1, <1>2 DEF FindMessage, ProjectInv, ViewsFit, GoneIsBlank, project

LEMMA CommitStep ==
    ASSUME ProjectInv, NEW r \in Request, Commit(r)
    PROVE  ProjectInv'
<1>1. CASE Conflict(r)
  <2>1. PICK status \in Answered : Answer(r, status)
    BY <1>1 DEF Conflict, Answered
  <2> QED
    BY <1>1, <2>1, AnswerStep DEF Conflict
<1>2. CASE Fail(r)
  BY <1>2, AnswerStep DEF Fail, Answered
<1> QED
  BY <1>1, <1>2, EditStep, ResetStep, ChangeSceneStep, DeleteProjectStep, SaveMessageStep,
     FindMessageStep, SaveTurnStep DEF Commit

LEMMA DeleteAssetsStep ==
    ASSUME ProjectInv, NEW d \in Deletion, DeleteAssets(d)
    PROVE  ProjectInv'
<1>1. revision \in Nat /\ revision' = revision + 1
  BY DEF DeleteAssets, ProjectInv, TypeOK
<1>2. ASSUME NEW view \in View, Fits(view, revision, content)
      PROVE  Fits(view, revision', content')
  BY <1>1, <1>2, FitsLater
<1>3. content' \in [Part -> SUBSET Writer] /\ deleted' \subseteq Deletion
  BY DEF DeleteAssets, ProjectInv, TypeOK, Writer, Part
<1>4. TypeOK'
  BY <1>1, <1>3 DEF DeleteAssets, ProjectInv, TypeOK, LockHeld
<1>5. ViewsFit'
  BY <1>2 DEF DeleteAssets, ProjectInv, ViewsFit, TypeOK
<1>6. Started'
  BY DEF DeleteAssets, ProjectInv, Started, Complete
<1>7. GoneIsBlank'
  BY <1>1, ProjectAssumption DEF GoneIsBlank
<1> QED
  BY <1>4, <1>5, <1>6, <1>7 DEF ProjectInv

LEMMA RestartStep ==
    ASSUME ProjectInv, NEW q \in Process, Restart(q)
    PROVE  ProjectInv'
<1>1. at' \in [Request -> Progress] /\ lock' \subseteq Request
  BY DEF Restart, ProjectInv, TypeOK, Progress, Answered
<1>2. LockHeld'
  BY DEF Restart, ProjectInv, TypeOK, LockHeld, Inside
<1>3. TypeOK'
  BY <1>1, <1>2 DEF Restart, ProjectInv, TypeOK, project
<1>4. Started'
  BY DEF Restart, ProjectInv, Started, Complete, TypeOK
<1> QED
  BY <1>3, <1>4 DEF Restart, ProjectInv, ViewsFit, GoneIsBlank, project

-----------------------------------------------------------------------------
(* The theorems.                                                           *)

LEMMA Initially == Init => ProjectInv
<1> SUFFICES ASSUME Init PROVE ProjectInv
  OBVIOUS
<1>1. Unread \in View /\ Fits(Unread, revision, content)
  <2>1. [p \in {} |-> {}] \in [{} -> SUBSET Writer]
    OBVIOUS
  <2> QED
    BY <2>1, MakeView, ProjectAssumption DEF Unread, Fits
<1>2. TypeOK
  BY <1>1 DEF Init, TypeOK, LockHeld, Progress, Inside
<1> QED
  BY <1>1, <1>2 DEF Init, ProjectInv, ViewsFit, GoneIsBlank, Started

(* The invariant that the theorems rest on holds in every state.           *)
THEOREM ProjectInvHolds == Spec => []ProjectInv
<1>1. Init => ProjectInv
  BY Initially
<1>2. ProjectInv /\ [Next]_vars => ProjectInv'
  <2> SUFFICES ASSUME ProjectInv, [Next]_vars PROVE ProjectInv'
    OBVIOUS
  <2>1. CASE UNCHANGED vars
    BY <2>1 DEF vars, ProjectInv, TypeOK, LockHeld, ViewsFit, GoneIsBlank, Started, Complete
  <2>2. ASSUME NEW r \in Request, Client(r) \/ Server(r) PROVE ProjectInv'
    BY <2>2, ClientStep, LoadStep, CommitStep DEF Server
  <2> QED
    BY <2>1, <2>2, DeleteAssetsStep, RestartStep DEF Next
<1> QED
  BY <1>1, <1>2, PTL DEF Spec

(* Every variable has its type, and a handler is inside the guard exactly  *)
(* while it holds the lock of its process.                                 *)
THEOREM ProjectTypeCorrect == Spec => []TypeOK
<1>1. ProjectInv => TypeOK
  BY DEF ProjectInv
<1> QED
  BY <1>1, ProjectInvHolds, PTL

(* A client that holds the current ETag has seen the current content       *)
(* (repositories/project.py:170-203 reads the revision first).             *)
THEOREM EtagsPromiseContent == Spec => []EtagPromisesContent
<1>1. ProjectInv => EtagPromisesContent
  BY DEF ProjectInv, ViewsFit, Fits, EtagPromisesContent, IsCurrent
<1> QED
  BY <1>1, ProjectInvHolds, PTL

(* A draft whose revision is current shows the current content.            *)
THEOREM DraftsStayCurrent == Spec => []DraftsAreCurrent
<1>1. ProjectInv => DraftsAreCurrent
  BY DEF ProjectInv, ViewsFit, Fits, DraftsAreCurrent, IsCurrent
<1> QED
  BY <1>1, ProjectInvHolds, PTL

-----------------------------------------------------------------------------
(* The register.                                                           *)

(* A commit from a draft is a write on the content of that moment.         *)
LEMMA DraftCommitIsWrite ==
    ASSUME ProjectInv, NEW r \in Request, kind[r] # "scene",
           NEW changed \in SUBSET Read(kind[r]), Advance(r, Written(r, changed))
    PROVE  Atomic!Next
<1>1. /\ changed \subseteq DOMAIN draft[r].parts
      /\ Expected(r) = revision
      /\ \A p \in DOMAIN draft[r].parts : draft[r].parts[p] = content[p]
  BY DraftIsReplaced
<1>2. revision # Gone /\ revision' = revision + 1
  BY <1>1 DEF Advance
<1>3. content' = [p \in Part |-> IF p \in changed THEN content[p] \cup {r} ELSE content[p]]
  BY <1>1 DEF Advance, Written
<1>4. Atomic!Write(changed, r)
  BY <1>2, <1>3 DEF Atomic!Write
<1>5. changed \in SUBSET Part /\ r \in Writer
  BY DEF Read, Part, Writer
<1> QED
  BY <1>4, <1>5 DEF Atomic!Next

(* No update is lost: the service behind the guard is an atomic register,  *)
(* with any number of processes and of library deletions in between.       *)
THEOREM NoUpdateIsLost == Spec => ImplementsRegister
<1>1. Init => Atomic!Init
  BY DEF Init, Atomic!Init, Atomic!Blank
<1>2. ProjectInv /\ [Next]_vars => [Atomic!Next]_(Atomic!vars)
  <2> SUFFICES ASSUME ProjectInv, [Next]_vars
               PROVE  Atomic!Next \/ UNCHANGED project
    BY DEF project, Atomic!vars
  <2>1. CASE UNCHANGED vars
    BY <2>1 DEF vars, project
  <2>2. ASSUME NEW r \in Request, Client(r) \/ Load(r)
        PROVE  UNCHANGED project
    BY <2>2 DEF Client, Load, StartRead, ReadPart, Send, Enter, RefuseEntry, LoadRevision, LoadPart
  <2>3. ASSUME NEW r \in Request, Edit(r)
        PROVE  Atomic!Next
    <3>1. PICK p \in Read(kind[r]) : Advance(r, Written(r, {p}))
      BY <2>3 DEF Edit
    <3>2. kind[r] # "scene" /\ {p} \in SUBSET Read(kind[r])
      BY <2>3 DEF Edit
    <3> QED
      BY <3>1, <3>2, DraftCommitIsWrite
  <2>4. ASSUME NEW r \in Request, SaveMessage(r)
        PROVE  Atomic!Next
    <3>1. Advance(r, Written(r, {"chat"})) /\ kind[r] # "scene" /\ {"chat"} \in SUBSET Read(kind[r])
      BY <2>4 DEF SaveMessage, Read
    <3> QED
      BY <3>1, DraftCommitIsWrite
  <2>5. ASSUME NEW r \in Request, SaveTurn(r)
        PROVE  Atomic!Next
    <3>1. /\ Advance(r, Written(r, {"anchors", "chat"}))
          /\ kind[r] # "scene" /\ {"anchors", "chat"} \in SUBSET Read(kind[r])
      BY <2>5 DEF SaveTurn, Read
    <3> QED
      BY <3>1, DraftCommitIsWrite
  <2>6. ASSUME NEW r \in Request, ChangeScene(r)
        PROVE  Atomic!Next
    <3>1. revision # Gone /\ revision' = revision + 1
      BY <2>6 DEF ChangeScene, Advance
    <3>2. content' = [p \in Part |-> IF p \in {"scene"} THEN content[p] \cup {r} ELSE content[p]]
      BY <2>6 DEF ChangeScene, Advance
    <3>3. Atomic!Write({"scene"}, r) /\ {"scene"} \in SUBSET Part /\ r \in Writer
      BY <3>1, <3>2 DEF Atomic!Write, Part, Writer
    <3> QED
      BY <3>3 DEF Atomic!Next
  <2>7. ASSUME NEW r \in Request, Reset(r)
        PROVE  Atomic!Next
    <3>1. revision # Gone /\ revision' = revision + 1
      BY <2>7 DEF Reset, Advance
    <3>2. content' = [p \in Part |-> {}]
      BY <2>7 DEF Reset, Advance
    <3> QED
      BY <3>1, <3>2 DEF Atomic!Next, Atomic!Clear, Atomic!Blank
  <2>8. ASSUME NEW r \in Request, DeleteProject(r)
        PROVE  Atomic!Next \/ UNCHANGED project
    <3>1. revision' = Gone /\ content' = [p \in Part |-> {}]
      BY <2>8 DEF DeleteProject
    <3>2. CASE revision # Gone
      BY <3>1, <3>2 DEF Atomic!Next, Atomic!Remove, Atomic!Blank
    <3>3. CASE revision = Gone
      BY <3>1, <3>3 DEF ProjectInv, GoneIsBlank, project
    <3> QED
      BY <3>2, <3>3
  <2>9. ASSUME NEW r \in Request, FindMessage(r) \/ Conflict(r) \/ Fail(r)
        PROVE  UNCHANGED project
    BY <2>9 DEF FindMessage, Conflict, Fail
  <2>10. ASSUME NEW d \in Deletion, DeleteAssets(d)
         PROVE  Atomic!Next
    <3>1. revision # Gone /\ revision' = revision + 1
      BY <2>10 DEF DeleteAssets
    <3>2. content' = [p \in Part |-> IF p \in {"scene"} THEN content[p] \cup {d} ELSE content[p]]
      BY <2>10 DEF DeleteAssets, ProjectInv, TypeOK, Part
    <3>3. Atomic!Write({"scene"}, d) /\ {"scene"} \in SUBSET Part /\ d \in Writer
      BY <3>1, <3>2 DEF Atomic!Write, Part, Writer
    <3> QED
      BY <3>3 DEF Atomic!Next
  <2>11. ASSUME NEW q \in Process, Restart(q)
         PROVE  UNCHANGED project
    BY <2>11 DEF Restart
  <2> QED
    BY <2>1, <2>2, <2>3, <2>4, <2>5, <2>6, <2>7, <2>8, <2>9, <2>10, <2>11
       DEF Next, Server, Commit
<1> QED
  BY <1>1, <1>2, ProjectInvHolds, PTL DEF Spec, ImplementsRegister, Atomic!Spec

-----------------------------------------------------------------------------
(* One process, no library deletion.                                       *)

\* Whoever is inside the guard works on the current revision.

Undisturbed ==
    \A r \in lock :
        /\ at[r] \in {"loading", "asking"} => /\ draft[r].revision = revision
                                              /\ kind[r] # "scene"
        /\ kind[r] \in {"edit", "reset", "scene", "delete"} => seen[r].revision = revision

(* A step of one request keeps what another has done.                      *)
LEMMA OthersStay ==
    ASSUME TypeOK, NEW r \in Request, NEW s \in Request, s # r, Client(r) \/ Server(r)
    PROVE  at'[s] = at[s]
BY DEF TypeOK, Client, Server, Load, Commit, StartRead, ReadPart, Send, Enter, RefuseEntry,
       LoadRevision, LoadPart, Edit, Reset, ChangeScene, DeleteProject, SaveMessage, FindMessage,
       SaveTurn, Conflict, Fail, Answer, Goto

(* With one process and no library deletion nothing happens to a project   *)
(* while a handler works on it.                                            *)
LEMMA LockProtects ==
    ASSUME Alone, Alone', ProjectInv, Undisturbed, [Next]_vars
    PROVE  Undisturbed'
<1>1. \A r, s \in lock : r = s
  BY DEF ProjectInv, TypeOK, LockHeld, Alone
<1>2. CASE UNCHANGED vars
  BY <1>2 DEF vars, Undisturbed
<1>3. ASSUME NEW r \in Request, Client(r)
      PROVE  Undisturbed'
  <2>1. r \notin lock
    BY <1>3 DEF Client, StartRead, ReadPart, Send, ProjectInv, TypeOK, LockHeld, Inside
  <2>2. UNCHANGED <<lock, revision, draft, kind>>
    BY <1>3 DEF Client, StartRead, ReadPart, Send, project
  <2>3. \A s \in lock : at'[s] = at[s] /\ seen'[s] = seen[s]
    BY <1>3, <2>1 DEF Client, StartRead, ReadPart, Send, Goto, ProjectInv, TypeOK
  <2> QED
    BY <2>2, <2>3 DEF Undisturbed
<1>4. ASSUME NEW r \in Request, Enter(r)
      PROVE  Undisturbed'
  <2>1. lock' = {r} /\ UNCHANGED <<revision, kind, seen, draft>>
    BY <1>4 DEF Enter, Free, ProjectInv, TypeOK, project, Alone
  <2>2. at'[r] = "checked"
    BY <1>4 DEF Enter, Goto, ProjectInv, TypeOK
  <2> QED
    BY <1>4, <2>1, <2>2 DEF Enter, Accepted, Undisturbed
<1>5. ASSUME NEW r \in Request, RefuseEntry(r)
      PROVE  Undisturbed'
  <2>1. r \notin lock
    BY <1>5 DEF RefuseEntry, ProjectInv, TypeOK, LockHeld, Inside
  <2> QED
    BY <1>5, <2>1 DEF RefuseEntry, Goto, Undisturbed, ProjectInv, TypeOK, project
<1>6. ASSUME NEW r \in Request, LoadRevision(r)
      PROVE  Undisturbed'
  <2>1. r \in lock
    BY <1>6 DEF LoadRevision, ProjectInv, TypeOK, LockHeld, Inside
  <2>2. CASE revision = Gone
    <3>1. lock' = {}
      BY <1>1, <1>6, <2>1, <2>2 DEF LoadRevision, Answer
    <3> QED
      BY <3>1 DEF Undisturbed
  <2>3. CASE revision # Gone
    <3>1. /\ lock' = {r} /\ draft'[r].revision = revision
          /\ UNCHANGED <<revision, kind, seen>> /\ kind[r] # "scene"
      BY <1>1, <1>6, <2>1, <2>3 DEF LoadRevision, Begin, ProjectInv, TypeOK, project
    <3> QED
      BY <2>1, <3>1 DEF Undisturbed
  <2> QED
    BY <2>2, <2>3
<1>7. ASSUME NEW r \in Request, LoadPart(r)
      PROVE  Undisturbed'
  <2>1. r \in lock
    BY <1>7 DEF LoadPart, ProjectInv, TypeOK, LockHeld, Inside
  <2>2. PICK p \in Read(kind[r]) \ DOMAIN draft[r].parts :
            draft' = [draft EXCEPT ![r] = ReadOn(draft[r], p)]
    BY <1>7 DEF LoadPart
  <2>3. p \in Part
    BY DEF Read, Part
  <2>4. ReadOn(draft[r], p).revision = draft[r].revision
    BY <1>7, <2>3, ReadOnFits DEF LoadPart, ProjectInv, TypeOK, ViewsFit, Started
  <2>5. draft'[r].revision = draft[r].revision
    BY <2>2, <2>4 DEF ProjectInv, TypeOK
  <2>6. lock = {r} /\ UNCHANGED <<lock, revision, kind, seen, at>>
    BY <1>1, <1>7, <2>1 DEF LoadPart, project
  <2> QED
    BY <2>5, <2>6 DEF Undisturbed
<1>8. ASSUME NEW r \in Request, NEW status, Answer(r, status), at[r] \in Inside
      PROVE  Undisturbed'
  <2>1. lock' = {}
    BY <1>1, <1>8 DEF Answer, ProjectInv, TypeOK, LockHeld
  <2> QED
    BY <2>1 DEF Undisturbed
<1>9. ASSUME NEW r \in Request, SaveMessage(r)
      PROVE  Undisturbed'
  <2>1. r \in lock
    BY <1>9 DEF SaveMessage, ProjectInv, TypeOK, LockHeld, Inside
  <2>2. draft'[r].revision = revision' /\ lock' = {r} /\ kind'[r] = "agent"
    BY <1>1, <1>9, <2>1 DEF SaveMessage, Advance, ProjectInv, TypeOK
  <2> QED
    BY <2>2 DEF Undisturbed
<1>10. ASSUME NEW r \in Request, FindMessage(r)
       PROVE  Undisturbed'
  <2>1. r \in lock /\ at[r] = "loading"
    BY <1>10 DEF FindMessage, ProjectInv, TypeOK, LockHeld, Inside
  <2>2. lock = {r} /\ UNCHANGED <<lock, revision, kind, seen, draft>>
    BY <1>1, <1>10, <2>1 DEF FindMessage, project
  <2> QED
    BY <2>1, <2>2 DEF Undisturbed
<1>11. ASSUME NEW r \in Request, Commit(r)
       PROVE  Undisturbed'
  <2>1. CASE Edit(r) \/ Reset(r) \/ ChangeScene(r) \/ SaveTurn(r)
    BY <1>8, <2>1 DEF Edit, Reset, ChangeScene, SaveTurn, Advance, Committing, Inside
  <2>2. CASE DeleteProject(r) \/ Conflict(r) \/ Fail(r)
    BY <1>8, <2>2 DEF DeleteProject, Conflict, Fail, Committing, Inside
  <2> QED
    BY <1>9, <1>10, <1>11, <2>1, <2>2 DEF Commit
<1>12. ASSUME NEW q \in Process, Restart(q)
       PROVE  Undisturbed'
  <2>1. lock' \subseteq lock /\ \A r \in lock' : at'[r] = at[r]
    BY <1>12 DEF Restart, ProjectInv, TypeOK
  <2> QED
    BY <1>12, <2>1 DEF Restart, Undisturbed, project
<1> QED
  BY <1>2, <1>3, <1>4, <1>5, <1>6, <1>7, <1>11, <1>12
     DEF Next, Server, Load, DeleteAssets, Alone

(* In one process, and while nobody deletes library assets, a request that *)
(* has passed the guard is never refused for its revision, and no stale    *)
(* If-Match is accepted.                                                   *)
THEOREM GuardIsExact == Spec => LockIsExact
<1> DEFINE Protected == Alone => Undisturbed
           Spared == Alone => HandlersNeverConflict
           Refused == Alone => EditsNameTheRevision
           Exact == Alone => HandlersNeverConflict /\ EditsNameTheRevision
<1>1. Init => Protected
  BY DEF Init, Undisturbed
<1>2. ProjectInv /\ Protected /\ [Next]_vars => Protected'
  <2> SUFFICES ASSUME ProjectInv, Protected, [Next]_vars, Alone'
               PROVE  Undisturbed'
    OBVIOUS
  <2>1. deleted \subseteq deleted' /\ via' = via
    BY DEF Next, vars, Client, Server, Load, Commit, StartRead, ReadPart, Send, Enter,
           RefuseEntry, LoadRevision, LoadPart, Edit, Reset, ChangeScene, DeleteProject,
           SaveMessage, FindMessage, SaveTurn, Conflict, Fail, DeleteAssets, Restart
  <2>2. Alone
    BY <2>1 DEF Alone
  <2> QED
    BY <2>2, LockProtects
<1>3. ProjectInv /\ Protected => Refused
  BY DEF ProjectInv, TypeOK, LockHeld, Undisturbed, EditsNameTheRevision
<1>4. ProjectInv /\ Protected /\ [Next]_vars => [Spared]_vars
  <2> SUFFICES ASSUME ProjectInv, Undisturbed, Next, NEW r \in Request, at[r] \in Inside
               PROVE  at'[r] # "conflict"
    BY DEF vars, HandlersNeverConflict
  <2>1. r \in lock /\ at[r] # "conflict"
    BY DEF ProjectInv, TypeOK, LockHeld, Inside
  <2>2. ASSUME Conflict(r)
        PROVE  FALSE
    BY <2>1, <2>2 DEF Conflict, Committing, Expected, Undisturbed
  <2>3. ASSUME Client(r) \/ Server(r)
        PROVE  at'[r] # "conflict"
    <3>1. CASE Client(r)
      BY <3>1 DEF Client, StartRead, ReadPart, Send, Inside
    <3>2. CASE Load(r)
      BY <2>1, <3>2 DEF Load, Enter, RefuseEntry, LoadRevision, LoadPart, Answer, Goto, Inside,
                        ProjectInv, TypeOK
    <3>3. CASE Edit(r) \/ Reset(r) \/ ChangeScene(r) \/ DeleteProject(r)
      BY <3>3 DEF Edit, Reset, ChangeScene, DeleteProject, Answer, Goto, ProjectInv, TypeOK
    <3>4. CASE SaveMessage(r) \/ FindMessage(r) \/ SaveTurn(r) \/ Fail(r)
      BY <3>4 DEF SaveMessage, FindMessage, SaveTurn, Fail, Answer, Goto, ProjectInv, TypeOK
    <3> QED
      BY <2>2, <2>3, <3>1, <3>2, <3>3, <3>4 DEF Server, Commit
  <2>4. ASSUME NEW s \in Request, s # r, Client(s) \/ Server(s)
        PROVE  at'[r] # "conflict"
    BY <2>1, <2>4, OthersStay DEF ProjectInv
  <2>5. ASSUME NEW q \in Process, Restart(q)
        PROVE  at'[r] # "conflict"
    BY <2>1, <2>5 DEF Restart, ProjectInv, TypeOK
  <2>6. ASSUME NEW d \in Deletion, DeleteAssets(d)
        PROVE  at'[r] # "conflict"
    BY <2>1, <2>6 DEF DeleteAssets
  <2> QED
    BY <2>3, <2>4, <2>5, <2>6 DEF Next
<1>5. ProjectInv /\ Protected /\ [Next]_vars => [Exact]_vars
  BY <1>3, <1>4
<1> HIDE DEF Protected, Exact
<1>6. Spec => [][Exact]_vars
  BY <1>1, <1>2, <1>5, ProjectInvHolds, PTL DEF Spec
<1> QED
  BY <1>6 DEF Exact, LockIsExact

-----------------------------------------------------------------------------
(* SceneTree: ranks and renumbering.                                       *)

\* The numbers c of the objects of S, all different, are its indices.
LEMMA Pigeons ==
  ASSUME NEW S, IsFiniteSet(S), NEW c,
         c \in [S -> 0 .. Cardinality(S) - 1],
         \A o, x \in S : o # x => c[o] # c[x]
  PROVE  {c[o] : o \in S} = 0 .. Cardinality(S) - 1
<1> DEFINE n == Cardinality(S)
           T == 0 .. n - 1
<1>1. n \in Nat
  BY FS_CardinalityType
<1>2. IsFiniteSet(T) /\ Cardinality(T) = n
  BY <1>1, FS_Interval
<1>3. c \in Injection(S, T)
  BY DEF Injection, IsInjective
<1>4. c \in Surjection(S, T)
  BY <1>2, <1>3, FS_Injection
<1> QED
  BY <1>4 DEF Surjection

\* A rank is an index, and ranks are in the order of the orders.
LEMMA Ranking ==
  ASSUME NEW rs, NEW S, IsFiniteSet(S),
         \A o \in S : rs[o].order \in Int,
         \A o, x \in S : o # x => rs[o].order # rs[x].order
  PROVE  /\ \A o \in S : Rank(rs, S, o) \in 0 .. Cardinality(S) - 1
         /\ \A o, x \in S : rs[o].order < rs[x].order <=> Rank(rs, S, o) < Rank(rs, S, x)
         /\ \A o, x \in S : o # x => Rank(rs, S, o) # Rank(rs, S, x)
<1> DEFINE Below(o) == {x \in S : rs[x].order < rs[o].order}
<1>0. Cardinality(S) \in Nat
  BY FS_CardinalityType
<1>1. \A o \in S : IsFiniteSet(Below(o)) /\ Cardinality(Below(o)) \in Nat
  BY FS_Subset, FS_CardinalityType
<1>r. \A o \in S : Rank(rs, S, o) = Cardinality(Below(o))
  BY DEF Rank
<1>2. ASSUME NEW o \in S
      PROVE  Rank(rs, S, o) \in 0 .. Cardinality(S) - 1
  <2>1. Below(o) \subseteq S \ {o}
    OBVIOUS
  <2>2. IsFiniteSet(S \ {o}) /\ Cardinality(S \ {o}) = Cardinality(S) - 1
    BY FS_RemoveElement
  <2>3. Cardinality(Below(o)) <= Cardinality(S \ {o})
    BY <2>1, <2>2, FS_Subset
  <2> QED
    <3> HIDE DEF Below
    <3> QED
      BY <1>0, <1>1, <1>r, <2>2, <2>3
<1>3. ASSUME NEW o \in S, NEW x \in S, rs[o].order < rs[x].order
      PROVE  Rank(rs, S, o) < Rank(rs, S, x)
  <2>1. Below(o) \subseteq Below(x) /\ Below(o) # Below(x)
    <3>1. o \in Below(x) /\ o \notin Below(o)
      BY <1>3
    <3> QED
      BY <1>3, <3>1
  <2>2. Cardinality(Below(o)) <= Cardinality(Below(x))
        /\ Cardinality(Below(o)) # Cardinality(Below(x))
    BY <1>1, <2>1, FS_Subset
  <2> QED
    <3> HIDE DEF Below
    <3> QED
      BY <1>1, <1>r, <2>2
<1>4. ASSUME NEW o \in S, NEW x \in S
      PROVE  /\ Rank(rs, S, o) \in Int /\ Rank(rs, S, x) \in Int
             /\ rs[o].order < rs[x].order <=> Rank(rs, S, o) < Rank(rs, S, x)
             /\ o # x => Rank(rs, S, o) # Rank(rs, S, x)
  <2>1. Rank(rs, S, o) \in Int /\ Rank(rs, S, x) \in Int
    BY <1>0, <1>2
  <2>2. CASE rs[o].order < rs[x].order
    BY <1>3, <2>1, <2>2
  <2>3. CASE rs[x].order < rs[o].order
    BY <1>3, <2>1, <2>3
  <2>4. CASE rs[x].order = rs[o].order
    BY <2>1, <2>4
  <2> QED
    BY <2>2, <2>3, <2>4
<1> QED
  BY <1>2, <1>4

\* The list with one object moved: indices again, the others in their order.
LEMMA Moving ==
  ASSUME NEW rs, NEW S, IsFiniteSet(S), NEW o \in S, NEW k \in 0 .. Cardinality(S) - 1,
         \A x \in S : rs[x].order \in Int,
         \A x, y \in S : x # y => rs[x].order # rs[y].order
  PROVE  /\ Moved(rs, S, o, k) \in [S -> 0 .. Cardinality(S) - 1]
         /\ \A x, y \in S : x # y => Moved(rs, S, o, k)[x] # Moved(rs, S, o, k)[y]
         /\ \A x, y \in S \ {o} :
              rs[x].order < rs[y].order <=> Moved(rs, S, o, k)[x] < Moved(rs, S, o, k)[y]
<1> DEFINE n == Cardinality(S)
           R == S \ {o}
           i(x) == Rank(rs, R, x)
           m == Moved(rs, S, o, k)
<1>0. n \in Nat /\ IsFiniteSet(R) /\ Cardinality(R) = n - 1
  BY FS_CardinalityType, FS_RemoveElement
<1>1. /\ \A x \in R : i(x) \in 0 .. n - 2
      /\ \A x, y \in R : rs[x].order < rs[y].order <=> i(x) < i(y)
      /\ \A x, y \in R : x # y => i(x) # i(y)
  <2>1. /\ \A x \in R : Rank(rs, R, x) \in 0 .. Cardinality(R) - 1
        /\ \A x, y \in R : rs[x].order < rs[y].order <=> Rank(rs, R, x) < Rank(rs, R, y)
        /\ \A x, y \in R : x # y => Rank(rs, R, x) # Rank(rs, R, y)
    BY <1>0, Ranking
  <2>2. Cardinality(R) - 1 = n - 2
    BY <1>0
  <2> HIDE DEF n, R
  <2> QED
    BY <2>1, <2>2
<1>2. /\ m[o] = k
      /\ \A x \in R : m[x] = IF i(x) < k THEN i(x) ELSE i(x) + 1
      /\ DOMAIN m = S /\ m = [x \in S |-> m[x]]
  BY DEF Moved
<1> HIDE DEF m, i
<1>3. \A x \in S : m[x] \in 0 .. n - 1
  BY <1>0, <1>1, <1>2
<1>4. \A x, y \in S : x # y => m[x] # m[y]
  BY <1>0, <1>1, <1>2
<1>5. \A x, y \in R : rs[x].order < rs[y].order <=> m[x] < m[y]
  BY <1>0, <1>1, <1>2
<1>6. m \in [S -> 0 .. n - 1]
  BY <1>2, <1>3
<1> QED
  BY <1>4, <1>5, <1>6 DEF m
-----------------------------------------------------------------------------
(* Tables.                                                                 *)

\* The number that an object has, or that an UPDATE has still to set.
Coming(rs, t, o) == IF o \in DOMAIN t THEN t[o] ELSE rs[o].order

\* The numbers to come are indices; what has still to get its own is out of the way.
Settled(rs, t) ==
  /\ OrdersDiffer(rs)
  /\ \A p \in Project :
       {Coming(rs, t, o) : o \in Scene(rs, p)} = 0 .. Cardinality(Scene(rs, p)) - 1
  /\ \A o, x \in DOMAIN rs :
       o # x /\ rs[o].project = rs[x].project => Coming(rs, t, o) # Coming(rs, t, x)
  /\ DOMAIN t \subseteq DOMAIN rs
  /\ \A o \in DOMAIN rs : o \in DOMAIN t <=> rs[o].order < 0

\* A table of whole trees, whatever the orders.
Planted(rs) == IsTable(rs) /\ Acyclic(rs) /\ ParentsExist(rs)

\* The tables differ in their orders at most.
SameShape(rs, rt) ==
  /\ DOMAIN rt = DOMAIN rs
  /\ \A o \in DOMAIN rs : /\ rt[o].project = rs[o].project
                         /\ rt[o].parent = rs[o].parent
                         /\ rt[o].asset = rs[o].asset

LEMMA Rows == ASSUME NEW rs, IsTable(rs), NEW o \in DOMAIN rs
              PROVE  /\ o \in Object /\ o # None
                     /\ rs[o] \in Row /\ rs[o].order \in Int /\ rs[o].project \in Project
BY TreeAssumption DEF IsTable, Row

LEMMA SceneIsFinite == ASSUME NEW rs, IsTable(rs), NEW p
                       PROVE  /\ IsFiniteSet(Scene(rs, p))
                              /\ Cardinality(Scene(rs, p)) \in Nat
BY TreeAssumption, FS_Subset, FS_CardinalityType DEF Scene, IsTable

LEMMA ShapeIsEnough ==
  ASSUME NEW rs, NEW rt, SameShape(rs, rt)
  PROVE  /\ \A p : Scene(rt, p) = Scene(rs, p)
         /\ \A as : Showing(rt, as) = Showing(rs, as)
         /\ \A as : AssetsExist(rs, as) => AssetsExist(rt, as)
         /\ Acyclic(rs) => Acyclic(rt)
         /\ ParentsExist(rs) => ParentsExist(rt)
<1> USE DEF SameShape
<1>1. \A p : Scene(rt, p) = Scene(rs, p)
  BY DEF Scene
<1>2. \A as : Showing(rt, as) = Showing(rs, as)
  BY DEF Showing
<1>3. \A as : AssetsExist(rs, as) => AssetsExist(rt, as)
  BY DEF AssetsExist
<1>4. Acyclic(rs) => Acyclic(rt)
  BY DEF Acyclic
<1>5. ParentsExist(rs) => ParentsExist(rt)
  BY <1>1 DEF ParentsExist
<1> QED
  BY <1>1, <1>2, <1>3, <1>4, <1>5

LEMMA Shifting ==
  ASSUME NEW rs, IsTable(rs), NEW p
  PROVE  /\ SameShape(rs, Shifted(rs, p)) /\ IsTable(Shifted(rs, p))
         /\ \A o \in DOMAIN rs :
              Shifted(rs, p)[o].order = IF rs[o].project = p THEN -rs[o].order - 1
                                                             ELSE rs[o].order
BY Rows DEF SameShape, Shifted, IsTable, Row

\* Rows that are nobody's parent can go.
LEMMA Dropping ==
  ASSUME NEW rs, Planted(rs), NEW S,
         \A o \in DOMAIN rs \ S : rs[o].parent \notin S
  PROVE  /\ Planted(Without(rs, S))
         /\ DOMAIN Without(rs, S) = DOMAIN rs \ S
         /\ \A o \in DOMAIN rs \ S : Without(rs, S)[o] = rs[o]
         /\ \A p : Scene(Without(rs, S), p) = Scene(rs, p) \ S
<1> DEFINE rt == Without(rs, S)
<1>1. DOMAIN rt = DOMAIN rs \ S /\ \A o \in DOMAIN rs \ S : rt[o] = rs[o]
  BY DEF Without
<1>2. IsTable(rt)
  BY DEF Planted, IsTable, Without
<1> HIDE DEF rt
<1>3. \A p : Scene(rt, p) = Scene(rs, p) \ S
  BY <1>1 DEF Scene
<1>4. Acyclic(rt)
  BY <1>1 DEF Acyclic, Planted
<1>5. ParentsExist(rt)
  BY <1>1, <1>3 DEF ParentsExist, Planted
<1> QED
  BY <1>1, <1>2, <1>3, <1>4, <1>5 DEF Planted, rt

\* An object that hangs under a parent whose walk upwards does not meet it.
LEMMA Hanging ==
  ASSUME NEW rs, Planted(rs), NEW p \in Project, NEW o \in Object, NEW q,
         ValidParent(rs, p, o, q), o \in DOMAIN rs => rs[o].project = p,
         NEW rt, IsTable(rt), DOMAIN rt = DOMAIN rs \cup {o},
         rt[o].parent = q, rt[o].project = p,
         \A x \in DOMAIN rs : rt[x].project = rs[x].project,
         \A x \in DOMAIN rs \ {o} : rt[x].parent = rs[x].parent
  PROVE  Planted(rt)
<1>1. ASSUME NEW S \in SUBSET DOMAIN rt, S # {}, \A x \in S : rt[x].parent \in S
      PROVE  FALSE
  <2>0. None \notin S
    BY TreeAssumption DEF IsTable
  <2>1. CASE o \notin S
    BY <1>1, <2>1 DEF Planted, Acyclic
  <2>2. CASE o \in S
    <3>1. q \in S /\ q # None
      BY <1>1, <2>0, <2>2
    <3>2. PICK C \in SUBSET (Scene(rs, p) \ {o}) :
            q \in C /\ \A x \in C : rs[x].parent \in C \cup {None}
      BY <3>1 DEF ValidParent
    <3>3. S \cap C \subseteq DOMAIN rs /\ S \cap C # {}
      BY <3>1, <3>2 DEF Scene
    <3>4. \A x \in S \cap C : rs[x].parent \in S \cap C
      BY <1>1, <2>0, <3>2, <3>3
    <3> QED
      BY <3>3, <3>4 DEF Planted, Acyclic
  <2> QED
    BY <2>1, <2>2
<1>2. Acyclic(rt)
  BY <1>1 DEF Acyclic
<1>3. ASSUME NEW x \in DOMAIN rt, rt[x].parent # None
      PROVE  rt[x].parent \in Scene(rt, rt[x].project) \ {x}
  <2>1. CASE x = o
    <3>1. q \in Scene(rs, p) \ {o}
      BY <1>3, <2>1 DEF ValidParent
    <3> QED
      BY <2>1, <3>1 DEF Scene
  <2>2. CASE x # o
    <3>1. rs[x].parent \in Scene(rs, rs[x].project) \ {x}
      BY <1>3, <2>2 DEF Planted, ParentsExist
    <3> QED
      BY <2>2, <3>1 DEF Scene
  <2> QED
    BY <2>1, <2>2
<1> QED
  BY <1>2, <1>3 DEF Planted, ParentsExist

\* A scene gets new numbers while the others keep theirs.
LEMMA Renumbering ==
  ASSUME NEW rs, IsTable(rs), NEW p \in Project, NEW t,
         \A o \in DOMAIN rs : rs[o].order >= 0,
         OrdersDiffer(rs),
         \A r \in Project \ {p} :
           {rs[o].order : o \in Scene(rs, r)} = 0 .. Cardinality(Scene(rs, r)) - 1,
         t \in [Scene(rs, p) -> 0 .. Cardinality(Scene(rs, p)) - 1],
         \A o, x \in Scene(rs, p) : o # x => t[o] # t[x]
  PROVE  Settled(Shifted(rs, p), t)
<1> DEFINE rt == Shifted(rs, p)
<1>0. /\ DOMAIN rt = DOMAIN rs
      /\ \A o \in DOMAIN rs : rt[o].project = rs[o].project
      /\ \A r : Scene(rt, r) = Scene(rs, r)
      /\ \A o \in DOMAIN rs :
           rt[o].order = IF rs[o].project = p THEN -rs[o].order - 1 ELSE rs[o].order
  BY Shifting, ShapeIsEnough DEF SameShape
<1> HIDE DEF rt
<1>1. \A o \in DOMAIN rs : rs[o].order \in Nat
  BY Rows
<1>2. OrdersDiffer(rt)
  BY <1>0, <1>1 DEF OrdersDiffer
<1>3. \A o \in DOMAIN rs : o \in DOMAIN t <=> rt[o].order < 0
  BY <1>0, <1>1 DEF Scene
<1>4. \A o \in DOMAIN rs :
        Coming(rt, t, o) = IF rs[o].project = p THEN t[o] ELSE rs[o].order
  BY <1>0 DEF Coming, Scene
<1>5. ASSUME NEW r \in Project
      PROVE  {Coming(rt, t, o) : o \in Scene(rt, r)} = 0 .. Cardinality(Scene(rt, r)) - 1
  <2>1. CASE r = p
    <3>1. {t[o] : o \in Scene(rs, p)} = 0 .. Cardinality(Scene(rs, p)) - 1
      BY SceneIsFinite, Pigeons
    <3>2. {Coming(rt, t, o) : o \in Scene(rt, r)} = {t[o] : o \in Scene(rs, p)}
      BY <1>0, <1>4, <2>1 DEF Scene
    <3> QED
      BY <1>0, <2>1, <3>1, <3>2
  <2>2. CASE r # p
    <3>1. {Coming(rt, t, o) : o \in Scene(rt, r)} = {rs[o].order : o \in Scene(rs, r)}
      BY <1>0, <1>4, <2>2 DEF Scene
    <3> QED
      BY <1>0, <2>2, <3>1
  <2> QED
    BY <2>1, <2>2
<1>6. \A o, x \in DOMAIN rt :
        o # x /\ rt[o].project = rt[x].project => Coming(rt, t, o) # Coming(rt, t, x)
  BY <1>0, <1>4 DEF OrdersDiffer, Scene
<1> QED
  BY <1>0, <1>2, <1>3, <1>5, <1>6 DEF Settled, Scene, rt

\* The same when the list stays as it is.
LEMMA Closing ==
  ASSUME NEW rs, IsTable(rs), NEW p \in Project,
         \A o \in DOMAIN rs : rs[o].order >= 0,
         OrdersDiffer(rs),
         \A r \in Project \ {p} :
           {rs[o].order : o \in Scene(rs, r)} = 0 .. Cardinality(Scene(rs, r)) - 1
  PROVE  LET t == Ranks(rs, Scene(rs, p))
         IN  /\ Settled(Shifted(rs, p), t)
             /\ t \in [Scene(rs, p) -> Nat]
             /\ \A o, x \in DOMAIN rs :
                  rs[o].project = rs[x].project =>
                    (rs[o].order < rs[x].order <=>
                       Coming(Shifted(rs, p), t, o) < Coming(Shifted(rs, p), t, x))
<1> DEFINE S == Scene(rs, p)
           t == Ranks(rs, S)
<1>1. /\ \A o \in S : Rank(rs, S, o) \in 0 .. Cardinality(S) - 1
      /\ \A o, x \in S : rs[o].order < rs[x].order <=> Rank(rs, S, o) < Rank(rs, S, x)
      /\ \A o, x \in S : o # x => Rank(rs, S, o) # Rank(rs, S, x)
  <2>1. IsFiniteSet(S) /\ \A o \in S : rs[o].order \in Int
    BY SceneIsFinite, Rows DEF Scene
  <2>2. \A o, x \in S : o # x => rs[o].order # rs[x].order
    BY DEF Scene, OrdersDiffer
  <2> HIDE DEF S
  <2> QED
    BY <2>1, <2>2, Ranking
<1>2. \A o \in S : t[o] = Rank(rs, S, o)
  BY DEF Ranks
<1>3. DOMAIN t = S /\ t \in [S -> 0 .. Cardinality(S) - 1]
  BY <1>1 DEF Ranks
<1>4. \A o, x \in S : o # x => t[o] # t[x]
  BY <1>1, <1>2
<1> HIDE DEF t
<1>5. Settled(Shifted(rs, p), t)
  BY <1>3, <1>4, Renumbering
<1>6. t \in [S -> Nat]
  <2>1. Cardinality(S) \in Nat
    BY SceneIsFinite
  <2> QED
    BY <1>3, <2>1
<1>7. ASSUME NEW o \in DOMAIN rs, NEW x \in DOMAIN rs, rs[o].project = rs[x].project
      PROVE  rs[o].order < rs[x].order <=>
               Coming(Shifted(rs, p), t, o) < Coming(Shifted(rs, p), t, x)
  <2>1. \A y \in {o, x} : Coming(Shifted(rs, p), t, y) =
                           IF rs[o].project = p THEN Rank(rs, S, y) ELSE rs[y].order
    BY <1>2, <1>3, <1>7, Shifting DEF Coming, Scene
  <2>2. CASE rs[o].project = p
    BY <1>1, <1>7, <2>1, <2>2 DEF Scene
  <2>3. CASE rs[o].project # p
    BY <2>1, <2>3
  <2> QED
    BY <2>2, <2>3
<1> QED
  BY <1>5, <1>6, <1>7 DEF t

\* Nothing has still to be set: the orders are the indices.
LEMMA Resting ==
  ASSUME NEW rs, IsTable(rs), NEW t, DOMAIN t = {}
  PROVE  Settled(rs, t) <=> OrdersDiffer(rs) /\ OrdersAreDense(rs)
<1>1. \A o : Coming(rs, t, o) = rs[o].order
  BY DEF Coming
<1>2. ASSUME OrdersAreDense(rs), NEW o \in DOMAIN rs
      PROVE  rs[o].order \in Nat
  <2>1. o \in Scene(rs, rs[o].project) /\ rs[o].project \in Project
    BY Rows DEF Scene
  <2>2. rs[o].order \in {rs[x].order : x \in Scene(rs, rs[o].project)}
    BY <2>1
  <2> QED
    BY <1>2, <2>1, <2>2, SceneIsFinite DEF OrdersAreDense
<1>3. ASSUME OrdersDiffer(rs), OrdersAreDense(rs)
      PROVE  Settled(rs, t)
  BY <1>1, <1>2, <1>3 DEF Settled, OrdersDiffer, OrdersAreDense
<1> QED
  BY <1>1, <1>3 DEF Settled, OrdersAreDense

-----------------------------------------------------------------------------
(* The invariant.                                                          *)

\* Whoever is in both tables is in the same project and, moved apart, in the same order.
SameOrder(os, rs, t, moved) ==
  \A o, x \in (DOMAIN os \cap DOMAIN rs) \ {moved} :
    /\ rs[o].project = os[o].project
    /\ os[o].project = os[x].project =>
         (os[o].order < os[x].order <=> Coming(rs, t, o) < Coming(rs, t, x))

UnderWay ==
  /\ Settled(rows, target)
  /\ Acyclic(rows) /\ ParentsExist(rows) /\ AssetsExist(rows, assets)
  /\ \A o \in DOMAIN rows :
       rows[o].parent \in Showing(rows, going) => o \in Showing(rows, going)
  /\ \A o \in Showing(rows, going) : rows[o].project \in left
  /\ \A p \in Project \ advanced : Scene(rows, p) = Scene(objects, p)
  /\ \E moved \in Object \cup {None} :
       /\ SameOrder(objects, rows, target, moved)
       /\ moved # None => left = {} /\ DOMAIN objects \subseteq DOMAIN rows

TreeInv ==
  /\ TreeTypeOK /\ ScenesAreWhole
  /\ ~busy => left = {} /\ going = {} /\ DOMAIN target = {}
  /\ busy => UnderWay

LEMMA Wholeness ==
  ASSUME TreeInv
  PROVE  /\ Planted(objects) /\ OrdersDiffer(objects) /\ AssetsExist(objects, assets)
         /\ \A p \in Project : {objects[o].order : o \in Scene(objects, p)}
                              = 0 .. Cardinality(Scene(objects, p)) - 1
         /\ \A o \in DOMAIN objects : objects[o].order \in Nat
<1>1. Planted(objects) /\ OrdersDiffer(objects) /\ AssetsExist(objects, assets)
  BY DEF TreeInv, TreeTypeOK, ScenesAreWhole, Planted
<1>2. \A p \in Project : {objects[o].order : o \in Scene(objects, p)}
                         = 0 .. Cardinality(Scene(objects, p)) - 1
  BY DEF TreeInv, ScenesAreWhole, OrdersAreDense
<1>3. ASSUME NEW o \in DOMAIN objects
      PROVE  objects[o].order \in Nat
  <2>1. o \in Scene(objects, objects[o].project) /\ objects[o].project \in Project
    BY <1>1, Rows DEF Scene, Planted
  <2>2. Cardinality(Scene(objects, objects[o].project)) \in Nat
    BY <1>1, SceneIsFinite DEF Planted
  <2> QED
    BY <1>2, <2>1, <2>2
<1> QED
  BY <1>1, <1>2, <1>3

\* What a step leaves of the committed tables.
LEMMA TablesStay ==
  ASSUME TreeInv, UNCHANGED <<objects, assets>>
  PROVE  ScenesAreWhole'
<1>1. Acyclic(objects') /\ ParentsExist(objects') /\ OrdersDiffer(objects')
      /\ OrdersAreDense(objects') /\ AssetsExist(objects', assets')
  BY DEF TreeInv, ScenesAreWhole
<1> QED
  BY <1>1 DEF ScenesAreWhole, Acyclic, ParentsExist, OrdersDiffer, OrdersAreDense, AssetsExist,
              Scene

\* What an edit has to bring with it when it takes the lock.
LEMMA Beginning ==
  ASSUME TreeInv, NEW rs, NEW t, NEW p \in Project,
         BeginEdit(rs, t, p), checked' \subseteq Asset,
         Planted(rs), AssetsExist(rs, assets), Settled(rs, t),
         t \in [DOMAIN t -> Nat],
         \A r \in Project \ {p} : Scene(rs, r) = Scene(objects, r),
         \E moved \in Object \cup {None} :
           /\ SameOrder(objects, rs, t, moved)
           /\ moved # None => DOMAIN objects \subseteq DOMAIN rs
  PROVE  TreeInv'
<1> USE DEF BeginEdit
<1>1. TreeTypeOK'
  BY DEF TreeInv, TreeTypeOK, Planted, Settled, IsTable
<1>2. ScenesAreWhole'
  BY TablesStay
<1>3. left' = {} /\ going' = {}
  BY DEF TreeInv
<1>4. Showing(rows', going') = {}
  BY <1>3 DEF Showing
<1>5. PICK moved \in Object \cup {None} :
         /\ SameOrder(objects, rs, t, moved)
         /\ moved # None => DOMAIN objects \subseteq DOMAIN rs
  OBVIOUS
<1>6. SameOrder(objects', rows', target', moved)
      /\ (moved # None => left' = {} /\ DOMAIN objects' \subseteq DOMAIN rows')
  BY <1>3, <1>5
<1>7. UnderWay'
  BY <1>3, <1>4, <1>6 DEF UnderWay, Planted
<1> QED
  BY <1>1, <1>2, <1>7 DEF TreeInv

LEMMA AddKeeps ==
  ASSUME TreeInv, NEW p \in Project, NEW o \in Object, NEW q \in Object \cup {None},
         NEW a \in Asset, Add(p, o, q, a)
  PROVE  TreeInv'
<1> DEFINE n == Cardinality(Scene(objects, p))
           new == [project |-> p, parent |-> q, asset |-> a, order |-> n]
           rs == [x \in DOMAIN objects \cup {o} |-> IF x = o THEN new ELSE objects[x]]
<1>1. /\ Planted(objects) /\ OrdersDiffer(objects) /\ AssetsExist(objects, assets)
      /\ \A r \in Project : {objects[x].order : x \in Scene(objects, r)}
                           = 0 .. Cardinality(Scene(objects, r)) - 1
  BY Wholeness
<1>2. o \notin DOMAIN objects /\ a \in assets /\ ValidParent(objects, p, o, q)
      /\ BeginEdit(rs, Empty, p) /\ checked' \subseteq Asset
  BY DEF Add, TreeInv, TreeTypeOK
<1>3. n \in Nat /\ IsFiniteSet(Scene(objects, p)) /\ new \in Row
  BY <1>1, SceneIsFinite DEF Planted, Row
<1>4. /\ DOMAIN rs = DOMAIN objects \cup {o} /\ rs[o] = new
      /\ \A x \in DOMAIN objects : rs[x] = objects[x]
      /\ IsTable(rs)
  BY <1>1, <1>2, <1>3 DEF Planted, IsTable
<1> HIDE DEF rs, n
<1>5. Planted(rs)
  BY <1>1, <1>2, <1>4, Hanging
<1>6. AssetsExist(rs, assets)
  BY <1>1, <1>2, <1>4 DEF AssetsExist
<1>7. Scene(rs, p) = Scene(objects, p) \cup {o}
      /\ \A r \in Project \ {p} : Scene(rs, r) = Scene(objects, r)
  BY <1>4 DEF Scene
<1>8. Cardinality(Scene(rs, p)) = n + 1
  BY <1>2, <1>3, <1>7, FS_AddElement DEF n, Scene
<1>9. {objects[x].order : x \in Scene(objects, p)} = 0 .. n - 1
  BY <1>1 DEF n
<1>10. OrdersAreDense(rs)
  <2>1. ASSUME NEW r \in Project
        PROVE  {rs[x].order : x \in Scene(rs, r)} = 0 .. Cardinality(Scene(rs, r)) - 1
    <3>1. CASE r = p
      <4>1. {rs[x].order : x \in Scene(rs, p)}
              = {objects[x].order : x \in Scene(objects, p)} \cup {n}
        BY <1>4, <1>7 DEF Scene
      <4> QED
        BY <1>3, <1>8, <1>9, <3>1, <4>1
    <3>2. CASE r # p
      <4>1. {rs[x].order : x \in Scene(rs, r)} = {objects[x].order : x \in Scene(objects, r)}
        BY <1>4, <1>7, <3>2 DEF Scene
      <4> QED
        BY <1>1, <1>7, <3>2, <4>1
    <3> QED
      BY <3>1, <3>2
  <2> QED
    BY <2>1 DEF OrdersAreDense
<1>11. \A x \in Scene(objects, p) : objects[x].order # n
  BY <1>3, <1>9
<1>12. OrdersDiffer(rs)
  BY <1>1, <1>4, <1>11 DEF OrdersDiffer, Scene
<1>13. DOMAIN Empty = {}
  BY DEF Empty
<1>14. Settled(rs, Empty)
  BY <1>4, <1>10, <1>12, <1>13, Resting
<1>15. SameOrder(objects, rs, Empty, None)
  BY <1>4, <1>13 DEF SameOrder, Coming
<1>16. Empty \in [DOMAIN Empty -> Nat]
  BY DEF Empty
<1> QED
  BY <1>2, <1>5, <1>6, <1>7, <1>14, <1>15, <1>16, Beginning

LEMMA MoveUnderKeeps ==
  ASSUME TreeInv, NEW p \in Project, NEW o \in Object, NEW q \in Object \cup {None},
         MoveUnder(p, o, q)
  PROVE  TreeInv'
<1> DEFINE rs == [objects EXCEPT ![o].parent = q]
<1>1. /\ Planted(objects) /\ OrdersDiffer(objects) /\ AssetsExist(objects, assets)
      /\ OrdersAreDense(objects) /\ checked \subseteq Asset
  BY Wholeness DEF TreeInv, TreeTypeOK, ScenesAreWhole
<1>2. /\ o \in DOMAIN objects /\ objects[o].project = p /\ ValidParent(objects, p, o, q)
      /\ BeginEdit(rs, Empty, p) /\ checked' = checked
  BY DEF MoveUnder, Scene
<1>3. /\ DOMAIN rs = DOMAIN objects /\ IsTable(rs) /\ rs[o].parent = q
      /\ \A x \in DOMAIN objects : /\ rs[x].project = objects[x].project
                                 /\ rs[x].order = objects[x].order
                                 /\ rs[x].asset = objects[x].asset
      /\ \A x \in DOMAIN objects \ {o} : rs[x].parent = objects[x].parent
  BY <1>1, <1>2 DEF Planted, IsTable, Row
<1> HIDE DEF rs
<1>4. Planted(rs)
  BY <1>1, <1>2, <1>3, Hanging
<1>5. AssetsExist(rs, assets)
  BY <1>1, <1>3 DEF AssetsExist
<1>6. \A r : Scene(rs, r) = Scene(objects, r)
  BY <1>3 DEF Scene
<1>7. OrdersDiffer(rs)
  BY <1>1, <1>3 DEF OrdersDiffer
<1>8. OrdersAreDense(rs)
  <2>1. ASSUME NEW r \in Project
        PROVE  {rs[x].order : x \in Scene(rs, r)} = {objects[x].order : x \in Scene(objects, r)}
    BY <1>3, <1>6 DEF Scene
  <2> QED
    BY <1>1, <1>6, <2>1 DEF OrdersAreDense
<1>9. DOMAIN Empty = {} /\ Empty \in [DOMAIN Empty -> Nat]
  BY DEF Empty
<1>10. Settled(rs, Empty)
  BY <1>3, <1>7, <1>8, <1>9, Resting
<1>11. SameOrder(objects, rs, Empty, None)
  BY <1>3, <1>9 DEF SameOrder, Coming
<1> QED
  BY <1>1, <1>2, <1>4, <1>5, <1>6, <1>9, <1>10, <1>11, Beginning

LEMMA MoveToKeeps ==
  ASSUME TreeInv, NEW p \in Project, NEW o \in Object, NEW q \in Object \cup {None}, NEW k,
         MoveTo(p, o, q, k)
  PROVE  TreeInv'
<1> DEFINE S == Scene(objects, p)
           hung == [objects EXCEPT ![o].parent = q]
           rs == Shifted(hung, p)
           t == Moved(objects, S, o, k)
<1>1. /\ Planted(objects) /\ OrdersDiffer(objects) /\ AssetsExist(objects, assets)
      /\ \A r \in Project : {objects[x].order : x \in Scene(objects, r)}
                           = 0 .. Cardinality(Scene(objects, r)) - 1
      /\ \A x \in DOMAIN objects : objects[x].order \in Nat
      /\ checked \subseteq Asset
  BY Wholeness DEF TreeInv, TreeTypeOK
<1>2. /\ o \in DOMAIN objects /\ objects[o].project = p /\ ValidParent(objects, p, o, q)
      /\ k \in 0 .. Cardinality(S) - 1
      /\ BeginEdit(rs, t, p) /\ checked' = checked
  BY DEF MoveTo, Scene
<1>3. /\ DOMAIN hung = DOMAIN objects /\ IsTable(hung) /\ hung[o].parent = q
      /\ \A x \in DOMAIN objects : /\ hung[x].project = objects[x].project
                                 /\ hung[x].order = objects[x].order
                                 /\ hung[x].asset = objects[x].asset
      /\ \A x \in DOMAIN objects \ {o} : hung[x].parent = objects[x].parent
  BY <1>1, <1>2 DEF Planted, IsTable, Row
<1> HIDE DEF hung
<1>4. \A r : Scene(hung, r) = Scene(objects, r)
  BY <1>3 DEF Scene
<1>5. SameShape(hung, rs) /\ IsTable(rs)
  BY <1>3, Shifting
<1>6. Planted(rs) /\ AssetsExist(rs, assets) /\ \A r : Scene(rs, r) = Scene(objects, r)
  <2>1. Planted(hung)
    BY <1>1, <1>2, <1>3, Hanging
  <2>2. AssetsExist(hung, assets)
    BY <1>1, <1>3 DEF AssetsExist
  <2> QED
    BY <1>4, <1>5, <2>1, <2>2, ShapeIsEnough DEF Planted
<1>7. IsFiniteSet(S) /\ Cardinality(S) \in Nat /\ o \in S
  BY <1>1, <1>2, SceneIsFinite DEF Planted, Scene
<1>8. /\ t \in [S -> 0 .. Cardinality(S) - 1]
      /\ \A x, y \in S : x # y => t[x] # t[y]
      /\ \A x, y \in S \ {o} : objects[x].order < objects[y].order <=> t[x] < t[y]
  <2>1. \A x \in S : objects[x].order \in Int
    BY <1>1 DEF Scene
  <2>2. \A x, y \in S : x # y => objects[x].order # objects[y].order
    BY <1>1 DEF Scene, OrdersDiffer
  <2> HIDE DEF S
  <2> QED
    BY <1>2, <1>7, <2>1, <2>2, Moving
<1> HIDE DEF t
<1>9. Settled(rs, t)
  <2>1. OrdersDiffer(hung) /\ \A x \in DOMAIN hung : hung[x].order >= 0
    BY <1>1, <1>3 DEF OrdersDiffer
  <2>2. ASSUME NEW r \in Project
        PROVE  {hung[x].order : x \in Scene(hung, r)} = {objects[x].order : x \in Scene(objects, r)}
    BY <1>3, <1>4 DEF Scene
  <2>3. \A r \in Project : {hung[x].order : x \in Scene(hung, r)}
                         = 0 .. Cardinality(Scene(hung, r)) - 1
    BY <1>1, <1>4, <2>2
  <2> QED
    BY <1>3, <1>4, <1>8, <2>1, <2>3, Renumbering
<1>10. DOMAIN t = S /\ t \in [DOMAIN t -> Nat]
  BY <1>7, <1>8
<1>11. SameOrder(objects, rs, t, o)
  <2>1. \A x \in DOMAIN objects :
          /\ rs[x].project = objects[x].project
          /\ Coming(rs, t, x) = IF x \in S THEN t[x] ELSE objects[x].order
    BY <1>3, <1>5, <1>10, Shifting DEF SameShape, Coming, Scene
  <2> QED
    BY <1>8, <2>1 DEF SameOrder, Scene
<1>12. DOMAIN objects \subseteq DOMAIN rs
  BY <1>3, <1>5 DEF SameShape
<1> QED
  BY <1>1, <1>2, <1>6, <1>9, <1>10, <1>11, <1>12, Beginning

LEMMA RemoveKeeps ==
  ASSUME TreeInv, NEW p \in Project, NEW o \in Object, Remove(p, o)
  PROVE  TreeInv'
<1> DEFINE rest == Without(objects, {o})
           rs == Shifted(rest, p)
           t == Ranks(rest, Scene(rest, p))
<1>1. /\ Planted(objects) /\ OrdersDiffer(objects) /\ AssetsExist(objects, assets)
      /\ \A r \in Project : {objects[x].order : x \in Scene(objects, r)}
                           = 0 .. Cardinality(Scene(objects, r)) - 1
      /\ \A x \in DOMAIN objects : objects[x].order \in Nat
      /\ checked \subseteq Asset
  BY Wholeness DEF TreeInv, TreeTypeOK
<1>2. /\ o \in DOMAIN objects /\ objects[o].project = p
      /\ \A x \in Scene(objects, p) : objects[x].parent # o
      /\ BeginEdit(rs, t, p) /\ checked' = checked
  BY DEF Remove, Scene
<1>3. ASSUME NEW x \in DOMAIN objects
      PROVE  objects[x].parent # o
  <2>1. objects[x].parent = o => objects[x].project = p
    BY <1>1, <1>2, Rows DEF Planted, ParentsExist, Scene
  <2> QED
    BY <1>2, <2>1 DEF Scene
<1>4. /\ Planted(rest) /\ DOMAIN rest = DOMAIN objects \ {o}
      /\ \A x \in DOMAIN objects \ {o} : rest[x] = objects[x]
      /\ \A r : Scene(rest, r) = Scene(objects, r) \ {o}
  <2> DEFINE gone == {o}
  <2>1. \A x \in DOMAIN objects \ gone : objects[x].parent \notin gone
    BY <1>3
  <2> HIDE DEF gone
  <2>2. /\ Planted(Without(objects, gone)) /\ DOMAIN Without(objects, gone) = DOMAIN objects \ gone
        /\ \A x \in DOMAIN objects \ gone : Without(objects, gone)[x] = objects[x]
        /\ \A r : Scene(Without(objects, gone), r) = Scene(objects, r) \ gone
    BY <1>1, <2>1, Dropping
  <2> QED
    BY <2>2 DEF gone
<1> HIDE DEF rest
<1>5. \A r \in Project \ {p} : Scene(rest, r) = Scene(objects, r)
  BY <1>2, <1>4 DEF Scene
<1>6. OrdersDiffer(rest) /\ \A x \in DOMAIN rest : rest[x].order >= 0
  BY <1>1, <1>4 DEF OrdersDiffer
<1>7. \A r \in Project \ {p} : {rest[x].order : x \in Scene(rest, r)}
                             = 0 .. Cardinality(Scene(rest, r)) - 1
  <2>1. ASSUME NEW r \in Project \ {p}
        PROVE  {rest[x].order : x \in Scene(rest, r)} = {objects[x].order : x \in Scene(objects, r)}
    BY <1>4, <1>5 DEF Scene
  <2> QED
    BY <1>1, <1>5, <2>1
<1>8. IsTable(rest)
  BY <1>4 DEF Planted
<1>9. /\ Settled(rs, t) /\ t \in [Scene(rest, p) -> Nat]
      /\ \A x, y \in DOMAIN rest : rest[x].project = rest[y].project =>
           (rest[x].order < rest[y].order <=> Coming(rs, t, x) < Coming(rs, t, y))
  BY <1>6, <1>7, <1>8, Closing
<1>10. SameShape(rest, rs) /\ IsTable(rs)
  BY <1>8, Shifting
<1>11. Planted(rs) /\ AssetsExist(rs, assets) /\ \A r : Scene(rs, r) = Scene(rest, r)
  <2>1. AssetsExist(rest, assets)
    BY <1>1, <1>4 DEF AssetsExist
  <2> QED
    BY <1>4, <1>10, <2>1, ShapeIsEnough DEF Planted
<1> HIDE DEF rs, t
<1>12. SameOrder(objects, rs, t, None)
  BY <1>4, <1>9, <1>10 DEF SameOrder, SameShape
<1>13. t \in [DOMAIN t -> Nat]
  BY <1>9
<1> QED
  BY <1>1, <1>2, <1>5, <1>9, <1>11, <1>12, <1>13, Beginning DEF rs, t

LEMMA ClearKeeps ==
  ASSUME TreeInv, NEW p \in Project, Clear(p)
  PROVE  TreeInv'
<1> DEFINE S == Scene(objects, p)
           rs == Without(objects, S)
<1>1. /\ Planted(objects) /\ OrdersDiffer(objects) /\ AssetsExist(objects, assets)
      /\ \A r \in Project : {objects[x].order : x \in Scene(objects, r)}
                           = 0 .. Cardinality(Scene(objects, r)) - 1
      /\ checked \subseteq Asset
  BY Wholeness DEF TreeInv, TreeTypeOK
<1>2. BeginEdit(rs, Empty, p) /\ checked' = checked
  BY DEF Clear
<1>3. ASSUME NEW x \in DOMAIN objects \ S
      PROVE  objects[x].parent \notin S
  <2>1. objects[x].parent \in S => objects[x].parent \in Scene(objects, objects[x].project)
    BY <1>1, TreeAssumption DEF Planted, ParentsExist, Scene, IsTable
  <2> QED
    BY <1>3, <2>1 DEF Scene
<1>4. /\ Planted(rs) /\ DOMAIN rs = DOMAIN objects \ S
      /\ \A x \in DOMAIN objects \ S : rs[x] = objects[x]
      /\ \A r : Scene(rs, r) = Scene(objects, r) \ S
  BY <1>1, <1>3, Dropping
<1> HIDE DEF rs
<1>5. Scene(rs, p) = {} /\ \A r \in Project \ {p} : Scene(rs, r) = Scene(objects, r)
  BY <1>4 DEF Scene
<1>6. OrdersDiffer(rs) /\ AssetsExist(rs, assets)
  BY <1>1, <1>4 DEF OrdersDiffer, AssetsExist
<1>7. OrdersAreDense(rs)
  <2>1. ASSUME NEW r \in Project
        PROVE  {rs[x].order : x \in Scene(rs, r)} = 0 .. Cardinality(Scene(rs, r)) - 1
    <3>1. CASE r = p
      <4>1. Cardinality(Scene(rs, r)) = 0
        BY <1>5, <3>1, FS_EmptySet
      <4> QED
        BY <1>5, <3>1, <4>1
    <3>2. CASE r # p
      <4>1. {rs[x].order : x \in Scene(rs, r)} = {objects[x].order : x \in Scene(objects, r)}
        BY <1>4, <1>5, <3>2 DEF Scene
      <4> QED
        BY <1>1, <1>5, <3>2, <4>1
    <3> QED
      BY <3>1, <3>2
  <2> QED
    BY <2>1 DEF OrdersAreDense
<1>8. DOMAIN Empty = {} /\ Empty \in [DOMAIN Empty -> Nat]
  BY DEF Empty
<1>9. Settled(rs, Empty)
  BY <1>4, <1>6, <1>7, <1>8, Resting DEF Planted
<1>10. SameOrder(objects, rs, Empty, None)
  BY <1>4, <1>8 DEF SameOrder, Coming
<1> QED
  BY <1>1, <1>2, <1>4, <1>5, <1>6, <1>8, <1>9, <1>10, Beginning

LEMMA RemoveAssetsKeeps ==
  ASSUME TreeInv, NEW as \in SUBSET Asset, RemoveAssets(as)
  PROVE  TreeInv'
<1> USE DEF RemoveAssets, treeTables
<1>1. /\ rows' = objects /\ going' = as /\ DOMAIN target = {} /\ busy' = TRUE
      /\ UNCHANGED <<objects, assets, checked, target, advanced>>
      /\ left' = {p \in Project : Scene(objects, p) \cap Showing(objects, as) # {}}
  BY DEF TreeInv
<1>2. TreeTypeOK'
  BY <1>1 DEF TreeInv, TreeTypeOK
<1>3. ScenesAreWhole'
  BY <1>1, TablesStay
<1>4. Planted(objects) /\ OrdersDiffer(objects) /\ AssetsExist(objects, assets)
  BY Wholeness
<1>5. Settled(objects, target)
  BY <1>1, <1>4, Resting DEF Planted, TreeInv, ScenesAreWhole
<1>6. ASSUME NEW o \in Showing(objects, as)
      PROVE  objects[o].project \in left'
  <2>1. o \in Scene(objects, objects[o].project) /\ objects[o].project \in Project
    BY <1>4, Rows DEF Planted, Scene, Showing
  <2> QED
    BY <1>1, <2>1
<1>7. SameOrder(objects, objects, target, None)
  BY <1>1 DEF SameOrder, Coming
<1>8. UnderWay'
  <2>1. Settled(rows', target')
    BY <1>1, <1>5
  <2>2. /\ Acyclic(rows') /\ ParentsExist(rows') /\ AssetsExist(rows', assets')
        /\ \A o \in DOMAIN rows' :
             rows'[o].parent \in Showing(rows', going') => o \in Showing(rows', going')
        /\ \A p \in Project \ advanced' : Scene(rows', p) = Scene(objects', p)
    BY <1>1, <1>4 DEF Planted
  <2>3. \A o \in Showing(rows', going') : rows'[o].project \in left'
    BY <1>1, <1>6
  <2>4. SameOrder(objects', rows', target', None)
    BY <1>1, <1>7
  <2> QED
    BY <2>1, <2>2, <2>3, <2>4 DEF UnderWay
<1> QED
  BY <1>1, <1>2, <1>3, <1>8 DEF TreeInv

LEMMA ClearProjectKeeps ==
  ASSUME TreeInv, NEW p \in Project, ClearProject(p)
  PROVE  TreeInv'
<1> DEFINE S == Scene(rows, p) \cap Showing(rows, going)
           rest == Without(rows, S)
           t == Ranks(rest, Scene(rest, p))
<1>1. /\ busy /\ UnderWay /\ IsTable(rows)
      /\ p \in left /\ DOMAIN target = {}
      /\ left' = left \ {p} /\ advanced' = advanced \cup {p}
      /\ rows' = Shifted(rest, p) /\ target' = t
      /\ UNCHANGED <<objects, assets, checked, busy, going>>
  BY DEF ClearProject, TreeInv, TreeTypeOK, treeTables
<1>2. Planted(rows) /\ OrdersDiffer(rows) /\ OrdersAreDense(rows) /\ AssetsExist(rows, assets)
  BY <1>1, Resting DEF UnderWay, Planted
<1>3. ASSUME NEW x \in DOMAIN rows \ S
      PROVE  rows[x].parent \notin S
  <2>1. SUFFICES ASSUME rows[x].parent \in S PROVE FALSE
    OBVIOUS
  <2>2. x \in Showing(rows, going)
    BY <1>1, <2>1 DEF UnderWay
  <2>3. rows[x].parent # None
    BY <1>2, <2>1, Rows DEF Planted, Scene
  <2>4. rows[x].parent \in Scene(rows, rows[x].project)
    BY <1>2, <2>3 DEF Planted, ParentsExist
  <2> QED
    BY <1>3, <2>1, <2>2, <2>4 DEF Scene
<1>4. /\ Planted(rest) /\ DOMAIN rest = DOMAIN rows \ S
      /\ \A x \in DOMAIN rows \ S : rest[x] = rows[x]
      /\ \A r : Scene(rest, r) = Scene(rows, r) \ S
  <2> HIDE DEF S
  <2> QED
    BY <1>2, <1>3, Dropping
<1>5. \A r \in Project \ {p} : Scene(rest, r) = Scene(rows, r)
  <2> HIDE DEF rest
  <2> QED
    BY <1>4 DEF Scene
<1> HIDE DEF rest
<1>6. \A x \in DOMAIN rows : rows[x].order \in Nat
  <2>1. ASSUME NEW x \in DOMAIN rows PROVE rows[x].order \in Nat
    <3>1. x \in Scene(rows, rows[x].project) /\ rows[x].project \in Project
      BY <1>1, Rows DEF Scene
    <3>2. Cardinality(Scene(rows, rows[x].project)) \in Nat
      BY <1>1, SceneIsFinite
    <3> QED
      BY <1>2, <3>1, <3>2 DEF OrdersAreDense
  <2> QED
    BY <2>1
<1>7. OrdersDiffer(rest) /\ (\A x \in DOMAIN rest : rest[x].order >= 0) /\ IsTable(rest)
  BY <1>2, <1>4, <1>6 DEF OrdersDiffer, Planted
<1>8. \A r \in Project \ {p} : {rest[x].order : x \in Scene(rest, r)}
                             = 0 .. Cardinality(Scene(rest, r)) - 1
  <2>1. ASSUME NEW r \in Project \ {p}
        PROVE  {rest[x].order : x \in Scene(rest, r)} = {rows[x].order : x \in Scene(rows, r)}
    BY <1>4, <1>5 DEF Scene
  <2> QED
    BY <1>2, <1>5, <2>1 DEF OrdersAreDense
<1>9. /\ Settled(rows', t) /\ t \in [Scene(rest, p) -> Nat]
      /\ \A x, y \in DOMAIN rest : rest[x].project = rest[y].project =>
           (rest[x].order < rest[y].order <=> Coming(rows', t, x) < Coming(rows', t, y))
  BY <1>1, <1>7, <1>8, Closing
<1>10. SameShape(rest, rows') /\ IsTable(rows')
  BY <1>1, <1>7, Shifting
<1>11. /\ Planted(rows') /\ AssetsExist(rows', assets)
       /\ \A r : Scene(rows', r) = Scene(rest, r)
       /\ Showing(rows', going) = Showing(rest, going)
  <2>1. AssetsExist(rest, assets)
    BY <1>2, <1>4 DEF AssetsExist
  <2> QED
    BY <1>4, <1>10, <2>1, ShapeIsEnough DEF Planted
<1> HIDE DEF t
<1>12. Showing(rest, going) = Showing(rows, going) \ S
  BY <1>4 DEF Showing
<1>13. UnderWay'
  <2>1. \A x \in DOMAIN rows' :
          rows'[x].parent \in Showing(rows', going') => x \in Showing(rows', going')
    BY <1>1, <1>4, <1>10, <1>11, <1>12 DEF UnderWay, SameShape
  <2>2. \A x \in Showing(rows', going') : rows'[x].project \in left'
    BY <1>1, <1>4, <1>10, <1>11, <1>12 DEF UnderWay, SameShape, Showing, Scene
  <2>3. \A r \in Project \ advanced' : Scene(rows', r) = Scene(objects', r)
    BY <1>1, <1>5, <1>11 DEF UnderWay
  <2>4. SameOrder(objects', rows', target', None)
    <3>1. SameOrder(objects, rows, target, None)
      BY <1>1 DEF UnderWay
    <3>2. \A x \in DOMAIN rest : Coming(rows, target, x) = rest[x].order
      BY <1>1, <1>4 DEF Coming
    <3>3. SameOrder(objects, rows', t, None)
      BY <1>4, <1>9, <1>10, <3>1, <3>2 DEF SameOrder, SameShape
    <3> QED
      BY <1>1, <3>3
  <2> QED
    BY <1>1, <1>9, <1>11, <2>1, <2>2, <2>3, <2>4 DEF UnderWay, Planted
<1>14. TreeTypeOK'
  <2>1. DOMAIN t \subseteq Object /\ t \in [DOMAIN t -> Nat]
    BY <1>7, <1>9 DEF Scene, IsTable
  <2> QED
    BY <1>1, <1>10, <2>1 DEF TreeInv, TreeTypeOK
<1> QED
  BY <1>1, <1>13, <1>14, TablesStay DEF TreeInv

LEMMA PlaceKeeps ==
  ASSUME TreeInv, NEW o \in Object, Place(o)
  PROVE  TreeInv'
<1>1. /\ busy /\ UnderWay /\ IsTable(rows) /\ target \in [DOMAIN target -> Nat]
      /\ o \in DOMAIN target
      /\ UNCHANGED <<objects, assets, checked, busy, left, going, advanced>>
  BY DEF Place, TreeInv, TreeTypeOK, treeTables
<1>2. o \in DOMAIN rows /\ Settled(rows, target)
  BY <1>1 DEF UnderWay, Settled
<1>3. /\ SameShape(rows, rows') /\ IsTable(rows')
      /\ \A x \in DOMAIN rows : rows'[x].order = IF x = o THEN target[o] ELSE rows[x].order
  BY <1>1, <1>2 DEF Place, SameShape, IsTable, Row
<1>4. /\ DOMAIN target' = DOMAIN target \ {o}
      /\ \A x \in DOMAIN target \ {o} : target'[x] = target[x]
      /\ target' \in [DOMAIN target' -> Nat]
  BY <1>1 DEF Place, Without
<1>5. \A x \in DOMAIN rows : Coming(rows', target', x) = Coming(rows, target, x)
  BY <1>1, <1>3, <1>4 DEF Coming
<1>6. /\ \A p : Scene(rows', p) = Scene(rows, p)
      /\ \A as : Showing(rows', as) = Showing(rows, as)
      /\ AssetsExist(rows', assets) /\ Acyclic(rows') /\ ParentsExist(rows')
  BY <1>1, <1>3, ShapeIsEnough DEF UnderWay
<1>7. Settled(rows', target')
  <2>1. \A x \in DOMAIN rows' : x \in DOMAIN target' <=> rows'[x].order < 0
    BY <1>1, <1>2, <1>3, <1>4 DEF Settled, SameShape
  <2>2. OrdersDiffer(rows')
    <3>1. ASSUME NEW x \in DOMAIN rows \ {o}, rows[x].project = rows[o].project
          PROVE  rows[x].order # target[o]
      <4>1. CASE x \in DOMAIN target
        BY <1>1, <1>2, <4>1 DEF Settled
      <4>2. CASE x \notin DOMAIN target
        BY <1>1, <1>2, <3>1, <4>2 DEF Settled, Coming
      <4> QED
        BY <4>1, <4>2
    <3> QED
      BY <1>2, <1>3, <3>1 DEF OrdersDiffer, Settled, SameShape
  <2>3. ASSUME NEW p \in Project
        PROVE  {Coming(rows', target', x) : x \in Scene(rows', p)}
                 = 0 .. Cardinality(Scene(rows', p)) - 1
    <3>1. {Coming(rows', target', x) : x \in Scene(rows', p)}
            = {Coming(rows, target, x) : x \in Scene(rows, p)}
      BY <1>5, <1>6 DEF Scene
    <3> QED
      BY <1>2, <1>6, <3>1 DEF Settled
  <2>4. \A x, y \in DOMAIN rows' : x # y /\ rows'[x].project = rows'[y].project =>
          Coming(rows', target', x) # Coming(rows', target', y)
    BY <1>2, <1>3, <1>5 DEF Settled, SameShape
  <2> QED
    BY <1>2, <1>3, <1>4, <2>1, <2>2, <2>3, <2>4 DEF Settled, SameShape
<1>8. UnderWay'
  <2>1. \A x \in DOMAIN rows' :
          rows'[x].parent \in Showing(rows', going') => x \in Showing(rows', going')
    BY <1>1, <1>3, <1>6 DEF UnderWay, SameShape
  <2>2. \A x \in Showing(rows', going') : rows'[x].project \in left'
    BY <1>1, <1>3, <1>6 DEF UnderWay, SameShape, Showing
  <2>3. \A r \in Project \ advanced' : Scene(rows', r) = Scene(objects', r)
    BY <1>1, <1>6 DEF UnderWay
  <2>4. PICK moved \in Object \cup {None} :
           /\ SameOrder(objects, rows, target, moved)
           /\ moved # None => left = {} /\ DOMAIN objects \subseteq DOMAIN rows
    BY <1>1 DEF UnderWay
  <2>5. SameOrder(objects', rows', target', moved)
    BY <1>1, <1>3, <1>5, <2>4 DEF SameOrder, SameShape
  <2>6. moved # None => left' = {} /\ DOMAIN objects' \subseteq DOMAIN rows'
    BY <1>1, <1>3, <2>4 DEF SameShape
  <2> QED
    BY <1>1, <1>6, <1>7, <2>1, <2>2, <2>3, <2>5, <2>6 DEF UnderWay
<1>9. TreeTypeOK'
  BY <1>1, <1>3, <1>4 DEF TreeInv, TreeTypeOK
<1> QED
  BY <1>1, <1>8, <1>9, TablesStay DEF TreeInv

LEMMA EndKeeps ==
  ASSUME TreeInv, End, IsTable(objects'), assets' \subseteq Asset, ScenesAreWhole'
  PROVE  TreeInv'
<1>1. /\ rows' = Empty /\ DOMAIN Empty = {} /\ target' = Empty /\ busy' = FALSE
      /\ left' = {} /\ going' = {} /\ advanced' = {} /\ checked' = checked
  BY DEF End, Empty
<1>2. IsTable(Empty) /\ Empty \in [DOMAIN Empty -> Nat]
  BY DEF IsTable, Empty
<1> QED
  BY <1>1, <1>2 DEF TreeInv, TreeTypeOK

LEMMA CommitKeeps ==
  ASSUME TreeInv, CommitScene
  PROVE  TreeInv'
<1>1. /\ busy /\ UnderWay /\ IsTable(rows) /\ DOMAIN target = {}
      /\ objects' = rows /\ assets' = assets \ going /\ assets \subseteq Asset
      /\ OrdersDiffer(rows) /\ ParentsExist(rows) /\ AssetsExist(rows, assets \ going)
  BY DEF CommitScene, Finished, TreeInv, TreeTypeOK
<1>2. OrdersAreDense(rows) /\ Acyclic(rows)
  BY <1>1, Resting DEF UnderWay
<1>3. ScenesAreWhole'
  BY <1>1, <1>2 DEF ScenesAreWhole, OrdersAreDense, Scene, OrdersDiffer, Acyclic,
                    ParentsExist, AssetsExist
<1> QED
  BY <1>1, <1>3, EndKeeps DEF CommitScene

LEMMA StepKeeps ==
  ASSUME TreeInv, [TreeNext]_treeVars
  PROVE  TreeInv'
<1>1. ASSUME NEW a \in Asset, CheckAsset(a) \/ RefuseAdd(a)
      PROVE  TreeInv'
  <2>1. UNCHANGED <<objects, assets, busy, rows, target, left, going, advanced>>
        /\ checked' \subseteq Asset
    BY <1>1 DEF CheckAsset, RefuseAdd, treeTx, TreeInv, TreeTypeOK
  <2>2. UnderWay' <=> UnderWay
    BY <2>1 DEF UnderWay, Settled, Coming, OrdersDiffer, Acyclic, ParentsExist, AssetsExist,
                SameOrder, Scene, Showing
  <2> QED
    BY <2>1, <2>2, TablesStay DEF TreeInv, TreeTypeOK
<1>2. ASSUME NEW p \in Project, EditScene(p)
      PROVE  TreeInv'
  <2>1. ASSUME NEW o \in Object, NEW q \in Object \cup {None},
               NEW k \in 0 .. Cardinality(Object), MoveTo(p, o, q, k)
        PROVE  TreeInv'
    BY <2>1, MoveToKeeps
  <2> QED
    BY <1>2, <2>1, AddKeeps, MoveUnderKeeps, RemoveKeeps, ClearKeeps DEF EditScene
<1>3. ASSUME RollBackScene
      PROVE  TreeInv'
  <2>1. End /\ UNCHANGED <<objects, assets>>
    BY <1>3 DEF RollBackScene
  <2>2. ScenesAreWhole' /\ IsTable(objects') /\ assets' \subseteq Asset
    BY <2>1, TablesStay DEF TreeInv, TreeTypeOK
  <2> QED
    BY <2>1, <2>2, EndKeeps
<1>4. ASSUME UNCHANGED treeVars
      PROVE  TreeInv'
  <2>1. UnderWay' <=> UnderWay
    BY <1>4 DEF treeVars, UnderWay, Settled, Coming, OrdersDiffer, Acyclic, ParentsExist,
                AssetsExist, SameOrder, Scene, Showing
  <2> QED
    BY <1>4, <2>1, TablesStay DEF treeVars, TreeInv, TreeTypeOK
<1> QED
  BY <1>1, <1>2, <1>3, <1>4, ClearProjectKeeps, RemoveAssetsKeeps, PlaceKeeps, CommitKeeps
  DEF TreeNext

LEMMA InitHolds == ASSUME TreeInit PROVE TreeInv
<1>1. DOMAIN Empty = {} /\ IsTable(Empty) /\ Empty \in [DOMAIN Empty -> Nat]
  BY DEF Empty, IsTable
<1>2. \A p \in Project : Scene(Empty, p) = {} /\ Cardinality({}) = 0
  BY <1>1, FS_EmptySet DEF Scene
<1>3. OrdersAreDense(Empty)
  BY <1>2 DEF OrdersAreDense
<1>4. Acyclic(Empty) /\ ParentsExist(Empty) /\ OrdersDiffer(Empty) /\ AssetsExist(Empty, Asset)
  BY <1>1 DEF Acyclic, ParentsExist, OrdersDiffer, AssetsExist
<1> QED
  BY <1>1, <1>3, <1>4 DEF TreeInit, TreeInv, TreeTypeOK, ScenesAreWhole

-----------------------------------------------------------------------------
(* The theorems.                                                           *)

(* The numbers that an edit has set or has still to set are the indices of *)
(* the list at every statement, whatever has been rolled back before.      *)
THEOREM TreeInvariant == TreeSpec => []TreeInv
BY InitHolds, StepKeeps, PTL DEF TreeSpec

(* Committed scenes are forests without cycles or gaps in the numbering,   *)
(* and show only assets of the library, for any number of objects,         *)
(* projects and assets.                                                    *)
THEOREM ScenesStayWhole == TreeSpec => []ScenesAreWhole
<1>1. TreeInv => ScenesAreWhole
  BY DEF TreeInv
<1> QED
  BY <1>1, TreeInvariant, PTL

(* No edit and no deletion from the library meets a constraint of the      *)
(* database in the middle of its statements, and each advances the         *)
(* revision of every project that it changes.                              *)
THEOREM StatementsAlwaysSucceed == TreeSpec => []StatementsSucceed
<1>1. ASSUME TreeInv, busy, Finished, NEW o \in DOMAIN rows
      PROVE  rows[o].asset \in assets \ going
  BY <1>1 DEF TreeInv, UnderWay, Finished, AssetsExist, Showing
<1>2. TreeInv => StatementsSucceed
  BY <1>1 DEF TreeInv, UnderWay, Settled, StatementsSucceed, AssetsExist
<1> QED
  BY <1>2, TreeInvariant, PTL

(* Reordering a scene, removing from it and deleting from the library move *)
(* at most the one object that was asked for past the others, and a removal *)
(* none.                                                                   *)
THEOREM OrderIsKept == TreeSpec => OthersKeepTheirOrder
<1> DEFINE Kept ==
  \E moved \in Object \cup {None} :
    /\ moved # None => DOMAIN objects \subseteq DOMAIN objects'
    /\ \A o, x \in (DOMAIN objects \cap DOMAIN objects') \ {moved} :
         /\ objects'[o].project = objects[o].project
         /\ objects[o].project = objects[x].project =>
              (objects[o].order < objects[x].order <=> objects'[o].order < objects'[x].order)
<1>1. ASSUME TreeInv, CommitScene
      PROVE  Kept
  <2>1. UnderWay /\ DOMAIN target = {} /\ objects' = rows
    BY <1>1 DEF TreeInv, CommitScene, Finished
  <2>2. PICK moved \in Object \cup {None} :
           /\ SameOrder(objects, rows, target, moved)
           /\ moved # None => DOMAIN objects \subseteq DOMAIN rows
    BY <2>1 DEF UnderWay
  <2>3. \A x : Coming(rows, target, x) = rows[x].order
    BY <2>1 DEF Coming
  <2> QED
    BY <2>1, <2>2, <2>3 DEF SameOrder
<1>2. ASSUME TreeInv, [TreeNext]_treeVars
      PROVE  [Kept]_objects
  <2>1. CASE UNCHANGED objects
    BY <2>1
  <2>2. CASE CommitScene
    BY <1>1, <1>2, <2>2
  <2>3. ASSUME NEW p \in Project, EditScene(p)
        PROVE  UNCHANGED objects
    <3>1. \A rs, t : BeginEdit(rs, t, p) => UNCHANGED objects
      BY DEF BeginEdit
    <3> QED
      BY <2>3, <3>1 DEF EditScene, Add, MoveUnder, MoveTo, Remove, Clear
  <2>4. TreeNext /\ ~CommitScene => UNCHANGED objects
    BY <2>3 DEF TreeNext, CheckAsset, RefuseAdd, RemoveAssets, ClearProject, Place,
                RollBackScene, treeTables
  <2> QED
    BY <1>2, <2>1, <2>2, <2>4 DEF treeVars
<1> QED
  BY <1>2, TreeInvariant, PTL DEF TreeSpec, OthersKeepTheirOrder
=============================================================================
