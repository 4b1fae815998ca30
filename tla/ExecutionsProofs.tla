---------------------------- MODULE ExecutionsProofs ----------------------------
(***************************************************************************)
(* Executions, for any number of requests, edits, definitions and crashes. *)
(*                                                                         *)
(* A record is decided steps before it is committed, so RecordTellsWhatRan *)
(* is inductive only with what a request that is still under way has done  *)
(* so far; and a reference stays good because deletions clear it, which    *)
(* needs every definition an edit copied to have had a name.               *)
(***************************************************************************)
EXTENDS Executions, TLAPS

\* A request knows whether its command was started, and has no record yet.
Underway(r) ==
  /\ request[r].phase \in {"idle", "loaded"} => r \notin ran
  /\ request[r].phase = "running" => r \in ran
  /\ request[r].phase = "closing" =>
       /\ request[r].status \in Statuses
       /\ request[r].status \in {"success", "timeout"} => r \in ran
       /\ request[r].status \in {"rejected", "busy"} => r \notin ran
  /\ request[r].phase \in {"idle", "loaded", "running", "closing"} =>
       journal[r] = "none" /\ r \notin old

IInv ==
  /\ TypeOK
  /\ \A r \in Requests : Underway(r)
  /\ \A e \in Edits : edit[e].phase = "loaded" => edit[e].id \in Ids /\ edit[e].copy.name \in Names
  /\ RecordTellsWhatRan
  /\ LinksResolve

-----------------------------------------------------------------------------
LEMMA Constants ==
  /\ NoId \notin Ids /\ NoName \notin Names /\ Ids \subseteq Nat /\ Names \subseteq Nat
  /\ NoId \in Nat /\ NoName \in Nat
  BY ExecutionsAssumption DEF Ids, NoId, Names, NoName

LEMMA InitIInv == Init => IInv
  BY Constants, ExecutionsAssumption
  DEF Init, IInv, TypeOK, Definition, NoDefinition, Request, Edit, Blank, NoEdit, Kinds, Statuses,
      Underway, RecordTellsWhatRan, LinksResolve

\* A step of one request that leaves the tables and the records alone.
Moves(r) == Load(r) \/ Refuse(r) \/ Busy(r) \/ Unreachable(r) \/ Start(r) \/ Escape(r) \/ End(r)
            \/ RecordFails(r) \/ PruneFails(r)

LEMMA BlankType ==
  ASSUME NEW phase \in {"idle", "loaded", "running", "closing", "pruning", "done", "lost"}
  PROVE  Blank(phase) \in Request
  BY Constants DEF Blank, Request, Kinds, Statuses

\* What a move makes of its request.
LEMMA MovedRequest ==
  ASSUME IInv, NEW r \in Requests, Moves(r)
  PROVE  \E new \in Request :
           /\ Step(r, new)
           /\ new.phase \in {"loaded", "running", "closing", "done", "lost"}
           /\ new.phase = "loaded" => request[r].phase = "idle" /\ ran' = ran
           /\ new.phase = "running" => request[r].phase = "loaded" /\ ran' = ran \union {r}
           /\ new.phase = "closing" =>
                /\ request[r].phase \in {"loaded", "running"} /\ ran' = ran
                /\ new.status \in Statuses
                /\ new.status \in {"success", "timeout"} => request[r].phase = "running"
                /\ new.status \in {"rejected", "busy"} => request[r].phase = "loaded"
           /\ new.phase \in {"done", "lost"} =>
                request[r].phase \in {"loaded", "closing", "pruning"} /\ ran' = ran
  <1> DEFINE was == request[r]
  <1>1. was \in Request
    BY DEF IInv, TypeOK
  <1>2. CASE Load(r)
    <2>1. CASE Step(r, [was EXCEPT !.phase = "loaded", !.kind = "diagnostic", !.enabled = TRUE])
      <3> DEFINE new == [was EXCEPT !.phase = "loaded", !.kind = "diagnostic", !.enabled = TRUE]
      <3>1. new \in Request /\ new.phase = "loaded"
        BY <1>1 DEF Request, Kinds
      <3> QED
        BY <1>2, <2>1, <3>1 DEF Load
    <2>2. ASSUME NEW i \in Ids, NEW k \in {"local", "ssh"},
                 Step(r, [was EXCEPT !.phase = "loaded", !.kind = k, !.id = i,
                                      !.enabled = definition[i].enabled])
          PROVE  \E new \in Request :
                   Step(r, new) /\ new.phase = "loaded"
      <3>1. definition[i].enabled \in BOOLEAN
        BY DEF IInv, TypeOK, Definition
      <3> DEFINE new == [was EXCEPT !.phase = "loaded", !.kind = k, !.id = i,
                                     !.enabled = definition[i].enabled]
      <3>2. new \in Request /\ new.phase = "loaded"
        BY <1>1, <3>1 DEF Request, Kinds
      <3> QED
        BY <2>2, <3>2
    <2> QED
      BY <1>2, <2>1, <2>2 DEF Load
  <1>3. ASSUME NEW s \in Statuses, NEW b \in BOOLEAN
        PROVE  LET new == [was EXCEPT !.phase = "closing", !.status = s, !.stamps = b]
               IN  new \in Request /\ new.phase = "closing" /\ new.status = s
    BY <1>1 DEF Request
  <1>4. CASE Refuse(r)
    BY <1>3, <1>4 DEF Refuse, Decide, Statuses
  <1>5. CASE Busy(r)
    BY <1>3, <1>5 DEF Busy, Decide, Statuses
  <1>6. CASE Unreachable(r)
    BY <1>3, <1>6 DEF Unreachable, Decide, Statuses
  <1>7. CASE Start(r)
    <2> DEFINE new == [was EXCEPT !.phase = "running"]
    <2>1. new \in Request /\ new.phase = "running"
      BY <1>1 DEF Request
    <2> QED
      BY <1>7, <2>1 DEF Start
  <1>8. CASE End(r)
    <2>1. \E s \in {"success", "failed", "timeout"}, b \in BOOLEAN : Decide(r, s, b)
      BY <1>8 DEF End
    <2> QED
      BY <1>3, <1>8, <2>1 DEF End, Decide, Statuses
  <1>9. CASE Escape(r)
    BY <1>9, BlankType DEF Escape, Blank
  <1>10. CASE RecordFails(r)
    BY <1>10, BlankType DEF RecordFails, Blank
  <1>11. CASE PruneFails(r)
    BY <1>11, BlankType DEF PruneFails, Blank
  <1> QED
    BY <1>2, <1>4, <1>5, <1>6, <1>7, <1>8, <1>9, <1>10, <1>11 DEF Moves

LEMMA MoveStep ==
  ASSUME IInv, NEW r \in Requests, Moves(r)
  PROVE  IInv'
  <1> USE DEF journalVars, definitionVars
  <1>1. /\ UNCHANGED <<definition, created, credential, journal, link, old, edit, log, crashes>>
    BY DEF Moves, Load, Refuse, Busy, Unreachable, Start, Escape, End, RecordFails, PruneFails
  <1>2. PICK new \in Request :
           /\ Step(r, new)
           /\ new.phase \in {"loaded", "running", "closing", "done", "lost"}
           /\ new.phase = "loaded" => request[r].phase = "idle" /\ ran' = ran
           /\ new.phase = "running" => request[r].phase = "loaded" /\ ran' = ran \union {r}
           /\ new.phase = "closing" =>
                /\ request[r].phase \in {"loaded", "running"} /\ ran' = ran
                /\ new.status \in Statuses
                /\ new.status \in {"success", "timeout"} => request[r].phase = "running"
                /\ new.status \in {"rejected", "busy"} => request[r].phase = "loaded"
           /\ new.phase \in {"done", "lost"} =>
                request[r].phase \in {"loaded", "closing", "pruning"} /\ ran' = ran
    BY MovedRequest
  <1>3. /\ request \in [Requests -> Request] /\ request' = [request EXCEPT ![r] = new]
        /\ ran \subseteq Requests
    BY <1>2 DEF IInv, TypeOK, Step
  <1>4. request'[r] = new /\ \A q \in Requests \ {r} : request'[q] = request[q]
    BY <1>3
  <1>5. ran' = ran \/ (ran' = ran \union {r} /\ new.phase = "running" /\ request[r].phase = "loaded")
    BY <1>2
  <1>6. TypeOK'
    BY <1>1, <1>3, <1>5 DEF IInv, TypeOK
  <1>7. \A q \in Requests : Underway(q)'
    BY <1>1, <1>2, <1>4, <1>5 DEF IInv, Underway
  <1>8. RecordTellsWhatRan'
    BY <1>1, <1>5 DEF IInv, Underway, RecordTellsWhatRan
  <1>9. LinksResolve'
    BY <1>1 DEF IInv, LinksResolve, Exists
  <1> QED
    BY <1>1, <1>6, <1>7, <1>8, <1>9 DEF IInv

LEMMA RecordStep ==
  ASSUME IInv, NEW r \in Requests, Record(r) \/ Prune(r) \/ Age(r)
  PROVE  IInv'
  <1> USE DEF definitionVars
  <1>0. UNCHANGED <<definition, created, credential, ran, edit, log, crashes>>
    BY DEF Record, Prune, Age, journalVars
  <1>1. CASE Record(r)
    <2>1. /\ request' = [request EXCEPT ![r] = Blank("pruning")]
          /\ journal' = [journal EXCEPT ![r] = request[r].status]
          /\ link' = [link EXCEPT ![r] = request[r].id]
          /\ request[r].phase = "closing" /\ Recordable(r) /\ old' = old
      BY <1>1 DEF Record, Step
    <2>2. /\ request \in [Requests -> Request] /\ link \in [Requests -> Ids \union {NoId}]
          /\ journal \in [Requests -> Statuses \union {"none", "pruned"}]
          /\ request[r].status \in Statuses /\ request[r].id \in Ids \union {NoId}
          /\ Blank("pruning") \in Request /\ Blank("pruning").phase = "pruning"
      BY <2>1, BlankType DEF IInv, TypeOK, Underway, Request, Blank
    <2>3. TypeOK'
      BY <1>0, <2>1, <2>2 DEF IInv, TypeOK
    <2>4. \A q \in Requests : Underway(q)'
      BY <1>0, <2>1, <2>2 DEF IInv, Underway
    <2>5. RecordTellsWhatRan'
      BY <1>0, <2>1, <2>2 DEF IInv, Underway, RecordTellsWhatRan
    <2>6. LinksResolve'
      BY <1>0, <2>1, <2>2 DEF IInv, LinksResolve, Recordable, Exists
    <2> QED
      BY <1>0, <2>3, <2>4, <2>5, <2>6 DEF IInv
  <1>2. CASE Prune(r)
    <2>1. /\ request' = [request EXCEPT ![r] = Blank("done")]
          /\ journal' = [q \in Requests |-> IF q \in old THEN "pruned" ELSE journal[q]]
          /\ link' = [q \in Requests |-> IF q \in old THEN NoId ELSE link[q]]
          /\ request[r].phase = "pruning" /\ old' = old
      BY <1>2 DEF Prune, Step
    <2>2. /\ request \in [Requests -> Request] /\ link \in [Requests -> Ids \union {NoId}]
          /\ journal \in [Requests -> Statuses \union {"none", "pruned"}]
          /\ Blank("done") \in Request /\ Blank("done").phase = "done"
      BY BlankType DEF IInv, TypeOK, Blank
    <2>3. TypeOK'
      BY <1>0, <2>1, <2>2 DEF IInv, TypeOK
    <2>4. \A q \in Requests : Underway(q)'
      BY <1>0, <2>1, <2>2 DEF IInv, Underway
    <2>5. RecordTellsWhatRan'
      BY <1>0, <2>1, <2>2 DEF IInv, RecordTellsWhatRan
    <2>6. LinksResolve'
      BY <1>0, <2>1, <2>2 DEF IInv, LinksResolve, Exists
    <2> QED
      BY <1>0, <2>3, <2>4, <2>5, <2>6 DEF IInv
  <1>3. CASE Age(r)
    BY <1>0, <1>3 DEF Age, IInv, TypeOK, Underway, RecordTellsWhatRan, LinksResolve, Exists
  <1> QED
    BY <1>1, <1>2, <1>3

\* A step of an operator: definitions, edits and the credential.
EditSteps == Create \/ DeleteCredential
          \/ \E e \in Edits : EditLoad(e) \/ ToggleCommit(e) \/ ToggleFails(e)
                              \/ DeleteCommit(e) \/ DeleteFails(e)

LEMMA EditStep ==
  ASSUME IInv, EditSteps
  PROVE  IInv'
  <1> USE Constants, ExecutionsAssumption DEF executionVars, definitionVars
  <1>0. UNCHANGED <<request, ran, journal, old, crashes>>
    BY DEF EditSteps, Create, DeleteCredential, EditLoad, ToggleCommit, ToggleFails, DeleteCommit,
           DeleteFails
  <1>1. /\ definition \in [Ids -> Definition] /\ edit \in [Edits -> Edit]
        /\ log \in [Names -> {"none", "enabled", "disabled", "deleted"}]
        /\ link \in [Requests -> Ids \union {NoId}] /\ created \in 0..MaxNames
    BY DEF IInv, TypeOK
  <1>2. NoEdit("done") \in Edit /\ NoEdit("done").phase = "done"
    BY DEF NoEdit, Edit, Definition, NoDefinition
  <1>3. /\ \A q \in Requests : Underway(q)'
        /\ RecordTellsWhatRan'
    BY <1>0 DEF IInv, Underway, RecordTellsWhatRan
  <1>4. CASE Create
    <2> DEFINE new == [name |-> created + 1, enabled |-> TRUE]
    <2>1. /\ created + 1 \in Names /\ NextId \in Ids /\ new \in Definition /\ new.name \in Names
          /\ created' \in 0..MaxNames
      BY <1>1, <1>4 DEF Create, Names, Definition
    <2>2. /\ definition' = [definition EXCEPT ![NextId] = new]
          /\ log' = [log EXCEPT ![created + 1] = "enabled"]
          /\ UNCHANGED <<credential, edit, link>>
      BY <1>4 DEF Create
    <2>3. TypeOK'
      BY <1>0, <1>1, <2>1, <2>2 DEF IInv, TypeOK
    <2>4. LinksResolve'
      BY <1>1, <2>1, <2>2 DEF IInv, LinksResolve, Exists
    <2> QED
      BY <1>3, <2>2, <2>3, <2>4 DEF IInv
  <1>5. CASE DeleteCredential
    BY <1>0, <1>3, <1>5 DEF DeleteCredential, IInv, TypeOK, LinksResolve, Exists
  <1>6. ASSUME NEW e \in Edits, EditLoad(e)
        PROVE  IInv'
    <2>1. PICK i \in Ids, op \in {"toggle", "delete"} :
            /\ Exists(i)
            /\ edit' = [edit EXCEPT ![e] = [phase |-> "loaded", op |-> op, id |-> i,
                                            copy |-> definition[i]]]
      BY <1>6 DEF EditLoad
    <2> DEFINE new == [phase |-> "loaded", op |-> op, id |-> i, copy |-> definition[i]]
    <2>2. new \in Edit /\ new.id \in Ids /\ new.copy.name \in Names
      BY <1>1, <2>1 DEF Edit, Definition, Exists
    <2>3. UNCHANGED <<definition, created, log, credential, link>>
      BY <1>6 DEF EditLoad
    <2>4. TypeOK'
      BY <1>0, <1>1, <2>1, <2>2, <2>3 DEF IInv, TypeOK
    <2>5. \A f \in Edits : edit'[f].phase = "loaded" => edit'[f].id \in Ids /\ edit'[f].copy.name \in Names
      BY <1>1, <2>1, <2>2 DEF IInv
    <2>6. LinksResolve'
      BY <2>3 DEF IInv, LinksResolve, Exists
    <2> QED
      BY <1>3, <2>4, <2>5, <2>6 DEF IInv
  <1>7. ASSUME NEW e \in Edits,
               ToggleCommit(e) \/ ToggleFails(e) \/ DeleteCommit(e) \/ DeleteFails(e)
        PROVE  IInv'
    <2>1. /\ edit' = [edit EXCEPT ![e] = NoEdit("done")]
          /\ UNCHANGED <<created, credential>>
          /\ edit[e].phase = "loaded" /\ edit[e].id \in Ids /\ edit[e].copy \in Definition
          /\ edit[e].copy.name \in Names
      BY <1>1, <1>7
      DEF ToggleCommit, ToggleFails, DeleteCommit, DeleteFails, Closes, IInv, Edit
    <2>2. \A f \in Edits : edit'[f].phase = "loaded" => edit'[f].id \in Ids /\ edit'[f].copy.name \in Names
      BY <1>1, <1>2, <2>1 DEF IInv
    <2>3. edit' \in [Edits -> Edit]
      BY <1>1, <1>2, <2>1
    <2>4. CASE ToggleFails(e) \/ DeleteFails(e)
      <3>1. UNCHANGED <<definition, log, link>>
        BY <2>4 DEF ToggleFails, DeleteFails
      <3> QED
        BY <1>0, <1>3, <2>1, <2>2, <2>3, <3>1 DEF IInv, TypeOK, LinksResolve, Exists
    <2>5. CASE ToggleCommit(e)
      <3> DEFINE i == edit[e].id
      <3>1. PICK b \in BOOLEAN : /\ b = ~edit[e].copy.enabled
                                 /\ definition' = [definition EXCEPT ![i].enabled = b]
        BY <2>5 DEF ToggleCommit
      <3>2. /\ definition' \in [Ids -> Definition]
            /\ \A j \in Ids : definition'[j].name = definition[j].name
        BY <1>1, <2>1, <3>1 DEF Definition
      <3>3. /\ log' \in [Names -> {"none", "enabled", "disabled", "deleted"}]
            /\ UNCHANGED link
        BY <1>1, <2>1, <2>5 DEF ToggleCommit
      <3> QED
        BY <1>0, <1>1, <1>3, <2>1, <2>2, <2>3, <3>2, <3>3 DEF IInv, TypeOK, LinksResolve, Exists
    <2>6. CASE DeleteCommit(e)
      <3> DEFINE i == edit[e].id
      <3>1. /\ definition' = [definition EXCEPT ![i] = NoDefinition]
            /\ link' = [r \in Requests |-> IF link[r] = i THEN NoId ELSE link[r]]
            /\ log' = [log EXCEPT ![edit[e].copy.name] = "deleted"]
        BY <2>6 DEF DeleteCommit
      <3>2. NoDefinition \in Definition
        BY DEF NoDefinition, Definition
      <3>3. TypeOK'
        BY <1>0, <1>1, <2>1, <2>3, <3>1, <3>2 DEF IInv, TypeOK
      <3>4. LinksResolve'
        BY <1>1, <2>1, <3>1 DEF IInv, LinksResolve, Exists
      <3> QED
        BY <1>3, <2>2, <3>3, <3>4 DEF IInv
    <2> QED
      BY <1>7, <2>4, <2>5, <2>6
  <1> QED
    BY <1>4, <1>5, <1>6, <1>7 DEF EditSteps

LEMMA CrashStep ==
  ASSUME IInv, Crash
  PROVE  IInv'
  <1>1. /\ UNCHANGED <<definition, created, log, credential, ran, journal, link, old>>
        /\ crashes' \in 0..MaxCrashes
    BY ExecutionsAssumption DEF Crash, journalVars, IInv, TypeOK
  <1>2. /\ request \in [Requests -> Request] /\ edit \in [Edits -> Edit]
        /\ Blank("lost") \in Request /\ Blank("done") \in Request
        /\ Blank("lost").phase = "lost" /\ Blank("done").phase = "done"
    BY BlankType DEF IInv, TypeOK, Blank
  <1>3. NoEdit("done") \in Edit /\ NoEdit("done").phase = "done"
    BY Constants DEF NoEdit, Edit, Definition, NoDefinition
  <1>4. \A r \in Requests : \/ request'[r] = request[r]
                            \/ request'[r] \in {Blank("lost"), Blank("done")}
    BY DEF Crash
  <1>5. \A e \in Edits : edit'[e] \in {edit[e], NoEdit("done")}
    BY DEF Crash
  <1>6. request' \in [Requests -> Request] /\ edit' \in [Edits -> Edit]
    BY <1>2, <1>3, <1>4, <1>5 DEF Crash
  <1>7. TypeOK'
    BY <1>1, <1>6 DEF IInv, TypeOK
  <1>8. \A r \in Requests : Underway(r)'
    BY <1>1, <1>2, <1>4 DEF IInv, Underway
  <1>9. \A e \in Edits : edit'[e].phase = "loaded" => edit'[e].id \in Ids /\ edit'[e].copy.name \in Names
    BY <1>3, <1>5 DEF IInv
  <1> QED
    BY <1>1, <1>7, <1>8, <1>9 DEF IInv, RecordTellsWhatRan, LinksResolve, Exists

LEMMA NextStep ==
  ASSUME IInv, [Next]_vars
  PROVE  IInv'
  <1>1. CASE UNCHANGED vars
    BY <1>1 DEF vars, IInv, TypeOK, Underway, RecordTellsWhatRan, LinksResolve, Exists
  <1>2. CASE Next
    BY <1>2, MoveStep, RecordStep, EditStep, CrashStep DEF Next, Moves, EditSteps
  <1> QED
    BY <1>1, <1>2

\* The inductive invariant holds in every behaviour.
THEOREM ExecutionsInvariant == Spec => []IInv
  BY InitIInv, NextStep, PTL DEF Spec

\* Every variable keeps its type.
THEOREM TypeCorrect == Spec => []TypeOK
  <1>1. IInv => TypeOK
    BY DEF IInv
  <1> QED
    BY <1>1, ExecutionsInvariant, PTL

\* A record never tells of a run what did not happen: the status decided
\* before the commit still agrees with the command when it is committed.
THEOREM RecordsTellTheTruth == Spec => []RecordTellsWhatRan
  <1>1. IInv => RecordTellsWhatRan
    BY DEF IInv
  <1> QED
    BY <1>1, ExecutionsInvariant, PTL

\* No record ever refers to a definition that is gone.
THEOREM LinksAlwaysResolve == Spec => []LinksResolve
  <1>1. IInv => LinksResolve
    BY DEF IInv
  <1> QED
    BY <1>1, ExecutionsInvariant, PTL

\* Only retention ends a record, and only one that is old enough.
THEOREM HistoryIsKept == Spec => HistorySurvives
  <1> DEFINE Kept == \A r \in Requests :
        journal[r] \notin {"none", "pruned"} /\ journal'[r] # journal[r] =>
          r \in old /\ journal'[r] = "pruned"
  <1>1. ASSUME IInv, [Next]_vars
        PROVE  [Kept]_vars
    <2>1. journal \in [Requests -> Statuses \union {"none", "pruned"}]
      BY <1>1 DEF IInv, TypeOK
    <2>2. CASE UNCHANGED journal
      BY <2>2
    <2>3. ASSUME NEW r \in Requests, Record(r)
          PROVE  Kept
      BY <1>1, <2>1, <2>3 DEF Record, IInv, Underway
    <2>4. ASSUME NEW r \in Requests, Prune(r)
          PROVE  Kept
      BY <2>1, <2>4 DEF Prune
    <2>5. \/ UNCHANGED journal
          \/ \E r \in Requests : Record(r) \/ Prune(r)
      BY <1>1 DEF Next, vars, journalVars, executionVars, Load, Refuse, Busy, Unreachable, Start,
         Escape, End, RecordFails, PruneFails, Age, EditLoad, ToggleCommit, ToggleFails,
         DeleteCommit, DeleteFails, Create, DeleteCredential, Crash
    <2> QED
      BY <2>2, <2>3, <2>4, <2>5
  <1> QED
    BY <1>1, ExecutionsInvariant, PTL DEF Spec, HistorySurvives

\* A committed toggle leaves the definition as its event calls it.
THEOREM EventsTellTheTruth == Spec => EventsAreTrue
  <1> DEFINE Agrees(e) ==
        LET name == edit[e].copy.name
            row  == definition'[edit[e].id]
        IN  /\ edit[e].phase = "loaded" /\ edit'[e].phase = "done"
            /\ <<definition, log>>' # <<definition, log>>
            /\ row.name = name
            => log'[name] = IF row.enabled THEN "enabled" ELSE "disabled"
  <1>1. ASSUME IInv, [Next]_vars, NEW e \in Edits, edit[e].phase = "loaded", edit'[e].phase = "done"
        PROVE  \/ UNCHANGED <<definition, log>>
               \/ ToggleCommit(e) \/ DeleteCommit(e)
    <2>1. edit \in [Edits -> Edit]
      BY <1>1 DEF IInv, TypeOK
    <2>2. ASSUME NEW f \in Edits, ToggleCommit(f) \/ DeleteCommit(f)
          PROVE  f = e
      BY <1>1, <2>1, <2>2 DEF ToggleCommit, DeleteCommit, Closes
    <2>3. Create => FALSE
      BY <1>1 DEF Create
    <2> QED
      BY <1>1, <2>2, <2>3 DEF Next, vars, definitionVars, Load, Refuse, Busy, Unreachable, Start,
         Escape, End, Record, RecordFails, Prune, PruneFails, Age, EditLoad, ToggleFails,
         DeleteFails, DeleteCredential, Crash
  <1>2. ASSUME IInv, NEW e \in Edits, edit[e].phase = "loaded", ToggleCommit(e)
        PROVE  Agrees(e)
    <2> DEFINE b == ~edit[e].copy.enabled
    <2>1. /\ definition \in [Ids -> Definition] /\ edit[e].id \in Ids /\ edit[e].copy.name \in Names
          /\ log \in [Names -> {"none", "enabled", "disabled", "deleted"}]
          /\ edit[e].copy.enabled \in BOOLEAN
      BY <1>2 DEF IInv, TypeOK, Edit, Definition
    <2>2. definition'[edit[e].id].enabled = b
      BY <1>2, <2>1 DEF ToggleCommit, Definition
    <2>3. log'[edit[e].copy.name] = IF edit[e].copy.enabled THEN "disabled" ELSE "enabled"
      BY <1>2, <2>1 DEF ToggleCommit
    <2> QED
      BY <2>1, <2>2, <2>3
  <1>3. ASSUME IInv, NEW e \in Edits, edit[e].phase = "loaded", DeleteCommit(e)
        PROVE  Agrees(e)
    <2>1. /\ definition \in [Ids -> Definition] /\ edit[e].id \in Ids /\ edit[e].copy.name \in Names
      BY <1>3 DEF IInv, TypeOK
    <2>2. definition'[edit[e].id].name = NoName
      BY <1>3, <2>1 DEF DeleteCommit, NoDefinition
    <2> QED
      BY <2>1, <2>2, Constants
  <1>4. ASSUME IInv, [Next]_vars
        PROVE  [\A e \in Edits : Agrees(e)]_vars
    BY <1>1, <1>2, <1>3, <1>4
  <1> QED
    BY <1>4, ExecutionsInvariant, PTL DEF Spec, EventsAreTrue

-----------------------------------------------------------------------------
(* The audit trail implements ExecutionJournal. *)

\* What retention takes is on record.
OldIsRecorded == \A r \in old : journal[r] # "none"

Known == {i \in Ids : Exists(i)}

LEMMA OldStep ==
  ASSUME IInv, OldIsRecorded, [Next]_vars
  PROVE  OldIsRecorded'
  <1>1. /\ journal \in [Requests -> Statuses \union {"none", "pruned"}]
        /\ old \subseteq Requests
    BY DEF IInv, TypeOK
  <1>2. ASSUME NEW r \in Requests, Record(r)
        PROVE  OldIsRecorded'
    <2>1. request[r].status # "none"
      BY <1>2 DEF Record, IInv, Underway, Statuses
    <2> QED
      BY <1>1, <1>2, <2>1 DEF Record, OldIsRecorded
  <1>3. ASSUME NEW r \in Requests, Prune(r)
        PROVE  OldIsRecorded'
    BY <1>1, <1>3 DEF Prune, OldIsRecorded
  <1>4. ASSUME NEW r \in Requests, Age(r)
        PROVE  OldIsRecorded'
    BY <1>1, <1>4 DEF Age, OldIsRecorded
  <1>5. \/ UNCHANGED <<journal, old>>
        \/ \E r \in Requests : Record(r) \/ Prune(r) \/ Age(r)
    BY DEF Next, vars, journalVars, executionVars, Load, Refuse, Busy, Unreachable, Start,
       Escape, End, RecordFails, PruneFails, EditLoad, ToggleCommit, ToggleFails,
       DeleteCommit, DeleteFails, Create, DeleteCredential, Crash
  <1> QED
    BY <1>2, <1>3, <1>4, <1>5 DEF OldIsRecorded

LEMMA JournalInit == Init => Journal!Init
  BY DEF Init, Journal!Init, Exists, NoDefinition

\* A step that starts nothing, enters nothing and defines nothing.
LEMMA JournalStutters ==
  ASSUME UNCHANGED <<ran, journal, link>>,
         \A i \in Ids : Exists(i)' <=> Exists(i)
  PROVE  UNCHANGED Journal!vars
  BY DEF Journal!vars

\* A request up to its record: starting its command is the only step the
\* journal hears of.
LEMMA JournalMoves ==
  ASSUME IInv, NEW r \in Requests, Moves(r)
  PROVE  [Journal!Next]_(Journal!vars)
  <1>1. UNCHANGED <<definition, journal, link>>
    BY DEF Moves, Load, Refuse, Busy, Unreachable, Start, Escape, End, RecordFails, PruneFails,
           journalVars, definitionVars
  <1>2. CASE ran' = ran
    BY <1>1, <1>2, JournalStutters DEF Exists
  <1>3. CASE Start(r)
    <2>1. journal[r] = "none" /\ ran' = ran \union {r}
      BY <1>3 DEF Start, IInv, Underway
    <2>2. Journal!Begin(r)
      BY <1>1, <2>1 DEF Journal!Begin, Exists
    <2> QED
      BY <2>2 DEF Journal!Next
  <1>4. ran' = ran \/ Start(r)
    BY DEF Moves, Load, Refuse, Busy, Unreachable, Escape, End, RecordFails, PruneFails
  <1> QED
    BY <1>2, <1>3, <1>4

\* The commit of a record is the entry, and true when it is made.
LEMMA JournalWrites ==
  ASSUME IInv, NEW r \in Requests, Record(r)
  PROVE  Journal!Next
  <1> DEFINE s == request[r].status
             i == request[r].id
  <1>1. request[r] \in Request /\ request[r].phase = "closing"
    BY DEF Record, IInv, TypeOK
  <1>2. /\ s \in Statuses /\ journal[r] = "none"
        /\ s \in {"success", "timeout"} => r \in ran
        /\ s \in {"rejected", "busy"} => r \notin ran
    BY <1>1 DEF IInv, Underway
  <1>3. i \in Ids \union {NoId} /\ i \in Known \union {NoId}
    BY <1>1 DEF Record, Recordable, Request, Known
  <1>4. /\ journal' = [journal EXCEPT ![r] = s]
        /\ link' = [link EXCEPT ![r] = i]
        /\ UNCHANGED <<ran, definition>>
    BY DEF Record, definitionVars
  <1>5. Known' = Known
    BY <1>4 DEF Known, Exists
  <1>6. Journal!Write(r, s, i)
    BY <1>2, <1>3, <1>4, <1>5 DEF Journal!Write, Known
  <1> QED
    BY <1>2, <1>3, <1>6 DEF Journal!Next

LEMMA JournalRetires ==
  ASSUME IInv, OldIsRecorded, NEW r \in Requests, Prune(r)
  PROVE  Journal!Next
  <1>1. old \in SUBSET Requests
    BY DEF IInv, TypeOK
  <1>2. UNCHANGED <<ran, definition>>
    BY DEF Prune, definitionVars
  <1>3. Journal!Retire(old)
    BY <1>2 DEF Prune, OldIsRecorded, Journal!Retire, Exists
  <1> QED
    BY <1>1, <1>3 DEF Journal!Next

\* Definitions come and go; a deletion takes its references with it.
LEMMA JournalDefines ==
  ASSUME IInv, Create
  PROVE  [Journal!Next]_(Journal!vars)
  <1> DEFINE n == NextId
  <1>1. /\ definition \in [Ids -> Definition] /\ n \in Ids /\ created \in 0..MaxNames
        /\ UNCHANGED <<ran, journal, link>>
        /\ definition' = [definition EXCEPT ![n] = [name |-> created + 1, enabled |-> TRUE]]
    BY DEF Create, executionVars, IInv, TypeOK
  <1>2. created + 1 # NoName
    BY <1>1, ExecutionsAssumption DEF NoName
  <1>3. definition'[n].name # NoName /\ \A i \in Ids \ {n} : definition'[i] = definition[i]
    <2> HIDE DEF n
    <2> QED
      BY <1>1, <1>2
  <1> HIDE DEF n
  <1>4. Known' = Known \union {n}
    BY <1>1, <1>3 DEF Known, Exists
  <1>5. CASE Exists(n)
    <2>1. \A i \in Ids : Exists(i)' <=> Exists(i)
      BY <1>3, <1>5 DEF Exists
    <2> QED
      BY <1>1, <2>1, JournalStutters
  <1>6. CASE ~Exists(n)
    <2>1. Journal!Define(n)
      BY <1>1, <1>4, <1>6 DEF Journal!Define, Known
    <2> QED
      BY <1>1, <2>1 DEF Journal!Next
  <1> QED
    BY <1>5, <1>6

LEMMA JournalUndefines ==
  ASSUME IInv, NEW e \in Edits, DeleteCommit(e)
  PROVE  Journal!Next
  <1> DEFINE i == edit[e].id
  <1>1. /\ definition \in [Ids -> Definition] /\ i \in Ids
        /\ definition' = [definition EXCEPT ![i] = NoDefinition]
        /\ link' = [r \in Requests |-> IF link[r] = i THEN NoId ELSE link[r]]
        /\ UNCHANGED <<ran, journal>>
    BY DEF DeleteCommit, IInv, TypeOK
  <1>2. definition'[i].name = NoName /\ \A j \in Ids \ {i} : definition'[j] = definition[j]
    BY <1>1 DEF NoDefinition
  <1>3. Known' = Known \ {i}
    BY <1>1, <1>2 DEF Known, Exists
  <1>4. Journal!Undefine(i)
    BY <1>1, <1>3 DEF Journal!Undefine, Known
  <1> QED
    BY <1>1, <1>4 DEF Journal!Next

LEMMA JournalStep ==
  ASSUME IInv, OldIsRecorded, [Next]_vars
  PROVE  [Journal!Next]_(Journal!vars)
  <1>1. CASE UNCHANGED vars
    BY <1>1, JournalStutters DEF vars, Exists
  <1>2. ASSUME NEW r \in Requests, Age(r)
        PROVE  [Journal!Next]_(Journal!vars)
    BY <1>2, JournalStutters DEF Age, definitionVars, Exists
  <1>3. ASSUME NEW e \in Edits, EditLoad(e) \/ ToggleFails(e) \/ DeleteFails(e)
        PROVE  [Journal!Next]_(Journal!vars)
    BY <1>3, JournalStutters DEF EditLoad, ToggleFails, DeleteFails, executionVars, Exists
  <1>4. ASSUME NEW e \in Edits, ToggleCommit(e)
        PROVE  [Journal!Next]_(Journal!vars)
    <2> DEFINE b == ~edit[e].copy.enabled
    <2>1. /\ definition \in [Ids -> Definition]
          /\ definition' = [definition EXCEPT ![edit[e].id].enabled = b]
          /\ UNCHANGED <<ran, journal, link>>
      BY <1>4 DEF ToggleCommit, executionVars, IInv, TypeOK
    <2> HIDE DEF b
    <2>2. \A i \in Ids : definition'[i].name = definition[i].name
      BY <2>1 DEF Definition
    <2> QED
      BY <2>1, <2>2, JournalStutters DEF Exists
  <1>5. CASE DeleteCredential \/ Crash
    BY <1>5, JournalStutters DEF DeleteCredential, Crash, definitionVars, executionVars,
       journalVars, Exists
  <1> QED
    BY <1>1, <1>2, <1>3, <1>4, <1>5, JournalMoves, JournalWrites, JournalRetires,
       JournalDefines, JournalUndefines DEF Next, Moves

\* The trail implements ExecutionJournal: however requests, edits, retention,
\* failing commits and restarts interleave, an execution is entered at most
\* once and truly, its reference resolves, and its entry ends by retention.
THEOREM TrailImplementsJournal == Spec => JournalSpec
  <1>1. Init => Journal!Init /\ OldIsRecorded
    BY JournalInit DEF Init, OldIsRecorded
  <1>2. IInv /\ OldIsRecorded /\ [Next]_vars => OldIsRecorded' /\ [Journal!Next]_(Journal!vars)
    BY OldStep, JournalStep
  <1> QED
    BY <1>1, <1>2, ExecutionsInvariant, PTL DEF Spec, JournalSpec, Journal!Spec

\* What the journal promises says enough: in any system that keeps it, not
\* only in this one, entries tell what ran and refer to what is there.
THEOREM JournalIsTrue == JournalSpec => [](RecordTellsWhatRan /\ LinksResolve)
  <1> DEFINE Domains == DOMAIN journal = Requests /\ DOMAIN link = Requests
             Resolve == \A r \in Requests : link[r] \in Known \union {NoId}
             JInv == Domains /\ Resolve /\ RecordTellsWhatRan
  <1>1. Journal!Init => JInv
    BY DEF Journal!Init, RecordTellsWhatRan
  <1>2. JInv /\ [Journal!Next]_(Journal!vars) => JInv'
    <2> SUFFICES ASSUME JInv, [Journal!Next]_(Journal!vars) PROVE JInv'
      OBVIOUS
    <2>1. CASE UNCHANGED <<ran, journal, link, Known>>
      BY <2>1 DEF RecordTellsWhatRan
    <2>2. ASSUME NEW r \in Requests, Journal!Begin(r) PROVE JInv'
      <3>1. /\ journal[r] = "none" /\ ran' = ran \union {r}
            /\ journal' = journal /\ link' = link /\ Known' = Known
        BY <2>2 DEF Journal!Begin, Known
      <3> QED
        BY <3>1 DEF RecordTellsWhatRan
    <2>3. ASSUME NEW r \in Requests, NEW s \in Statuses, NEW i \in Ids \union {NoId},
                 Journal!Write(r, s, i)
          PROVE  JInv'
      <3>1. /\ s \in {"success", "timeout"} => r \in ran
            /\ s \in {"rejected", "busy"} => r \notin ran
            /\ i \in Known \union {NoId}
            /\ journal' = [journal EXCEPT ![r] = s]
            /\ link' = [link EXCEPT ![r] = i]
            /\ ran' = ran /\ Known' = Known
        BY <2>3 DEF Journal!Write, Known
      <3> QED
        BY <3>1 DEF RecordTellsWhatRan
    <2>4. ASSUME NEW R \in SUBSET Requests, Journal!Retire(R) PROVE JInv'
      <3>1. /\ journal' = [r \in Requests |-> IF r \in R THEN "pruned" ELSE journal[r]]
            /\ link' = [r \in Requests |-> IF r \in R THEN NoId ELSE link[r]]
            /\ ran' = ran /\ Known' = Known
        BY <2>4 DEF Journal!Retire, Known
      <3> QED
        BY <3>1 DEF RecordTellsWhatRan
    <2>5. ASSUME NEW i \in Ids, Journal!Define(i) PROVE JInv'
      <3>1. Known' = Known \union {i} /\ journal' = journal /\ link' = link /\ ran' = ran
        BY <2>5 DEF Journal!Define, Known
      <3> QED
        BY <3>1 DEF RecordTellsWhatRan
    <2>6. ASSUME NEW i \in Ids, Journal!Undefine(i) PROVE JInv'
      <3>1. /\ Known' = Known \ {i} /\ journal' = journal /\ ran' = ran
            /\ link' = [r \in Requests |-> IF link[r] = i THEN NoId ELSE link[r]]
        BY <2>6 DEF Journal!Undefine, Known
      <3> QED
        BY <3>1 DEF RecordTellsWhatRan
    <2> QED
      BY <2>1, <2>2, <2>3, <2>4, <2>5, <2>6 DEF Journal!Next, Journal!vars, Known
  <1>3. JInv => RecordTellsWhatRan /\ LinksResolve
    BY DEF LinksResolve, Known
  <1> QED
    BY <1>1, <1>2, <1>3, PTL DEF JournalSpec, Journal!Spec
=============================================================================
