--------------------------- MODULE OperatorChanges ---------------------------
(***************************************************************************)
(* What operators change by hand: the settings form, a device's own        *)
(* fields, credentials and their assignment to devices.  Every handler     *)
(* loads, waits, and commits its change together with the event that       *)
(* describes it, and both are computed from what it loaded.                *)
(*                                                                         *)
(* SELECTs take no snapshot: each sees what is committed at that moment.   *)
(* SQLite's write lock is taken by the first flush of something dirty and  *)
(* kept to the commit; every handler but the settings form flushes in its  *)
(* commit only.  A flush writes the columns that differ from the ones      *)
(* loaded, and a row is deleted by its primary key, whose it is by then.   *)
(***************************************************************************)
EXTENDS Integers, FiniteSets

CONSTANTS
  Requests, NoRequest,
  LastKey,            \* the settings are 1..LastKey, in the order saved
  Values, Default, NoRow, Unread,
  Devices, NoDevice, Fields,
  Summarised,         \* the fields an event names without their values
  Names, NoName,      \* of credentials
  MaxId, MaxRow       \* bounds: primary keys of credentials and assignments

Keys == 1..LastKey
Cids == 1..MaxId
Rows == 1..MaxRow

ASSUME ChangesAssumption ==
  /\ NoRequest \notin Requests /\ NoDevice \notin Devices /\ NoName \notin Names
  /\ Summarised \subseteq Fields
  /\ LastKey \in Nat /\ {MaxId, MaxRow} \subseteq Nat \ {0}
  /\ Default \in Values /\ NoRow # Unread /\ {NoRow, Unread} \cap Values = {}

VARIABLES
  setting,    \* the stored value of each setting, NoRow before its first save
  field,      \* the fields of each device an operator edits
  listed,     \* the devices that are not removed
  credential, \* the name of each credential, by primary key
  assignment, \* device and credential of each assignment, by primary key
  writer,     \* the request whose transaction holds the write lock
  request     \* progress of each request, and what it recorded

vars == <<setting, field, listed, credential, assignment, writer, request>>

Form == [Keys -> Values] \union [Fields -> Values]
NoForm == [k \in {} |-> Default]
Assignment == [device : Devices, cid : Cids]
NoAssignment == [device |-> NoDevice, cid |-> 0]

Event ==
  ({"setting"} \X Keys \X Values)
  \union ({"edited"} \X Devices \X (Fields \ Summarised) \X Values \X Values)
  \union ({"changed"} \X Devices \X Summarised)
  \union ({"assigned", "unassigned"} \X Devices \X Names)
  \union ({"created", "deleted"} \X Names) \union ({"removed"} \X Devices)

Kinds == {"none", "save", "edit", "remove", "create", "delete", "assign", "unassign"}
Request == [
  kind : Kinds, phase : {"idle", "loaded", "ready", "done", "failed"},
  device : Devices \union {NoDevice}, cid : Cids \union {0}, name : Names \union {NoName},
  form : Form \union {NoForm},     \* what was submitted
  before : Form \union {NoForm},   \* what was loaded first
  next : 1..(LastKey + 1),         \* the setting it reads next
  read : [Keys -> Values \union {NoRow, Unread}],
  shown : Form \union {NoForm},    \* the settings its answer shows
  row : Rows \union {0},           \* the assignment it found
  holders : SUBSET Devices,        \* the devices a deletion found assigned
  newKeys : SUBSET Keys,           \* settings others changed since it loaded
  newRows : SUBSET Rows,           \* assignments made since
  newFields : SUBSET Fields,       \* fields of its device changed since (all: history)
  events : SUBSET Event]           \* committed with its change
Fresh == [
  kind |-> "none", phase |-> "idle", device |-> NoDevice, cid |-> 0, name |-> NoName,
  form |-> NoForm, before |-> NoForm, next |-> 1, read |-> [k \in Keys |-> Unread],
  shown |-> NoForm, row |-> 0, holders |-> {}, newKeys |-> {}, newRows |-> {},
  newFields |-> {}, events |-> {}]

TypeOK ==
  /\ setting \in [Keys -> Values \union {NoRow}]
  /\ field \in [Devices -> [Fields -> Values]]
  /\ listed \in SUBSET Devices
  /\ credential \in [Cids -> Names \union {NoName}]
  /\ assignment \in [Rows -> Assignment \union {NoAssignment}]
  /\ \A i \in Rows : assignment[i] # NoAssignment => credential[assignment[i].cid] # NoName
  /\ writer \in Requests \union {NoRequest}
  /\ request \in [Requests -> Request]

\* Settings never saved, or saved before; one credential, perhaps assigned.
Init ==
  /\ setting \in {[k \in Keys |-> v] : v \in {NoRow, Default}}
  /\ field = [d \in Devices |-> [f \in Fields |-> Default]]
  /\ listed = Devices
  /\ \E n \in Names : credential = [c \in Cids |-> IF c = 1 THEN n ELSE NoName]
  /\ \E a \in {NoAssignment} \union [device : Devices, cid : {1}] :
       assignment = [i \in Rows |-> IF i = 1 THEN a ELSE NoAssignment]
  /\ writer = NoRequest
  /\ request = [r \in Requests |-> Fresh]

tables == <<setting, field, listed, credential, assignment>>

\* SQLite's next primary key: one more than the largest in use.
IsNext(i, used) == (\A j \in used : j < i) /\ (i = 1 \/ i - 1 \in used)

\* A handler has loaded what it works on.
Loads(r, new) ==
  /\ request[r].phase = "idle"
  /\ request' = [request EXCEPT ![r] = new]
  /\ UNCHANGED <<tables, writer>>

\* The fields of the device that request q edits whose stored value changes.
FieldsChanged(q) ==
  {f \in Fields : q.kind = "edit" /\ field'[q.device][f] # field[q.device][f]}

\* Its transaction commits, with the events; who is in flight has loaded the
\* settings keys and the device as they were before, and the table without rows.
Commits(r, keys, rows, events) ==
  /\ events # {} => writer \in {r, NoRequest}
  /\ writer' = IF writer = r THEN NoRequest ELSE writer
  /\ request' = [q \in Requests |->
       IF q = r THEN [request[r] EXCEPT !.phase = "done", !.events = events]
       ELSE IF request[q].phase \notin {"loaded", "ready"} THEN request[q]
       ELSE [request[q] EXCEPT !.newKeys = @ \union keys, !.newRows = @ \union rows,
                                   !.newFields = @ \union FieldsChanged(request[q])]]

-----------------------------------------------------------------------------
(* The settings form. *)

Effective(k) == IF setting[k] = NoRow THEN Default ELSE setting[k]

\* update_settings(): the settings as they were, for the event.
SaveLoad(r) == \E form \in [Keys -> Values] :
  Loads(r, [Fresh EXCEPT !.kind = "save", !.phase = "loaded", !.form = form,
                         !.before = [k \in Keys |-> Effective(k)]])

\* What the session has to write: rows to insert, and values that differ from
\* the ones read.
Dirty(q) == {k \in Keys : q.read[k] # Unread /\ q.form[k] # q.read[k]}

\* A flush: nothing to write, or the lock is or becomes the request's; a row
\* inserted meanwhile refuses a second one.
Flushes(r) ==
  LET dirty == Dirty(request[r])
  IN  IF dirty = {} THEN UNCHANGED writer
      ELSE /\ writer \in {r, NoRequest} /\ writer' = r
           /\ \A k \in dirty : request[r].read[k] = NoRow => setting[k] = NoRow

\* _put(): the query flushes what is dirty and reads the row of the next key.
SavePut(r) ==
  LET q == request[r]
  IN  /\ q.kind = "save" /\ q.phase = "loaded" /\ q.next \in Keys
      /\ Flushes(r)
      /\ request' = [request EXCEPT ![r].read[q.next] = setting[q.next], ![r].next = q.next + 1]
      /\ UNCHANGED tables

\* Mutant: the settings loaded first are taken for the ones stored.
SaveShowBefore(r) ==
  LET q == request[r]
  IN  /\ q.kind = "save" /\ q.phase = "loaded" /\ q.next \notin Keys
      /\ Flushes(r)
      /\ request' = [request EXCEPT ![r].phase = "ready", ![r].shown = q.before]
      /\ UNCHANGED tables

\* save() ends by loading the settings again, its own writes among them.
SaveShow(r) ==
  LET q == request[r]
  IN  /\ q.kind = "save" /\ q.phase = "loaded" /\ q.next \notin Keys
      /\ Flushes(r)
      /\ request' = [request EXCEPT ![r].phase = "ready",
           ![r].shown = [k \in Keys |-> IF k \in Dirty(q) THEN q.form[k] ELSE Effective(k)]]
      /\ UNCHANGED tables

\* Mutant: a save only updates rows that exist.
WrittenOver(q) == {k \in Dirty(q) : q.read[k] # NoRow}

Written(q) == Dirty(q)

\* The event, if the settings shown are not those loaded, and the commit.
SaveCommit(r) ==
  LET q == request[r]
      changed == {k \in Keys : q.before[k] # q.shown[k]}
  IN  /\ q.kind = "save" /\ q.phase = "ready"
      /\ setting' = [k \in Keys |-> IF k \in Written(q) THEN q.form[k] ELSE setting[k]]
      /\ UNCHANGED <<field, listed, credential, assignment>>
      /\ Commits(r, Dirty(q), {}, {<<"setting", k, q.shown[k]>> : k \in changed})

-----------------------------------------------------------------------------
(* Devices. *)

\* update_device() loads a listed device.
EditLoad(r) == \E d \in listed, form \in [Fields -> Values] :
  Loads(r, [Fresh EXCEPT !.kind = "edit", !.phase = "ready", !.device = d, !.form = form,
                         !.before = field[d]])

\* Mutant: the whole form is written.
EditedWhole(q) == Fields

\* The columns that differ from the ones loaded.
Edited(q) == {f \in Fields : q.form[f] # q.before[f]}

\* What describe_changes() says of a field: its values as loaded and as
\* submitted, or, of one it summarises, that it changed.
EditEvent(q, f) ==
  IF f \in Summarised THEN <<"changed", q.device, f>>
  ELSE <<"edited", q.device, f, q.before[f], q.form[f]>>

EditCommit(r) ==
  LET q == request[r]
      named == {f \in Fields : q.form[f] # q.before[f]}
  IN  /\ q.kind = "edit" /\ q.phase = "ready"
      /\ field' = [field EXCEPT ![q.device] =
           [f \in Fields |-> IF f \in Edited(q) THEN q.form[f] ELSE @[f]]]
      /\ UNCHANGED <<setting, listed, credential, assignment>>
      /\ Commits(r, {}, {}, {EditEvent(q, f) : f \in named})

\* delete_device()
RemoveLoad(r) == \E d \in Devices :
  Loads(r, [Fresh EXCEPT !.kind = "remove", !.phase = "ready", !.device = d])

RemoveCommit(r) ==
  LET q == request[r]
  IN  /\ q.kind = "remove" /\ q.phase = "ready"
      /\ listed' = listed \ {q.device}
      /\ UNCHANGED <<setting, field, credential, assignment>>
      /\ Commits(r, {}, {}, {<<"removed", q.device>>})

-----------------------------------------------------------------------------
(* Credentials. *)

Stored == {c \in Cids : credential[c] # NoName}
Assigned == {i \in Rows : assignment[i] # NoAssignment}

\* create(): the name is free.
CreateLoad(r) == \E n \in Names \ {credential[c] : c \in Stored} :
  Loads(r, [Fresh EXCEPT !.kind = "create", !.phase = "ready", !.name = n])

\* The insert, unless the name is taken by now.
CreateCommit(r) ==
  LET q == request[r]
  IN  /\ q.kind = "create" /\ q.phase = "ready"
      /\ \A o \in Stored : credential[o] # q.name
      /\ \E c \in Cids : /\ IsNext(c, Stored)
                         /\ credential' = [credential EXCEPT ![c] = q.name]
      /\ UNCHANGED <<setting, field, listed, assignment>>
      /\ Commits(r, {}, {}, {<<"created", q.name>>})

\* delete_credential()
DeleteLoad(r) == \E c \in Stored :
  Loads(r, [Fresh EXCEPT !.kind = "delete", !.phase = "loaded", !.cid = c, !.name = credential[c]])

\* Mutant: only listed devices are looked up.
HoldersListed(c) == {d \in listed : \E i \in Assigned : assignment[i] = [device |-> d, cid |-> c]}

Holders(c) == {d \in Devices : \E i \in Assigned : assignment[i] = [device |-> d, cid |-> c]}

\* The devices it is assigned to, removed or not.
DeleteFind(r) ==
  /\ request[r].kind = "delete" /\ request[r].phase = "loaded"
  /\ request' = [request EXCEPT ![r].phase = "ready", ![r].holders = Holders(request[r].cid)]
  /\ UNCHANGED <<tables, writer>>

\* Mutant: foreign keys are not enforced.
DeleteCommitAlone(r) ==
  LET q == request[r]
  IN  /\ q.kind = "delete" /\ q.phase = "ready"
      /\ credential' = [credential EXCEPT ![q.cid] = NoName]
      /\ UNCHANGED <<setting, field, listed, assignment>>
      /\ Commits(r, {}, {}, {<<"unassigned", d, q.name>> : d \in q.holders}
                            \union {<<"deleted", q.name>>})

\* The row goes by its id, with its assignments of that moment.
DeleteCommit(r) ==
  LET q == request[r]
  IN  /\ q.kind = "delete" /\ q.phase = "ready"
      /\ credential' = [credential EXCEPT ![q.cid] = NoName]
      /\ assignment' = [i \in Rows |-> IF assignment[i].cid = q.cid THEN NoAssignment
                                       ELSE assignment[i]]
      /\ UNCHANGED <<setting, field, listed>>
      /\ Commits(r, {}, {}, {<<"unassigned", d, q.name>> : d \in q.holders}
                            \union {<<"deleted", q.name>>})

\* assign_credential() loads the device and the credential.
AssignLoad(r) == \E kind \in {"assign", "unassign"}, d \in listed, c \in Stored :
  Loads(r, [Fresh EXCEPT !.kind = kind, !.phase = "loaded", !.device = d, !.cid = c,
                         !.name = credential[c]])

Found(q) == {i \in Rows : assignment[i] = [device |-> q.device, cid |-> q.cid]}

\* assign() and unassign() look for the row; nothing to do ends the request.
AssignFind(r) ==
  LET q == request[r]
  IN  /\ q.phase = "loaded"
      /\ \/ /\ q.kind = "assign"
            /\ request' = [request EXCEPT ![r].phase = IF Found(q) = {} THEN "ready" ELSE "done"]
         \/ /\ q.kind = "unassign" /\ Found(q) = {}
            /\ request' = [request EXCEPT ![r].phase = "done"]
         \/ /\ q.kind = "unassign"
            /\ \E i \in Found(q) :
                 request' = [request EXCEPT ![r].phase = "ready", ![r].row = i]
      /\ UNCHANGED <<tables, writer>>

\* The insert, unless the pair exists or the credential does not by now.
AssignCommit(r) ==
  LET q == request[r]
  IN  /\ q.kind = "assign" /\ q.phase = "ready"
      /\ Found(q) = {} /\ q.cid \in Stored
      /\ UNCHANGED <<setting, field, listed, credential>>
      /\ \E i \in Rows :
           /\ IsNext(i, Assigned)
           /\ assignment' = [assignment EXCEPT ![i] = [device |-> q.device, cid |-> q.cid]]
           /\ Commits(r, {}, {i}, {<<"assigned", q.device, q.name>>})

\* The row goes by its id, which may be another's by now, or nobody's.
UnassignCommit(r) ==
  LET q == request[r]
  IN  /\ q.kind = "unassign" /\ q.phase = "ready"
      /\ assignment' = [assignment EXCEPT ![q.row] = NoAssignment]
      /\ UNCHANGED <<setting, field, listed, credential>>
      /\ Commits(r, {}, {}, {<<"unassigned", q.device, q.name>>})

-----------------------------------------------------------------------------
\* Refused, by the form's validation or the database: nothing is written.
Fails(r) ==
  /\ request[r].phase \in {"loaded", "ready"}
  /\ request' = [request EXCEPT ![r].phase = "failed"]
  /\ writer' = IF writer = r THEN NoRequest ELSE writer
  /\ UNCHANGED tables

Handler(r) ==
  \/ SaveLoad(r) \/ SavePut(r) \/ SaveShow(r) \/ SaveCommit(r)
  \/ EditLoad(r) \/ EditCommit(r) \/ RemoveLoad(r) \/ RemoveCommit(r)
  \/ CreateLoad(r) \/ CreateCommit(r) \/ DeleteLoad(r) \/ DeleteFind(r) \/ DeleteCommit(r)
  \/ AssignLoad(r) \/ AssignFind(r) \/ AssignCommit(r) \/ UnassignCommit(r)
  \/ Fails(r)

Next == \E r \in Requests : Handler(r)

Spec == Init /\ [][Next]_vars

-----------------------------------------------------------------------------
(* Properties. *)

\* The request that commits in this step.
Committing(r) == request[r].phase = "ready" /\ request'[r].phase = "done"

\* "Validate and persist the whole settings form as one unit": a form is
\* stored as submitted, except where it found a setting as submitted and
\* another save changed that one before this one's first write.
SavesAreWhole == [][\A r \in Requests :
  Committing(r) /\ request[r].kind = "save" =>
    \A k \in Keys :
      \/ setting'[k] = request[r].form[k]
      \/ k \in request[r].newKeys /\ request[r].form[k] = request[r].read[k]]_vars

\* No setting changes without an event that says to what, in the same
\* transaction, but one put back to what the request loaded first, over
\* another save in between.
SavesAreRecorded == [][\A k \in Keys :
  Effective(k)' # Effective(k) => \E r \in Requests :
    /\ Committing(r)
    /\ \/ <<"setting", k, setting'[k]>> \in request'[r].events
       \/ k \in request[r].newKeys /\ setting'[k] = request[r].before[k]]_vars

\* The log of edits is what happened.  A field changes only with an event that
\* names it, so who saves one field does not undo another's edit of the next;
\* unless it is summarised, the event says from what to what.  And an event
\* names only what changed, from what it was: but for a field another edit
\* changed after this one had loaded the device.
EditLogIsTrue == [][\A d \in Devices, f \in Fields :
  /\ field'[d][f] # field[d][f] => \E r \in Requests :
       /\ Committing(r)
       /\ \/ f \in Summarised /\ <<"changed", d, f>> \in request'[r].events
          \/ \E old \in Values :
               <<"edited", d, f, old, field'[d][f]>> \in request'[r].events
  /\ \A r \in Requests : Committing(r) =>
       /\ <<"changed", d, f>> \in request'[r].events =>
            field'[d][f] # field[d][f] \/ f \in request[r].newFields
       /\ \A old, new \in Values : <<"edited", d, f, old, new>> \in request'[r].events =>
            /\ field'[d][f] = new
            /\ field[d][f] = old \/ f \in request[r].newFields]_vars

\* An assignment older than the request that ends it is named by its event,
\* device and credential, whether it is ended alone or with its credential.
AssignmentsLeaveATrace == [][\A i \in Rows :
  assignment[i] # NoAssignment /\ assignment'[i] # assignment[i] => \E r \in Requests :
    /\ Committing(r)
    /\ \/ i \in request[r].newRows
       \/ <<"unassigned", assignment[i].device, credential[assignment[i].cid]>>
            \in request'[r].events]_vars
=============================================================================
