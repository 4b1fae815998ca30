------------------------- MODULE OperatorChangesProofs -------------------------
(***************************************************************************)
(* Theorems about OperatorChanges, for any requests, settings, devices and *)
(* credentials.                                                            *)
(*                                                                         *)
(* What a request loaded is still so, except for the settings and fields   *)
(* changed and the assignments made since (newKeys, newFields, newRows).   *)
(* The proof first says what a step changes of the tables and tells the    *)
(* others (Tables, Told), then that what the others loaded stays right     *)
(* (OthersKeep), then looks at the request that made the step.             *)
(***************************************************************************)
EXTENDS OperatorChanges, TLAPS

InFlight(q) == q.phase \in {"loaded", "ready"}
Granting == {"delete", "assign", "unassign"}

\* What a save in flight read and shows.
SaveSound(q) == q.kind = "save" =>
  /\ q.form \in [Keys -> Values] /\ q.before \in [Keys -> Values]
  /\ InFlight(q) => \A k \in Keys :
       /\ k < q.next => q.read[k] # Unread
       /\ k \notin q.newKeys => q.before[k] = Effective(k) /\ q.read[k] \in {Unread, setting[k]}
  /\ q.phase = "ready" =>
       /\ q.next = LastKey + 1
       /\ q.shown \in [Keys -> Values]
       /\ \A k \in Dirty(q) : q.shown[k] = q.form[k]

\* What a request about a credential found, of the rows it could have found.
GrantSound(q) == q.kind \in Granting =>
  /\ q.name \in Names /\ q.cid \in Cids
  /\ q.kind # "delete" => q.device \in Devices
  /\ q.kind = "unassign" /\ q.phase = "ready" => q.row \in Rows
  /\ InFlight(q) => \A i \in Rows \ q.newRows :
       /\ assignment[i] # NoAssignment /\ assignment[i].cid = q.cid => credential[q.cid] = q.name
       /\ q.kind = "delete" /\ q.phase = "ready" /\ assignment[i] # NoAssignment
            /\ assignment[i].cid = q.cid => assignment[i].device \in q.holders
       /\ q.kind = "unassign" /\ q.phase = "ready" /\ i = q.row =>
            assignment[i] \in {NoAssignment, [device |-> q.device, cid |-> q.cid]}

\* What an edit in flight loaded, of the fields no other edit changed since.
EditSound(q) == q.kind = "edit" =>
  /\ q.form \in [Fields -> Values] /\ q.before \in [Fields -> Values]
  /\ q.device \in Devices
  /\ InFlight(q) => \A f \in Fields \ q.newFields : q.before[f] = field[q.device][f]

OtherSound(q) ==
  /\ q.kind = "remove" => q.device \in Devices
  /\ q.kind = "create" => q.name \in Names

Sound(q) == q \in Request /\ SaveSound(q) /\ GrantSound(q) /\ EditSound(q) /\ OtherSound(q)

RequestInv == \A r \in Requests : Sound(request[r])
IInv == TypeOK /\ RequestInv

-----------------------------------------------------------------------------
(* Data. *)

LEMMA Constants ==
  /\ 1 \in Cids /\ LastKey \in Nat /\ MaxId \in Nat /\ MaxRow \in Nat
  /\ Default \in Values /\ NoRow # Unread /\ NoRow \notin Values /\ Unread \notin Values
  /\ NoDevice \notin Devices /\ NoName \notin Names /\ 0 \notin Cids /\ 0 \notin Rows
BY ChangesAssumption DEF Cids, Rows

LEMMA FreshIsIdle ==
  /\ Fresh \in Request /\ Sound(Fresh)
  /\ Fresh.kind = "none" /\ Fresh.phase = "idle" /\ Fresh.next = 1
  /\ Fresh.read = [k \in Keys |-> Unread]
<1>1. NoForm \in Form \union {NoForm} /\ 1 \in 1..(LastKey + 1)
  BY Constants
<1>2. Fresh \in Request
  BY <1>1 DEF Fresh, Request, Kinds
<1> QED BY <1>2 DEF Fresh, Sound, SaveSound, GrantSound, EditSound, OtherSound, Granting

\* An unused assignment refers to no credential.
LEMMA Unused == NoAssignment \notin Assignment /\ NoAssignment.cid \notin Cids
BY Constants DEF NoAssignment, Assignment

LEMMA InitIInv == Init => IInv
<1> SUFFICES ASSUME Init PROVE IInv
  OBVIOUS
<1>1. setting \in [Keys -> Values \union {NoRow}] /\ field \in [Devices -> [Fields -> Values]]
  BY Constants DEF Init
<1>2. credential \in [Cids -> Names \union {NoName}]
  BY DEF Init
<1>3. assignment \in [Rows -> Assignment \union {NoAssignment}]
      /\ \A i \in Rows : assignment[i] # NoAssignment => credential[assignment[i].cid] # NoName
  <2>1. PICK a \in {NoAssignment} \union [device : Devices, cid : {1}] :
          assignment = [i \in Rows |-> IF i = 1 THEN a ELSE NoAssignment]
    BY DEF Init
  <2>2. PICK n \in Names : credential = [c \in Cids |-> IF c = 1 THEN n ELSE NoName]
    BY DEF Init
  <2>3. 1 \in Cids
    BY Constants
  <2> QED BY <2>1, <2>2, <2>3, Constants DEF Assignment
<1>4. request \in [Requests -> Request] /\ RequestInv
  BY FreshIsIdle DEF Init, RequestInv
<1> QED BY <1>1, <1>2, <1>3, <1>4 DEF IInv, TypeOK, Init

-----------------------------------------------------------------------------
(* What a step does to the tables, and to the others. *)

\* All changes of settings are to keys, all new assignments are rows; what
\* else changes is gone.
Tables(keys, rows) ==
  /\ \A k \in Keys \ keys : setting'[k] = setting[k]
  /\ \A i \in Rows \ rows : assignment'[i] \in {assignment[i], NoAssignment}
  /\ \A c \in Cids : credential'[c] = credential[c] \/ credential[c] = NoName
       \/ \A i \in Rows \ rows : assignment'[i] # NoAssignment => assignment'[i].cid # c

Told(q, keys, rows) ==
  [q EXCEPT !.newKeys = @ \union keys, !.newRows = @ \union rows,
            !.newFields = @ \union FieldsChanged(q)]

\* What they loaded is still so, but for what they are told.
LEMMA OthersKeep ==
  ASSUME IInv, NEW keys \in SUBSET Keys, NEW rows \in SUBSET Rows, Tables(keys, rows),
         NEW o, Sound(o), NEW n,
         \/ n = o /\ ~InFlight(o)
         \/ InFlight(o) /\ n = Told(o, keys, rows)
  PROVE  Sound(n)'
<1>1. Sound(o) /\ o \in Request
  BY DEF Sound
<1>2. /\ n \in Request
      /\ n.kind = o.kind /\ n.phase = o.phase /\ n.form = o.form /\ n.before = o.before
      /\ n.next = o.next /\ n.read = o.read /\ n.shown = o.shown
      /\ n.name = o.name /\ n.cid = o.cid /\ n.device = o.device /\ n.row = o.row
      /\ n.holders = o.holders
      /\ InFlight(o) => /\ n.newKeys = o.newKeys \union keys /\ n.newRows = o.newRows \union rows
                        /\ n.newFields = o.newFields \union FieldsChanged(o)
  <2>1. CASE n = o /\ ~InFlight(o)
    BY <1>1, <2>1
  <2>2. CASE InFlight(o) /\ n = Told(o, keys, rows)
    <3>1. o.newKeys \union keys \in SUBSET Keys /\ o.newRows \union rows \in SUBSET Rows
          /\ o.newFields \union FieldsChanged(o) \in SUBSET Fields
      BY <1>1 DEF Request, FieldsChanged
    <3>2. n = [o EXCEPT !.newKeys = o.newKeys \union keys, !.newRows = o.newRows \union rows,
                        !.newFields = o.newFields \union FieldsChanged(o)]
      BY <2>2 DEF Told
    <3> QED BY <1>1, <3>1, <3>2 DEF Request
  <2> QED BY <2>1, <2>2
<1>3. InFlight(n) <=> InFlight(o)
  BY <1>2 DEF InFlight
<1>4. SaveSound(n)'
  <2> SUFFICES ASSUME n.kind = "save" PROVE SaveSound(n)'
    BY DEF SaveSound
  <2>1. SaveSound(o) /\ o.kind = "save"
    BY <1>1, <1>2 DEF Sound
  <2>2. ASSUME InFlight(n), NEW k \in Keys, k \notin n.newKeys
        PROVE  n.before[k] = Effective(k)' /\ n.read[k] \in {Unread, setting'[k]}
    <3>1. k \notin o.newKeys /\ k \notin keys
      BY <1>2, <1>3, <2>2
    <3>2. setting'[k] = setting[k]
      BY <3>1 DEF Tables
    <3> QED BY <1>2, <1>3, <2>1, <2>2, <3>1, <3>2 DEF SaveSound, Effective
  <2>3. Dirty(n) = Dirty(o)
    BY <1>2 DEF Dirty
  <2> QED BY <1>2, <1>3, <2>1, <2>2, <2>3 DEF SaveSound, Dirty, InFlight
<1>5. GrantSound(n)'
  <2> SUFFICES ASSUME n.kind \in Granting PROVE GrantSound(n)'
    BY DEF GrantSound
  <2>1. GrantSound(o) /\ o.kind \in Granting
    BY <1>1, <1>2 DEF Sound
  <2>2. ASSUME InFlight(n), NEW i \in Rows \ n.newRows
        PROVE  /\ assignment'[i] \in {assignment[i], NoAssignment}
               /\ i \in Rows \ o.newRows /\ i \in Rows \ rows
    BY <1>2, <1>3, <2>2 DEF Tables
  <2>3. ASSUME InFlight(n), NEW i \in Rows \ n.newRows,
               assignment'[i] # NoAssignment, assignment'[i].cid = n.cid
        PROVE  credential'[n.cid] = n.name
    <3>1. assignment'[i] = assignment[i] /\ assignment[i] # NoAssignment
      BY <2>2, <2>3
    <3>2. credential[n.cid] = n.name /\ n.cid \in Cids /\ n.name \in Names
      BY <1>2, <1>3, <2>1, <2>2, <2>3, <3>1 DEF GrantSound
    <3>3. credential[n.cid] # NoName
      BY <3>2, Constants
    <3> QED BY <2>2, <2>3, <3>2, <3>3 DEF Tables
  <2> QED BY <1>2, <1>3, <2>1, <2>2, <2>3 DEF GrantSound, InFlight
<1>6. EditSound(n)'
  <2> SUFFICES ASSUME n.kind = "edit" PROVE EditSound(n)'
    BY DEF EditSound
  <2>1. EditSound(o) /\ o.kind = "edit"
    BY <1>1, <1>2 DEF Sound
  <2>2. ASSUME InFlight(n), NEW f \in Fields \ n.newFields
        PROVE  n.before[f] = field'[n.device][f]
    <3>1. f \notin o.newFields /\ f \notin FieldsChanged(o)
      BY <1>2, <1>3, <2>2
    <3>2. field'[o.device][f] = field[o.device][f]
      BY <2>1, <3>1 DEF FieldsChanged
    <3> QED BY <1>2, <1>3, <2>1, <2>2, <3>1, <3>2 DEF EditSound
  <2> QED BY <1>2, <1>3, <2>1, <2>2 DEF EditSound, InFlight
<1>7. OtherSound(n)
  BY <1>1, <1>2 DEF Sound, OtherSound
<1> QED BY <1>2, <1>4, <1>5, <1>6, <1>7 DEF Sound, OtherSound

TablesOK ==
  /\ setting \in [Keys -> Values \union {NoRow}]
  /\ field \in [Devices -> [Fields -> Values]]
  /\ listed \in SUBSET Devices
  /\ credential \in [Cids -> Names \union {NoName}]
  /\ assignment \in [Rows -> Assignment \union {NoAssignment}]
  /\ \A i \in Rows : assignment[i] # NoAssignment => credential[assignment[i].cid] # NoName

\* A step that leaves the tables alone, and its request sound.
LEMMA QuietStep ==
  ASSUME IInv, NEW r \in Requests, NEW new, Sound(new), UNCHANGED tables,
         request' = [request EXCEPT ![r] = new], writer' \in {r, NoRequest, writer}
  PROVE  IInv'
<1>1. request \in [Requests -> Request] /\ new \in Request /\ writer \in Requests \union {NoRequest}
  BY DEF IInv, TypeOK, Sound
<1>2. TypeOK'
  BY <1>1 DEF IInv, TypeOK, tables
<1>3. ASSUME NEW q \in Requests PROVE Sound(request[q])'
  <2>1. PICK o : o = request'[q]
    OBVIOUS
  <2>2. Sound(o)
    BY <1>1, <2>1 DEF IInv, RequestInv
  <2>3. Sound(o)'
    BY <2>2 DEF Sound, SaveSound, GrantSound, EditSound, OtherSound, Effective, Dirty, tables
  <2> QED BY <2>1, <2>3 DEF Sound, SaveSound, GrantSound, EditSound, OtherSound, Effective, Dirty, InFlight
<1> QED BY <1>2, <1>3 DEF IInv, RequestInv

\* A commit of what the others are told.
LEMMA CommitStep ==
  ASSUME IInv, NEW r \in Requests, NEW keys \in SUBSET Keys, NEW rows \in SUBSET Rows,
         NEW events \in SUBSET Event, Commits(r, keys, rows, events),
         Tables(keys, rows), TablesOK'
  PROVE  IInv'
<1>1. request \in [Requests -> Request] /\ writer \in Requests \union {NoRequest} /\ RequestInv
  BY DEF IInv, TypeOK
<1>2. request' = [q \in Requests |->
        IF q = r THEN [request[r] EXCEPT !.phase = "done", !.events = events]
        ELSE IF InFlight(request[q]) THEN Told(request[q], keys, rows) ELSE request[q]]
  BY DEF Commits, InFlight, Told
<1>3. ASSUME NEW q \in Requests PROVE Sound(request[q])'
  <2>1. PICK n : n = request'[q]
    OBVIOUS
  <2>2. PICK o : o = request[q]
    OBVIOUS
  <2>3. Sound(o)
    BY <1>1, <2>2 DEF RequestInv
  <2>4. CASE q = r
    <3>1. n = [o EXCEPT !.phase = "done", !.events = events]
      BY <1>2, <2>1, <2>2, <2>4
    <3>2. n \in Request /\ n.phase = "done" /\ n.kind = o.kind /\ n.form = o.form
          /\ n.before = o.before /\ n.device = o.device /\ n.name = o.name /\ n.cid = o.cid
      BY <2>3, <3>1 DEF Sound, Request
    <3>3. Sound(n)'
      BY <2>3, <3>2 DEF Sound, SaveSound, GrantSound, EditSound, OtherSound, InFlight
    <3> QED BY <2>1, <3>3 DEF Sound, SaveSound, GrantSound, EditSound, OtherSound, Effective, Dirty, InFlight
  <2>5. CASE q # r
    <3>1. \/ n = o /\ ~InFlight(o)
          \/ InFlight(o) /\ n = Told(o, keys, rows)
      BY <1>2, <2>1, <2>2, <2>5
    <3>2. Sound(n)'
      BY <2>3, <3>1, OthersKeep
    <3> QED BY <2>1, <3>2 DEF Sound, SaveSound, GrantSound, EditSound, OtherSound, Effective, Dirty, InFlight
  <2> QED BY <2>4, <2>5
<1>4. RequestInv'
  BY <1>3 DEF RequestInv
<1>5. request' \in [Requests -> Request]
  <2>1. \A q \in Requests : request'[q] \in Request
    BY <1>3 DEF Sound
  <2> QED BY <1>2, <2>1
<1>6. TypeOK'
  BY <1>1, <1>5 DEF TypeOK, TablesOK, Commits
<1> QED BY <1>4, <1>6 DEF IInv

LEMMA Types ==
  ASSUME IInv
  PROVE  TablesOK /\ request \in [Requests -> Request] /\ \A r \in Requests : Sound(request[r])
BY DEF IInv, TypeOK, TablesOK, RequestInv

-----------------------------------------------------------------------------
(* The settings form. *)

LEMMA SaveSteps ==
  ASSUME IInv, NEW r \in Requests, SaveLoad(r) \/ SavePut(r) \/ SaveShow(r)
  PROVE  IInv'
<1> DEFINE q == request[r]
<1>1. /\ Sound(q) /\ q \in Request /\ request \in [Requests -> Request]
      /\ setting \in [Keys -> Values \union {NoRow}]
      /\ \A k \in Keys : Effective(k) \in Values
  BY Types, Constants DEF Sound, TablesOK, Effective
<1>2. CASE SaveLoad(r)
  <2>1. PICK form \in [Keys -> Values] :
          Loads(r, [Fresh EXCEPT !.kind = "save", !.phase = "loaded", !.form = form,
                                 !.before = [k \in Keys |-> Effective(k)]])
    BY <1>2 DEF SaveLoad
  <2> DEFINE new == [Fresh EXCEPT !.kind = "save", !.phase = "loaded", !.form = form,
                                  !.before = [k \in Keys |-> Effective(k)]]
  <2>2. [k \in Keys |-> Effective(k)] \in [Keys -> Values]
    BY <1>1
  <2>3. new \in Request
    BY <2>2, FreshIsIdle DEF Request, Form, Kinds
  <2>4. /\ new.kind = "save" /\ new.phase = "loaded" /\ new.form = form /\ new.next = 1
        /\ new.before = [k \in Keys |-> Effective(k)] /\ new.read = [k \in Keys |-> Unread]
    BY FreshIsIdle DEF Request
  <2>5. \A k \in Keys : ~(k < 1)
    BY Constants DEF Keys
  <2>6. Sound(new)
    BY <2>2, <2>3, <2>4, <2>5 DEF Sound, SaveSound, GrantSound, EditSound, OtherSound, Granting
  <2>7. request' = [request EXCEPT ![r] = new] /\ UNCHANGED tables /\ writer' = writer
    BY <2>1 DEF Loads
  <2> HIDE DEF new
  <2> QED BY <2>6, <2>7, QuietStep
<1>3. CASE SavePut(r)
  <2>1. /\ q.kind = "save" /\ q.phase = "loaded" /\ q.next \in Keys /\ Flushes(r)
        /\ request' = [request EXCEPT ![r].read[q.next] = setting[q.next],
                                      ![r].next = q.next + 1]
        /\ UNCHANGED tables
    BY <1>3 DEF SavePut
  <2> DEFINE read == [q.read EXCEPT ![q.next] = setting[q.next]]
             new == [q EXCEPT !.read = read, !.next = q.next + 1]
  <2>2. request' = [request EXCEPT ![r] = new]
    BY <1>1, <2>1
  <2>3. /\ q.next \in Nat /\ q.next + 1 \in 1..(LastKey + 1)
        /\ q.read \in [Keys -> Values \union {NoRow, Unread}]
        /\ read \in [Keys -> Values \union {NoRow, Unread}]
    BY <1>1, <2>1, Constants DEF Keys, Request
  <2>4. \A k \in Keys : /\ read[k] = IF k = q.next THEN setting[k] ELSE q.read[k]
                        /\ k < q.next + 1 => k < q.next \/ k = q.next
                        /\ setting[k] # Unread
    <3>1. \A k \in Keys : k < q.next + 1 => k < q.next \/ k = q.next
      BY <2>3 DEF Keys
    <3> QED BY <1>1, <2>3, <3>1, Constants
  <2> HIDE DEF read
  <2>5. /\ new \in Request /\ new.kind = "save" /\ new.phase = "loaded" /\ new.form = q.form
        /\ new.before = q.before /\ new.next = q.next + 1 /\ new.read = read
        /\ new.newKeys = q.newKeys
    BY <1>1, <2>1, <2>3 DEF Request
  <2> HIDE DEF new
  <2>6. SaveSound(new)
    BY <1>1, <2>1, <2>4, <2>5 DEF Sound, SaveSound, InFlight
  <2>7. Sound(new)
    BY <2>5, <2>6 DEF Sound, GrantSound, EditSound, OtherSound, Granting
  <2> QED BY <2>1, <2>2, <2>7, QuietStep DEF Flushes
<1>4. CASE SaveShow(r)
  <2> DEFINE shown == [k \in Keys |-> IF k \in Dirty(q) THEN q.form[k] ELSE Effective(k)]
             new == [q EXCEPT !.phase = "ready", !.shown = shown]
  <2>1. /\ q.kind = "save" /\ q.phase = "loaded" /\ q.next \notin Keys /\ Flushes(r)
        /\ request' = [request EXCEPT ![r].phase = "ready", ![r].shown = shown]
        /\ UNCHANGED tables
    BY <1>4 DEF SaveShow
  <2>2. request' = [request EXCEPT ![r] = new]
    BY <1>1, <2>1
  <2>3. q.next = LastKey + 1
    BY <1>1, <2>1, Constants DEF Request, Keys
  <2>4. shown \in [Keys -> Values] /\ \A k \in Dirty(q) : shown[k] = q.form[k]
    <3>1. q.form \in [Keys -> Values]
      BY <1>1, <2>1 DEF Sound, SaveSound
    <3>2. Dirty(q) \subseteq Keys
      BY DEF Dirty
    <3> QED BY <1>1, <3>1, <3>2
  <2> HIDE DEF shown
  <2>5. /\ new \in Request /\ new.kind = "save" /\ new.phase = "ready" /\ new.form = q.form
        /\ new.before = q.before /\ new.next = q.next /\ new.read = q.read
        /\ new.newKeys = q.newKeys /\ new.shown = shown
    <3>1. q \in Request /\ q.kind = "save" /\ shown \in Form \union {NoForm}
      BY <1>1, <2>1, <2>4 DEF Form
    <3> QED BY <3>1 DEF Request
  <2> HIDE DEF new
  <2>6. Dirty(new) = Dirty(q)
    BY <2>5 DEF Dirty
  <2>7. SaveSound(new)
    BY <1>1, <2>1, <2>3, <2>4, <2>5, <2>6 DEF Sound, SaveSound, InFlight
  <2>8. Sound(new)
    BY <2>5, <2>7 DEF Sound, GrantSound, EditSound, OtherSound, Granting
  <2> QED BY <2>1, <2>2, <2>8, QuietStep DEF Flushes
<1> QED BY <1>2, <1>3, <1>4

\* What a commit of a save writes, and what it records.
LEMMA SaveCommitted ==
  ASSUME IInv, NEW r \in Requests, SaveCommit(r)
  PROVE  /\ IInv'
         /\ Dirty(request[r]) \subseteq Keys
         /\ setting' = [k \in Keys |-> IF k \in Dirty(request[r]) THEN request[r].form[k]
                                       ELSE setting[k]]
<1> DEFINE q == request[r]
           changed == {k \in Keys : q.before[k] # q.shown[k]}
           events == {<<"setting", k, q.shown[k]>> : k \in changed}
<1>1. /\ TablesOK /\ Sound(q) /\ q.kind = "save" /\ q.phase = "ready"
      /\ q.form \in [Keys -> Values] /\ q.shown \in [Keys -> Values]
  BY Types DEF SaveCommit, Sound, SaveSound
<1>2. /\ Dirty(q) \in SUBSET Keys
      /\ setting' = [k \in Keys |-> IF k \in Dirty(q) THEN q.form[k] ELSE setting[k]]
      /\ Commits(r, Dirty(q), {}, events)
      /\ UNCHANGED <<field, listed, credential, assignment>>
  BY DEF SaveCommit, Written, Dirty
<1>3. events \in SUBSET Event
  BY <1>1 DEF Event
<1>4. Tables(Dirty(q), {})
  BY <1>2 DEF Tables
<1>5. TablesOK'
  BY <1>1, <1>2 DEF TablesOK
<1> HIDE DEF events
<1> QED BY <1>2, <1>3, <1>4, <1>5, CommitStep

-----------------------------------------------------------------------------
(* Devices and credentials. *)

LEMMA DeviceSteps ==
  ASSUME IInv, NEW r \in Requests, EditLoad(r) \/ EditCommit(r) \/ RemoveLoad(r) \/ RemoveCommit(r)
  PROVE  IInv'
<1> DEFINE q == request[r]
<1>1. /\ TablesOK /\ Sound(q) /\ q \in Request /\ request \in [Requests -> Request]
  BY Types DEF Sound
<1>2. CASE EditLoad(r)
  <2>1. PICK d \in listed, form \in [Fields -> Values] :
          Loads(r, [Fresh EXCEPT !.kind = "edit", !.phase = "ready", !.device = d, !.form = form,
                                 !.before = field[d]])
    BY <1>2 DEF EditLoad
  <2> DEFINE new == [Fresh EXCEPT !.kind = "edit", !.phase = "ready", !.device = d, !.form = form,
                                  !.before = field[d]]
  <2>2. d \in Devices /\ field[d] \in [Fields -> Values]
    BY <1>1 DEF TablesOK
  <2>3. /\ new \in Request /\ new.kind = "edit" /\ new.form = form /\ new.before = field[d]
        /\ new.device = d
    BY <2>2, FreshIsIdle DEF Request, Form, Kinds
  <2>4. Sound(new)
    BY <2>2, <2>3 DEF Sound, SaveSound, GrantSound, EditSound, OtherSound, Granting
  <2>5. request' = [request EXCEPT ![r] = new] /\ UNCHANGED tables /\ writer' = writer
    BY <2>1 DEF Loads
  <2> HIDE DEF new
  <2> QED BY <2>4, <2>5, QuietStep
<1>3. CASE RemoveLoad(r)
  <2>1. PICK d \in Devices :
          Loads(r, [Fresh EXCEPT !.kind = "remove", !.phase = "ready", !.device = d])
    BY <1>3 DEF RemoveLoad
  <2> DEFINE new == [Fresh EXCEPT !.kind = "remove", !.phase = "ready", !.device = d]
  <2>2. new \in Request /\ new.kind = "remove" /\ new.device = d
    BY FreshIsIdle DEF Request, Kinds
  <2>3. Sound(new)
    BY <2>2 DEF Sound, SaveSound, GrantSound, EditSound, OtherSound, Granting
  <2>4. request' = [request EXCEPT ![r] = new] /\ UNCHANGED tables /\ writer' = writer
    BY <2>1 DEF Loads
  <2> HIDE DEF new
  <2> QED BY <2>3, <2>4, QuietStep
<1>4. CASE EditCommit(r)
  <2> DEFINE named == {f \in Fields : q.form[f] # q.before[f]}
             events == {EditEvent(q, f) : f \in named}
             row == [f \in Fields |-> IF f \in Edited(q) THEN q.form[f] ELSE field[q.device][f]]
  <2>1. /\ q.kind = "edit" /\ Commits(r, {}, {}, events)
        /\ field' = [field EXCEPT ![q.device] = row]
        /\ UNCHANGED <<setting, listed, credential, assignment>>
    BY <1>4 DEF EditCommit
  <2>2. q.device \in Devices /\ q.form \in [Fields -> Values] /\ q.before \in [Fields -> Values]
    BY <1>1, <2>1 DEF Sound, EditSound
  <2>3. events \in SUBSET Event
    <3>1. ASSUME NEW f \in Fields PROVE EditEvent(q, f) \in Event
      BY <2>2 DEF EditEvent, Event
    <3> QED BY <3>1
  <2>4. row \in [Fields -> Values]
    BY <1>1, <2>2 DEF TablesOK
  <2> HIDE DEF row, events
  <2>5. TablesOK' /\ Tables({}, {})
    BY <1>1, <2>1, <2>4 DEF TablesOK, Tables
  <2> QED BY <2>1, <2>3, <2>5, CommitStep
<1>5. CASE RemoveCommit(r)
  <2> DEFINE events == {<<"removed", q.device>>}
  <2>1. /\ q.kind = "remove" /\ Commits(r, {}, {}, events) /\ listed' = listed \ {q.device}
        /\ UNCHANGED <<setting, field, credential, assignment>>
    BY <1>5 DEF RemoveCommit
  <2>2. q.device \in Devices
    BY <1>1, <2>1 DEF Sound, EditSound, OtherSound
  <2>3. events \in SUBSET Event
    BY <2>2 DEF Event
  <2>4. TablesOK' /\ Tables({}, {})
    BY <1>1, <2>1 DEF TablesOK, Tables
  <2> HIDE DEF events
  <2> QED BY <2>1, <2>3, <2>4, CommitStep
<1> QED BY <1>2, <1>3, <1>4, <1>5

\* An assignment names a device, and a stored credential.
LEMMA Assignments ==
  ASSUME IInv, NEW i \in Rows, assignment[i] # NoAssignment
  PROVE  /\ assignment[i].device \in Devices /\ assignment[i].cid \in Cids
         /\ assignment[i] = [device |-> assignment[i].device, cid |-> assignment[i].cid]
         /\ credential[assignment[i].cid] # NoName
BY Types DEF TablesOK, Assignment

LEMMA CredentialLoads ==
  ASSUME IInv, NEW r \in Requests,
         CreateLoad(r) \/ DeleteLoad(r) \/ DeleteFind(r) \/ AssignLoad(r) \/ AssignFind(r)
  PROVE  IInv'
<1> DEFINE q == request[r]
<1>1. /\ TablesOK /\ Sound(q) /\ q \in Request /\ request \in [Requests -> Request]
      /\ Stored \subseteq Cids /\ \A c \in Stored : credential[c] \in Names
  BY Types DEF Sound, TablesOK, Stored
<1>2. CASE CreateLoad(r)
  <2>1. PICK n \in Names :
          Loads(r, [Fresh EXCEPT !.kind = "create", !.phase = "ready", !.name = n])
    BY <1>2 DEF CreateLoad
  <2> DEFINE new == [Fresh EXCEPT !.kind = "create", !.phase = "ready", !.name = n]
  <2>2. new \in Request /\ new.kind = "create" /\ new.name = n
    BY FreshIsIdle DEF Request, Kinds
  <2>3. Sound(new)
    BY <2>2 DEF Sound, SaveSound, GrantSound, EditSound, OtherSound, Granting
  <2>4. request' = [request EXCEPT ![r] = new] /\ UNCHANGED tables /\ writer' = writer
    BY <2>1 DEF Loads
  <2> HIDE DEF new
  <2> QED BY <2>3, <2>4, QuietStep
<1>3. CASE DeleteLoad(r)
  <2>1. PICK c \in Stored :
          Loads(r, [Fresh EXCEPT !.kind = "delete", !.phase = "loaded", !.cid = c,
                                 !.name = credential[c]])
    BY <1>3 DEF DeleteLoad
  <2> DEFINE new == [Fresh EXCEPT !.kind = "delete", !.phase = "loaded", !.cid = c,
                                  !.name = credential[c]]
  <2>2. c \in Cids /\ credential[c] \in Names
    BY <1>1
  <2>3. /\ new \in Request /\ new.kind = "delete" /\ new.phase = "loaded" /\ new.cid = c
        /\ new.name = credential[c]
    BY <2>2, FreshIsIdle DEF Request, Kinds
  <2>4. Sound(new)
    BY <2>2, <2>3 DEF Sound, SaveSound, GrantSound, EditSound, OtherSound
  <2>5. request' = [request EXCEPT ![r] = new] /\ UNCHANGED tables /\ writer' = writer
    BY <2>1 DEF Loads
  <2> HIDE DEF new
  <2> QED BY <2>4, <2>5, QuietStep
<1>4. CASE DeleteFind(r)
  <2> DEFINE new == [q EXCEPT !.phase = "ready", !.holders = Holders(q.cid)]
  <2>1. /\ q.kind = "delete" /\ q.phase = "loaded"
        /\ request' = [request EXCEPT ![r].phase = "ready", ![r].holders = Holders(q.cid)]
        /\ UNCHANGED tables /\ writer' = writer
    BY <1>4 DEF DeleteFind
  <2>2. request' = [request EXCEPT ![r] = new]
    BY <1>1, <2>1
  <2>3. Holders(q.cid) \in SUBSET Devices
    BY DEF Holders
  <2>4. /\ new \in Request /\ new.kind = "delete" /\ new.phase = "ready" /\ new.cid = q.cid
        /\ new.name = q.name /\ new.holders = Holders(q.cid) /\ new.newRows = q.newRows
    BY <1>1, <2>1, <2>3 DEF Request
  <2> HIDE DEF new
  <2>5. ASSUME NEW i \in Rows, assignment[i] # NoAssignment, assignment[i].cid = q.cid
        PROVE  assignment[i].device \in Holders(q.cid)
    BY <2>5, Assignments DEF Holders, Assigned
  <2>6. GrantSound(new)
    BY <1>1, <2>1, <2>4, <2>5 DEF Sound, GrantSound, Granting, InFlight
  <2>7. Sound(new)
    BY <2>4, <2>6 DEF Sound, SaveSound, EditSound, OtherSound
  <2> QED BY <2>1, <2>2, <2>7, QuietStep
<1>5. CASE AssignLoad(r)
  <2>1. PICK kind \in {"assign", "unassign"}, d \in listed, c \in Stored :
          Loads(r, [Fresh EXCEPT !.kind = kind, !.phase = "loaded", !.device = d, !.cid = c,
                                 !.name = credential[c]])
    BY <1>5 DEF AssignLoad
  <2> DEFINE new == [Fresh EXCEPT !.kind = kind, !.phase = "loaded", !.device = d, !.cid = c,
                                  !.name = credential[c]]
  <2>2. c \in Cids /\ credential[c] \in Names /\ d \in Devices /\ kind \in Kinds
    BY <1>1 DEF TablesOK, Kinds
  <2>3. /\ new \in Request /\ new.kind = kind /\ new.phase = "loaded" /\ new.cid = c
        /\ new.name = credential[c] /\ new.device = d
    BY <2>2, FreshIsIdle DEF Request
  <2>4. Sound(new)
    BY <2>2, <2>3 DEF Sound, SaveSound, GrantSound, EditSound, OtherSound
  <2>5. request' = [request EXCEPT ![r] = new] /\ UNCHANGED tables /\ writer' = writer
    BY <2>1 DEF Loads
  <2> HIDE DEF new
  <2> QED BY <2>4, <2>5, QuietStep
<1>6. CASE AssignFind(r)
  <2>1. q.phase = "loaded" /\ UNCHANGED tables /\ writer' = writer
    BY <1>6 DEF AssignFind
  <2>2. ASSUME NEW p \in {"ready", "done"}, p = "ready" => q.kind = "assign",
               q.kind \in {"assign", "unassign"},
               request' = [request EXCEPT ![r].phase = p]
        PROVE  IInv'
    <3> DEFINE new == [q EXCEPT !.phase = p]
    <3>1. request' = [request EXCEPT ![r] = new]
      BY <1>1, <2>2
    <3>2. /\ new \in Request /\ new.kind = q.kind /\ new.phase = p /\ new.cid = q.cid
          /\ new.name = q.name /\ new.device = q.device /\ new.newRows = q.newRows
      BY <1>1, <2>2 DEF Request
    <3> HIDE DEF new
    <3>3. GrantSound(new)
      BY <1>1, <2>1, <2>2, <3>2 DEF Sound, GrantSound, Granting, InFlight
    <3>4. Sound(new)
      BY <2>2, <3>2, <3>3 DEF Sound, SaveSound, EditSound, OtherSound
    <3> QED BY <2>1, <3>1, <3>4, QuietStep
  <2>3. ASSUME q.kind = "unassign", NEW i \in Found(q),
               request' = [request EXCEPT ![r].phase = "ready", ![r].row = i]
        PROVE  IInv'
    <3> DEFINE new == [q EXCEPT !.phase = "ready", !.row = i]
    <3>1. request' = [request EXCEPT ![r] = new]
      BY <1>1, <2>3
    <3>2. i \in Rows /\ assignment[i] = [device |-> q.device, cid |-> q.cid]
      BY <2>3 DEF Found
    <3>3. /\ new \in Request /\ new.kind = "unassign" /\ new.phase = "ready" /\ new.cid = q.cid
          /\ new.name = q.name /\ new.device = q.device /\ new.newRows = q.newRows /\ new.row = i
      BY <1>1, <2>3, <3>2 DEF Request
    <3> HIDE DEF new
    <3>4. GrantSound(new)
      BY <1>1, <2>1, <2>3, <3>2, <3>3 DEF Sound, GrantSound, Granting, InFlight
    <3>5. Sound(new)
      BY <3>3, <3>4 DEF Sound, SaveSound, EditSound, OtherSound
    <3> QED BY <2>1, <3>1, <3>5, QuietStep
  <2> QED BY <1>6, <2>2, <2>3 DEF AssignFind
<1> QED BY <1>2, <1>3, <1>4, <1>5, <1>6

LEMMA CredentialCommits ==
  ASSUME IInv, NEW r \in Requests,
         CreateCommit(r) \/ DeleteCommit(r) \/ AssignCommit(r) \/ UnassignCommit(r)
  PROVE  IInv'
<1> DEFINE q == request[r]
<1>1. TablesOK /\ Sound(q) /\ q \in Request
  BY Types DEF Sound
<1>2. CASE CreateCommit(r)
  <2>1. PICK c \in Cids : IsNext(c, Stored) /\ credential' = [credential EXCEPT ![c] = q.name]
    BY <1>2 DEF CreateCommit
  <2>2. /\ q.kind = "create" /\ Commits(r, {}, {}, {<<"created", q.name>>})
        /\ UNCHANGED <<setting, field, listed, assignment>>
    BY <1>2 DEF CreateCommit
  <2>3. q.name \in Names
    BY <1>1, <2>2 DEF Sound, EditSound, OtherSound
  <2>4. c \in Nat /\ c \notin Stored
    BY <2>1 DEF IsNext, Cids
  <2>5. credential[c] = NoName
    BY <2>1, <2>4 DEF Stored
  <2>6. TablesOK'
    <3>1. credential' \in [Cids -> Names \union {NoName}]
      BY <1>1, <2>1, <2>3 DEF TablesOK
    <3>2. ASSUME NEW i \in Rows, assignment[i] # NoAssignment
          PROVE  credential'[assignment[i].cid] # NoName
      BY <1>1, <2>1, <2>5, <3>2, Assignments DEF TablesOK
    <3> QED BY <1>1, <2>2, <3>1, <3>2 DEF TablesOK
  <2>7. Tables({}, {})
    BY <1>1, <2>1, <2>2, <2>5 DEF Tables, TablesOK
  <2>8. {<<"created", q.name>>} \in SUBSET Event
    BY <2>3 DEF Event
  <2> QED BY <2>2, <2>6, <2>7, <2>8, CommitStep
<1>3. CASE DeleteCommit(r)
  <2> DEFINE events == {<<"unassigned", d, q.name>> : d \in q.holders} \union {<<"deleted", q.name>>}
  <2>1. /\ q.kind = "delete" /\ Commits(r, {}, {}, events)
        /\ credential' = [credential EXCEPT ![q.cid] = NoName]
        /\ assignment' = [i \in Rows |-> IF assignment[i].cid = q.cid THEN NoAssignment
                                         ELSE assignment[i]]
        /\ UNCHANGED <<setting, field, listed>>
    BY <1>3 DEF DeleteCommit
  <2>2. q.name \in Names /\ q.cid \in Cids /\ q.holders \subseteq Devices
    BY <1>1, <2>1 DEF Sound, GrantSound, Granting, Request
  <2>3. events \in SUBSET Event
    BY <2>2 DEF Event
  <2> HIDE DEF events
  <2>4. /\ credential' \in [Cids -> Names \union {NoName}]
        /\ \A c \in Cids : c # q.cid => credential'[c] = credential[c]
    BY <1>1, <2>1 DEF TablesOK
  <2>5. ASSUME NEW i \in Rows
        PROVE  /\ assignment'[i] \in {assignment[i], NoAssignment}
               /\ assignment'[i] # NoAssignment =>
                    assignment'[i] = assignment[i] /\ assignment[i].cid # q.cid
    BY <2>1
  <2>6. TablesOK'
    <3>1. assignment' \in [Rows -> Assignment \union {NoAssignment}]
      BY <1>1, <2>1 DEF TablesOK
    <3>2. ASSUME NEW i \in Rows, assignment'[i] # NoAssignment
          PROVE  credential'[assignment'[i].cid] # NoName
      BY <2>4, <2>5, <3>2, Assignments
    <3> QED BY <1>1, <2>1, <2>4, <3>1, <3>2 DEF TablesOK
  <2>7. Tables({}, {})
    BY <2>1, <2>4, <2>5 DEF Tables
  <2> QED BY <2>1, <2>3, <2>6, <2>7, CommitStep
<1>4. CASE AssignCommit(r)
  <2>1. PICK i \in Rows :
          /\ assignment' = [assignment EXCEPT ![i] = [device |-> q.device, cid |-> q.cid]]
          /\ Commits(r, {}, {i}, {<<"assigned", q.device, q.name>>})
    BY <1>4 DEF AssignCommit
  <2>2. q.kind = "assign" /\ q.cid \in Stored /\ UNCHANGED <<setting, field, listed, credential>>
    BY <1>4 DEF AssignCommit
  <2>3. q.device \in Devices /\ q.name \in Names /\ q.cid \in Cids /\ credential[q.cid] # NoName
    BY <1>1, <2>2 DEF Sound, GrantSound, Granting, Stored
  <2>4. [device |-> q.device, cid |-> q.cid] \in Assignment
    BY <2>3 DEF Assignment
  <2>5. TablesOK' /\ Tables({}, {i})
    BY <1>1, <2>1, <2>2, <2>3, <2>4 DEF TablesOK, Tables
  <2>6. {<<"assigned", q.device, q.name>>} \in SUBSET Event
    BY <2>3 DEF Event
  <2> QED BY <2>1, <2>5, <2>6, CommitStep
<1>5. CASE UnassignCommit(r)
  <2>1. /\ q.kind = "unassign" /\ assignment' = [assignment EXCEPT ![q.row] = NoAssignment]
        /\ Commits(r, {}, {}, {<<"unassigned", q.device, q.name>>})
        /\ UNCHANGED <<setting, field, listed, credential>>
    BY <1>5 DEF UnassignCommit
  <2>2. q.device \in Devices /\ q.name \in Names
    BY <1>1, <2>1 DEF Sound, GrantSound, Granting
  <2>3. TablesOK' /\ Tables({}, {})
    BY <1>1, <2>1 DEF TablesOK, Tables
  <2>4. {<<"unassigned", q.device, q.name>>} \in SUBSET Event
    BY <2>2 DEF Event
  <2> QED BY <2>1, <2>3, <2>4, CommitStep
<1> QED BY <1>2, <1>3, <1>4, <1>5

LEMMA FailsStep ==
  ASSUME IInv, NEW r \in Requests, Fails(r)
  PROVE  IInv'
<1> DEFINE q == request[r]
           new == [q EXCEPT !.phase = "failed"]
<1>1. Sound(q) /\ q \in Request /\ request \in [Requests -> Request]
  BY Types DEF Sound
<1>2. request' = [request EXCEPT ![r] = new] /\ UNCHANGED tables
      /\ writer' \in {r, NoRequest, writer}
  BY <1>1 DEF Fails
<1>3. /\ new \in Request /\ new.phase = "failed" /\ new.kind = q.kind /\ new.form = q.form
      /\ new.before = q.before /\ new.device = q.device /\ new.name = q.name /\ new.cid = q.cid
  BY <1>1 DEF Request
<1> HIDE DEF new
<1>4. Sound(new)
  BY <1>1, <1>3 DEF Sound, SaveSound, GrantSound, EditSound, OtherSound, InFlight
<1> QED BY <1>2, <1>4, QuietStep

LEMMA StepIInv == IInv /\ [Next]_vars => IInv'
<1>1. IInv /\ UNCHANGED vars => IInv'
  BY DEF IInv, TypeOK, RequestInv, vars, Sound, SaveSound, GrantSound, EditSound, OtherSound, Effective, Dirty,
    InFlight
<1>2. ASSUME IInv, NEW r \in Requests, Handler(r) PROVE IInv'
  BY <1>2, SaveSteps, SaveCommitted, DeviceSteps, CredentialLoads, CredentialCommits, FailsStep
  DEF Handler
<1> QED BY <1>1, <1>2 DEF Next

THEOREM Inductive == Spec => []IInv
<1>1. Init => IInv
  BY InitIInv
<1>2. IInv /\ [Next]_vars => IInv'
  BY StepIInv
<1> QED BY <1>1, <1>2, PTL DEF Spec

\* TypeOK: every table and every request keeps its type, and no assignment
\* refers to a credential that is gone.
THEOREM TypeCorrect == Spec => []TypeOK
<1>1. IInv => TypeOK
  BY DEF IInv
<1> QED BY <1>1, Inductive, PTL

-----------------------------------------------------------------------------
(* Which step changes what. *)

LEMMA Changes ==
  ASSUME NEW r \in Requests, Handler(r)
  PROVE  /\ setting' # setting => SaveCommit(r)
         /\ field' # field => EditCommit(r)
         /\ assignment' # assignment => DeleteCommit(r) \/ AssignCommit(r) \/ UnassignCommit(r)
<1>1. CASE SaveLoad(r) \/ SavePut(r) \/ SaveShow(r) \/ EditLoad(r) \/ RemoveLoad(r) \/ CreateLoad(r)
           \/ DeleteLoad(r) \/ DeleteFind(r) \/ AssignLoad(r) \/ AssignFind(r) \/ Fails(r)
  <2>1. UNCHANGED tables
    BY <1>1 DEF SaveLoad, SavePut, SaveShow, EditLoad, RemoveLoad, CreateLoad, DeleteLoad,
      DeleteFind, AssignLoad, AssignFind, Fails, Loads
  <2> QED BY <2>1 DEF tables
<1>2. CASE SaveCommit(r)
  BY <1>2 DEF SaveCommit
<1>3. CASE EditCommit(r)
  BY <1>3 DEF EditCommit
<1>4. CASE RemoveCommit(r) \/ CreateCommit(r)
  BY <1>4 DEF RemoveCommit, CreateCommit
<1>5. CASE DeleteCommit(r) \/ AssignCommit(r) \/ UnassignCommit(r)
  BY <1>5 DEF DeleteCommit, AssignCommit, UnassignCommit
<1> QED BY <1>1, <1>2, <1>3, <1>4, <1>5 DEF Handler

\* A request that commits is the one that records the events.
LEMMA Committed ==
  ASSUME IInv, NEW r \in Requests, NEW keys, NEW rows, NEW events,
         request[r].phase = "ready", Commits(r, keys, rows, events)
  PROVE  Committing(r) /\ request'[r].events = events
<1>1. request[r] \in Request
  BY Types
<1>2. request'[r] = [request[r] EXCEPT !.phase = "done", !.events = events]
  BY DEF Commits
<1>3. request'[r].phase = "done" /\ request'[r].events = events
  BY <1>1, <1>2 DEF Request
<1> QED BY <1>3 DEF Committing

\* A request commits in its own last step.
LEMMA OwnCommit ==
  ASSUME IInv, NEW o \in Requests, Handler(o), NEW r \in Requests, Committing(r)
  PROVE  /\ o = r
         /\ \/ SaveCommit(r) \/ EditCommit(r) \/ RemoveCommit(r) \/ CreateCommit(r)
            \/ DeleteCommit(r) \/ AssignCommit(r) \/ UnassignCommit(r)
<1>1. /\ request \in [Requests -> Request] /\ request[r] \in Request
      /\ request[r].phase = "ready" /\ request'[r].phase = "done"
  BY Types DEF Committing
<1>2. request'[r] # request[r]
  BY <1>1
<1>3. o = r
  <2>0. SUFFICES ASSUME o # r PROVE FALSE
    OBVIOUS
  <2>1. CASE SaveLoad(o) \/ EditLoad(o) \/ RemoveLoad(o) \/ CreateLoad(o) \/ DeleteLoad(o) \/ AssignLoad(o)
    <3>1. \E new : Loads(o, new)
      BY <2>1 DEF SaveLoad, EditLoad, RemoveLoad, CreateLoad, DeleteLoad, AssignLoad
    <3> QED BY <1>1, <1>2, <2>0, <3>1 DEF Loads
  <2>2. CASE SavePut(o) \/ SaveShow(o) \/ DeleteFind(o) \/ AssignFind(o) \/ Fails(o)
    <3>1. request'[r] = request[r]
      BY <1>1, <2>0, <2>2 DEF SavePut, SaveShow, DeleteFind, AssignFind, Fails
    <3> QED BY <1>2, <3>1
  <2>3. CASE SaveCommit(o) \/ EditCommit(o) \/ RemoveCommit(o) \/ CreateCommit(o) \/ DeleteCommit(o)
             \/ AssignCommit(o) \/ UnassignCommit(o)
    <3>1. PICK keys, rows, events : Commits(o, keys, rows, events)
      BY <2>3 DEF SaveCommit, EditCommit, RemoveCommit, CreateCommit, DeleteCommit, AssignCommit,
        UnassignCommit
    <3>2. request'[r] = Told(request[r], keys, rows)
      BY <1>1, <2>0, <3>1 DEF Commits, Told
    <3>3. request'[r].phase = request[r].phase
      BY <1>1, <3>2 DEF Told, Request
    <3> QED BY <1>1, <3>3
  <2> QED BY <2>1, <2>2, <2>3 DEF Handler
<1>4. ~Fails(r)
  <2> SUFFICES ASSUME Fails(r) PROVE FALSE
    OBVIOUS
  <2>1. request'[r].phase = "failed"
    BY <1>1 DEF Fails, Request
  <2> QED BY <1>1, <2>1
<1>5. Handler(r)
  BY <1>3
<1>6. ~(SaveLoad(r) \/ EditLoad(r) \/ RemoveLoad(r) \/ CreateLoad(r) \/ DeleteLoad(r) \/ AssignLoad(r))
  BY <1>1 DEF Loads, SaveLoad, EditLoad, RemoveLoad, CreateLoad, DeleteLoad, AssignLoad
<1>7. ~(SavePut(r) \/ SaveShow(r) \/ DeleteFind(r) \/ AssignFind(r))
  BY <1>1 DEF SavePut, SaveShow, DeleteFind, AssignFind
<1> QED BY <1>3, <1>4, <1>5, <1>6, <1>7 DEF Handler

LEMMA SavesCommit ==
  ASSUME IInv, NEW o \in Requests, Handler(o), NEW r \in Requests, Committing(r),
         request[r].kind = "save"
  PROVE  SaveCommit(r)
BY OwnCommit DEF EditCommit, RemoveCommit, CreateCommit, DeleteCommit, AssignCommit, UnassignCommit

\* Only an edit commits events about fields, and it is the one that commits.
LEMMA OnlyEditsSpeak ==
  ASSUME IInv, NEW o \in Requests, Handler(o), NEW r \in Requests, Committing(r),
         NEW e \in request'[r].events, e[1] \in {"edited", "changed"}
  PROVE  EditCommit(r)
<1> DEFINE q == request[r]
<1>1. \/ SaveCommit(r) \/ EditCommit(r) \/ RemoveCommit(r) \/ CreateCommit(r)
      \/ DeleteCommit(r) \/ AssignCommit(r) \/ UnassignCommit(r)
  BY OwnCommit
<1>2. ASSUME NEW keys, NEW rows, NEW events, Commits(r, keys, rows, events),
             \A x \in events : x[1] \notin {"edited", "changed"}
      PROVE  FALSE
  BY <1>2, Committed DEF Committing
<1>3. CASE SaveCommit(r)
  <2> DEFINE changed == {k \in Keys : q.before[k] # q.shown[k]}
             events == {<<"setting", k, q.shown[k]>> : k \in changed}
  <2>1. Commits(r, Dirty(q), {}, events)
    BY <1>3 DEF SaveCommit
  <2>2. \A x \in events : x[1] \notin {"edited", "changed"}
    OBVIOUS
  <2> HIDE DEF events
  <2> QED BY <1>2, <2>1, <2>2
<1>4. CASE DeleteCommit(r)
  <2> DEFINE events == {<<"unassigned", d, q.name>> : d \in q.holders}
                       \union {<<"deleted", q.name>>}
  <2>1. Commits(r, {}, {}, events)
    BY <1>4 DEF DeleteCommit
  <2>2. \A x \in events : x[1] \notin {"edited", "changed"}
    OBVIOUS
  <2> HIDE DEF events
  <2> QED BY <1>2, <2>1, <2>2
<1>5. CASE RemoveCommit(r)
  BY <1>2, <1>5 DEF RemoveCommit
<1>6. CASE CreateCommit(r)
  BY <1>2, <1>6 DEF CreateCommit
<1>7. CASE AssignCommit(r)
  BY <1>2, <1>7 DEF AssignCommit
<1>8. CASE UnassignCommit(r)
  BY <1>2, <1>8 DEF UnassignCommit
<1> QED BY <1>1, <1>3, <1>4, <1>5, <1>6, <1>7, <1>8

-----------------------------------------------------------------------------
(* The action properties. *)

\* SavesAreWhole: a form is stored as submitted, but for a setting it found
\* as submitted and another save changed before this one's first write.
THEOREM SavesStoreTheForm == Spec => SavesAreWhole
<1>1. ASSUME IInv, NEW r \in Requests, SaveCommit(r), NEW k \in Keys
      PROVE  \/ setting'[k] = request[r].form[k]
             \/ k \in request[r].newKeys /\ request[r].form[k] = request[r].read[k]
  <2> DEFINE q == request[r]
  <2>1. /\ q.kind = "save" /\ q.phase = "ready"
        /\ setting'[k] = IF k \in Dirty(q) THEN q.form[k] ELSE setting[k]
    BY <1>1 DEF SaveCommit, Written
  <2>2. SaveSound(q)
    BY <1>1, Types DEF Sound
  <2> SUFFICES ASSUME k \notin Dirty(q)
               PROVE  \/ setting[k] = q.form[k]
                      \/ k \in q.newKeys /\ q.form[k] = q.read[k]
    BY <2>1
  <2>3. q.read[k] # Unread
    <3>1. k < q.next
      BY <2>1, <2>2, Constants DEF SaveSound, Keys
    <3> QED BY <2>1, <2>2, <3>1 DEF SaveSound, InFlight
  <2>4. q.form[k] = q.read[k]
    BY <2>3 DEF Dirty
  <2> QED BY <2>1, <2>2, <2>3, <2>4 DEF SaveSound, InFlight
<1>2. IInv /\ [Next]_vars => [\A r \in Requests :
        Committing(r) /\ request[r].kind = "save" =>
          \A k \in Keys :
            \/ setting'[k] = request[r].form[k]
            \/ k \in request[r].newKeys /\ request[r].form[k] = request[r].read[k]]_vars
  BY <1>1, SavesCommit DEF Next
<1> QED BY <1>2, Inductive, PTL DEF Spec, SavesAreWhole

\* SavesAreRecorded: a setting changes with an event that says to what, or
\* back to what its request loaded first, over another save in between.
THEOREM SavesLeaveAnEvent == Spec => SavesAreRecorded
<1>1. ASSUME IInv, NEW o \in Requests, Handler(o), NEW k \in Keys, Effective(k)' # Effective(k)
      PROVE  \E r \in Requests :
               /\ Committing(r)
               /\ \/ <<"setting", k, setting'[k]>> \in request'[r].events
                  \/ k \in request[r].newKeys /\ setting'[k] = request[r].before[k]
  <2> DEFINE q == request[o]
             changed == {j \in Keys : q.before[j] # q.shown[j]}
             events == {<<"setting", j, q.shown[j]>> : j \in changed}
  <2>1. setting'[k] # setting[k] /\ SaveCommit(o)
    BY <1>1, Changes DEF Effective
  <2>2. /\ q.kind = "save" /\ q.phase = "ready"
        /\ setting'[k] = IF k \in Dirty(q) THEN q.form[k] ELSE setting[k]
        /\ Commits(o, Dirty(q), {}, events)
    BY <2>1 DEF SaveCommit, Written
  <2>3. Committing(o) /\ request'[o].events = events
    BY <1>1, <2>2, Committed
  <2>4. SaveSound(q)
    BY <1>1, Types DEF Sound
  <2>5. k \in Dirty(q) /\ setting'[k] = q.form[k] /\ q.shown[k] = q.form[k] /\ q.form[k] \in Values
    BY <2>1, <2>2, <2>4 DEF SaveSound
  <2>6. CASE q.before[k] # q.shown[k]
    BY <2>3, <2>5, <2>6
  <2>7. CASE q.before[k] = q.shown[k] /\ k \in q.newKeys
    BY <2>3, <2>5, <2>7
  <2>8. CASE q.before[k] = q.shown[k] /\ k \notin q.newKeys
    <3>1. q.before[k] = Effective(k)
      BY <2>2, <2>4, <2>8 DEF SaveSound, InFlight
    <3>2. Effective(k)' = setting'[k]
      BY <2>5, Constants DEF Effective
    <3> QED BY <1>1, <2>5, <2>8, <3>1, <3>2
  <2> QED BY <2>6, <2>7, <2>8
<1>2. UNCHANGED vars => \A k \in Keys : Effective(k)' = Effective(k)
  BY DEF vars, Effective
<1>3. IInv /\ [Next]_vars => [\A k \in Keys :
        Effective(k)' # Effective(k) => \E r \in Requests :
          /\ Committing(r)
          /\ \/ <<"setting", k, setting'[k]>> \in request'[r].events
             \/ k \in request[r].newKeys /\ setting'[k] = request[r].before[k]]_vars
  BY <1>1, <1>2 DEF Next
<1> QED BY <1>3, Inductive, PTL DEF Spec, SavesAreRecorded

\* What an edit writes of its device, and says it wrote.
LEMMA EditCommitted ==
  ASSUME IInv, NEW r \in Requests, EditCommit(r)
  PROVE  LET q == request[r]
         IN  /\ Committing(r) /\ q.kind = "edit" /\ q.phase = "ready" /\ EditSound(q)
             /\ request'[r].events = {EditEvent(q, f) : f \in Edited(q)}
             /\ \A d \in Devices, f \in Fields :
                  field'[d][f] = IF d = q.device /\ f \in Edited(q) THEN q.form[f]
                                 ELSE field[d][f]
<1> DEFINE q == request[r]
           row == [f \in Fields |-> IF f \in Edited(q) THEN q.form[f] ELSE field[q.device][f]]
<1>1. /\ q.kind = "edit" /\ q.phase = "ready"
      /\ Commits(r, {}, {}, {EditEvent(q, f) : f \in Edited(q)})
      /\ field' = [field EXCEPT ![q.device] = row]
  BY DEF EditCommit, Edited
<1>2. EditSound(q) /\ field \in [Devices -> [Fields -> Values]]
  BY Types DEF Sound, TablesOK
<1>3. \A d \in Devices : field'[d] = IF d = q.device THEN row ELSE field[d]
  BY <1>1, <1>2
<1>4. Committing(r) /\ request'[r].events = {EditEvent(q, f) : f \in Edited(q)}
  BY <1>1, Committed
<1> QED BY <1>1, <1>2, <1>3, <1>4

\* EditLogIsTrue: a field changes with an event that names it and, unless it is
\* summarised, says from what to what; and an event is right about what there
\* was before, but for a field another edit changed since this one loaded.
THEOREM TheEditLogIsTrue == Spec => EditLogIsTrue
<1>1. ASSUME IInv, NEW o \in Requests, Handler(o), NEW d \in Devices, NEW f \in Fields,
             field'[d][f] # field[d][f]
      PROVE  \E r \in Requests :
               /\ Committing(r)
               /\ \/ f \in Summarised /\ <<"changed", d, f>> \in request'[r].events
                  \/ \E old \in Values :
                       <<"edited", d, f, old, field'[d][f]>> \in request'[r].events
  <2> DEFINE q == request[o]
  <2>1. EditCommit(o)
    BY <1>1, Changes
  <2>2. /\ Committing(o) /\ d = q.device /\ f \in Edited(q) /\ field'[d][f] = q.form[f]
        /\ EditEvent(q, f) \in request'[o].events /\ q.before[f] \in Values
    BY <1>1, <2>1, EditCommitted DEF EditSound
  <2> QED BY <2>2 DEF EditEvent
<1>2. ASSUME IInv, NEW o \in Requests, Handler(o), NEW d \in Devices, NEW f \in Fields,
             NEW r \in Requests, Committing(r), <<"changed", d, f>> \in request'[r].events
      PROVE  field'[d][f] # field[d][f] \/ f \in request[r].newFields
  <2> DEFINE q == request[r]
             e == <<"changed", d, f>>
  <2>1. e[1] = "changed" /\ e[2] = d /\ e[3] = f
    OBVIOUS
  <2>2. EditCommit(r)
    BY <1>2, <2>1, OnlyEditsSpeak
  <2>3. PICK g \in Edited(q) : e = EditEvent(q, g)
    BY <1>2, <2>2, EditCommitted
  <2>4. EditEvent(q, g)[1] = "changed" => EditEvent(q, g)[2] = q.device /\ EditEvent(q, g)[3] = g
    BY DEF EditEvent
  <2>5. d = q.device /\ f \in Edited(q)
    BY <2>1, <2>3, <2>4
  <2> QED BY <1>2, <2>2, <2>5, EditCommitted DEF EditSound, InFlight, Edited
<1>3. ASSUME IInv, NEW o \in Requests, Handler(o), NEW d \in Devices, NEW f \in Fields,
             NEW r \in Requests, Committing(r), NEW old \in Values, NEW new \in Values,
             <<"edited", d, f, old, new>> \in request'[r].events
      PROVE  field'[d][f] = new /\ (field[d][f] = old \/ f \in request[r].newFields)
  <2> DEFINE q == request[r]
             e == <<"edited", d, f, old, new>>
  <2>1. e[1] = "edited" /\ e[2] = d /\ e[3] = f /\ e[4] = old /\ e[5] = new
    OBVIOUS
  <2>2. EditCommit(r)
    BY <1>3, <2>1, OnlyEditsSpeak
  <2>3. PICK g \in Edited(q) : e = EditEvent(q, g)
    BY <1>3, <2>2, EditCommitted
  <2>4. EditEvent(q, g)[1] = "edited" =>
          /\ EditEvent(q, g)[2] = q.device /\ EditEvent(q, g)[3] = g
          /\ EditEvent(q, g)[4] = q.before[g] /\ EditEvent(q, g)[5] = q.form[g]
    BY DEF EditEvent
  <2>5. d = q.device /\ f \in Edited(q) /\ old = q.before[f] /\ new = q.form[f]
    BY <2>1, <2>3, <2>4
  <2> QED BY <1>3, <2>2, <2>5, EditCommitted DEF EditSound, InFlight
<1> DEFINE True == \A d \in Devices, f \in Fields :
      /\ field'[d][f] # field[d][f] => \E r \in Requests :
           /\ Committing(r)
           /\ \/ f \in Summarised /\ <<"changed", d, f>> \in request'[r].events
              \/ \E old \in Values :
                   <<"edited", d, f, old, field'[d][f]>> \in request'[r].events
      /\ \A r \in Requests : Committing(r) =>
           /\ <<"changed", d, f>> \in request'[r].events =>
                field'[d][f] # field[d][f] \/ f \in request[r].newFields
           /\ \A old, new \in Values : <<"edited", d, f, old, new>> \in request'[r].events =>
                /\ field'[d][f] = new
                /\ field[d][f] = old \/ f \in request[r].newFields
<1>4. IInv /\ [Next]_vars => [True]_vars
  BY <1>1, <1>2, <1>3 DEF Next
<1> QED BY <1>4, Inductive, PTL DEF Spec, EditLogIsTrue

\* AssignmentsLeaveATrace: an assignment that the request ending it could have
\* found is named by its event, device and credential.
THEOREM EndedAssignmentsAreNamed == Spec => AssignmentsLeaveATrace
<1>1. ASSUME IInv, NEW o \in Requests, Handler(o), NEW i \in Rows,
             assignment[i] # NoAssignment, assignment'[i] # assignment[i]
      PROVE  \E r \in Requests :
               /\ Committing(r)
               /\ \/ i \in request[r].newRows
                  \/ <<"unassigned", assignment[i].device, credential[assignment[i].cid]>>
                       \in request'[r].events
  <2> DEFINE q == request[o]
  <2>1. TablesOK /\ GrantSound(q)
    BY <1>1, Types DEF Sound
  <2>2. CASE DeleteCommit(o)
    <3> DEFINE events == {<<"unassigned", d, q.name>> : d \in q.holders}
                         \union {<<"deleted", q.name>>}
    <3>1. /\ q.kind = "delete" /\ q.phase = "ready" /\ Commits(o, {}, {}, events)
          /\ assignment[i].cid = q.cid
      BY <1>1, <2>2 DEF DeleteCommit
    <3>2. Committing(o) /\ request'[o].events = events
      BY <1>1, <3>1, Committed
    <3>3. i \notin q.newRows => assignment[i].device \in q.holders /\ credential[q.cid] = q.name
      BY <1>1, <2>1, <3>1 DEF GrantSound, Granting, InFlight
    <3> QED BY <3>1, <3>2, <3>3
  <2>3. CASE AssignCommit(o)
    <3>1. PICK j \in Rows :
            /\ IsNext(j, Assigned)
            /\ assignment' = [assignment EXCEPT ![j] = [device |-> q.device, cid |-> q.cid]]
      BY <2>3 DEF AssignCommit
    <3>2. j \notin Assigned
      BY <3>1 DEF IsNext, Rows
    <3> QED BY <1>1, <3>1, <3>2 DEF Assigned
  <2>4. CASE UnassignCommit(o)
    <3> DEFINE events == {<<"unassigned", q.device, q.name>>}
    <3>1. /\ q.kind = "unassign" /\ q.phase = "ready" /\ Commits(o, {}, {}, events)
          /\ assignment' = [assignment EXCEPT ![q.row] = NoAssignment]
      BY <2>4 DEF UnassignCommit
    <3>2. Committing(o) /\ request'[o].events = events
      BY <1>1, <3>1, Committed
    <3>3. i = q.row
      BY <1>1, <2>1, <3>1 DEF TablesOK
    <3>4. i \notin q.newRows => assignment[i] = [device |-> q.device, cid |-> q.cid]
                                /\ credential[q.cid] = q.name
      BY <1>1, <2>1, <3>1, <3>3 DEF GrantSound, Granting, InFlight
    <3>5. i \notin q.newRows => assignment[i].device = q.device /\ assignment[i].cid = q.cid
      BY <3>4
    <3> QED BY <3>2, <3>4, <3>5
  <2>5. assignment' # assignment
    BY <1>1
  <2> QED BY <1>1, <2>2, <2>3, <2>4, <2>5, Changes
<1>2. IInv /\ [Next]_vars => [\A i \in Rows :
        assignment[i] # NoAssignment /\ assignment'[i] # assignment[i] => \E r \in Requests :
          /\ Committing(r)
          /\ \/ i \in request[r].newRows
             \/ <<"unassigned", assignment[i].device, credential[assignment[i].cid]>>
                  \in request'[r].events]_vars
  BY <1>1 DEF Next, vars
<1> QED BY <1>2, Inductive, PTL DEF Spec, AssignmentsLeaveATrace
=============================================================================
