------------------------------ MODULE Executions ------------------------------
(***************************************************************************)
(* The audit trail of actions and diagnostics, and the action definitions  *)
(* it refers to.                                                           *)
(*                                                                         *)
(* A request copies its definition, runs the command, and only then adds   *)
(* its record: the row is committed minutes after the checks, against      *)
(* whatever the tables hold by then.  Operators meanwhile create, toggle   *)
(* and delete definitions, each from a copy of its own.  SQLite enforces   *)
(* the foreign keys, and hands out max(id) + 1: the id of the newest       *)
(* definition is used again once that definition is deleted.               *)
(*                                                                         *)
(* A name stands for one definition ever created.                          *)
(***************************************************************************)
EXTENDS Integers, FiniteSetsExt

CONSTANTS
  Requests,    \* executions asked for: actions and diagnostics
  Edits,       \* toggles and deletions asked for
  MaxId,       \* bound on the primary keys in use
  MaxNames,    \* bound on the definitions ever created
  MaxCrashes,  \* bound on restarts
  Faults       \* subset of AllFaults

AllFaults == {"escape",  \* an exception nobody catches: a failed spawn, a
                         \* credential that no longer decrypts
              "commit"}  \* a commit fails: locked beyond busy_timeout, disk full

Ids == 1..MaxId
NoId == 0
Names == 1..MaxNames
NoName == 0

ASSUME ExecutionsAssumption ==
  /\ MaxId \in Nat /\ MaxNames \in Nat /\ MaxCrashes \in Nat
  /\ Faults \subseteq AllFaults

VARIABLES
  definition,  \* the action_definition table
  created,     \* definitions ever created
  credential,  \* the credential of the device still exists
  request,     \* progress of each execution, with its copy of the definition
  ran,         \* executions whose command was started
  journal,     \* status of each execution's record, or what became of it
  link,        \* its action_definition_id
  old,         \* records that fell out of the retention window
  edit,        \* progress of each edit, with its copy of the definition
  log,         \* the last change event about each name
  crashes      \* restarts so far

vars == <<definition, created, credential, request, ran, journal, link, old, edit, log, crashes>>

Definition == [name : Names \union {NoName}, enabled : BOOLEAN]
NoDefinition == [name |-> NoName, enabled |-> FALSE]
Kinds == {"local", "ssh", "diagnostic"}
Statuses == {"success", "failed", "timeout", "rejected", "busy"}
Request == [phase : {"idle", "loaded", "running", "closing", "pruning", "done", "lost"},
            kind : Kinds, id : Ids \union {NoId}, enabled : BOOLEAN,
            status : Statuses \union {"none"},
            stamps : BOOLEAN]  \* its commit sets credential.last_used_at
Edit == [phase : {"idle", "loaded", "done"}, op : {"toggle", "delete"},
         id : Ids \union {NoId}, copy : Definition]

\* A request or an edit without locals: not begun, or over.
Blank(phase) == [phase |-> phase, kind |-> "diagnostic", id |-> NoId, enabled |-> FALSE,
                 status |-> "none", stamps |-> FALSE]
NoEdit(phase) == [phase |-> phase, op |-> "toggle", id |-> NoId, copy |-> NoDefinition]

Exists(i) == definition[i].name # NoName

TypeOK ==
  /\ definition \in [Ids -> Definition]
  /\ created \in 0..MaxNames
  /\ credential \in BOOLEAN
  /\ request \in [Requests -> Request]
  /\ ran \subseteq Requests
  /\ journal \in [Requests -> Statuses \union {"none", "pruned"}]
  /\ link \in [Requests -> Ids \union {NoId}]
  /\ old \subseteq Requests
  /\ edit \in [Edits -> Edit]
  /\ log \in [Names -> {"none", "enabled", "disabled", "deleted"}]
  /\ crashes \in 0..MaxCrashes

Init ==
  /\ definition = [i \in Ids |-> NoDefinition]
  /\ created = 0
  /\ credential = TRUE
  /\ request = [r \in Requests |-> Blank("idle")]
  /\ ran = {}
  /\ journal = [r \in Requests |-> "none"]
  /\ link = [r \in Requests |-> NoId]
  /\ old = {}
  /\ edit = [e \in Edits |-> NoEdit("idle")]
  /\ log = [n \in Names |-> "none"]
  /\ crashes = 0

definitionVars == <<definition, created, edit, log>>
journalVars == <<journal, link, old>>

-----------------------------------------------------------------------------
(* Executions. *)

Step(r, new) == request' = [request EXCEPT ![r] = new]

\* execute() is about to call _finish() with status s.
Decide(r, s, stamps) ==
  Step(r, [request[r] EXCEPT !.phase = "closing", !.status = s, !.stamps = stamps])

Load(r) ==
  /\ request[r].phase = "idle"
  /\ \/ Step(r, [request[r] EXCEPT !.phase = "loaded", !.kind = "diagnostic", !.enabled = TRUE])
     \/ \E i \in Ids, k \in {"local", "ssh"} :
          /\ Exists(i)
          /\ Step(r, [request[r] EXCEPT !.phase = "loaded", !.kind = k, !.id = i,
                                        !.enabled = definition[i].enabled])
  /\ UNCHANGED <<ran, credential, journalVars, definitionVars, crashes>>

\* Disabled, not applicable, out of range, invalid parameters, refused by the
\* engine; over SSH also without a credential or with an unverified host key.
Refuse(r) ==
  /\ request[r].phase = "loaded"
  /\ Decide(r, "rejected", FALSE)
  /\ UNCHANGED <<ran, credential, journalVars, definitionVars, crashes>>

\* The engine has no permit left.
Busy(r) ==
  /\ request[r].phase = "loaded" /\ request[r].enabled /\ request[r].kind # "ssh"
  /\ Decide(r, "busy", FALSE)
  /\ UNCHANGED <<ran, credential, journalVars, definitionVars, crashes>>

\* SshError: the host does not answer or does not accept the credential.
Unreachable(r) ==
  /\ request[r].phase = "loaded" /\ request[r].enabled /\ request[r].kind = "ssh"
  /\ Decide(r, "failed", FALSE)
  /\ UNCHANGED <<ran, credential, journalVars, definitionVars, crashes>>

Start(r) ==
  /\ request[r].phase = "loaded" /\ request[r].enabled
  /\ Step(r, [request[r] EXCEPT !.phase = "running"])
  /\ ran' = ran \union {r}
  /\ UNCHANGED <<credential, journalVars, definitionVars, crashes>>

Escape(r) ==
  /\ "escape" \in Faults
  /\ request[r].phase = "loaded" /\ request[r].enabled
  /\ Step(r, Blank("lost"))
  /\ UNCHANGED <<ran, credential, journalVars, definitionVars, crashes>>

\* Mutant: a timeout is taken for a refusal.
EndTimeoutRefused(r) ==
  /\ request[r].phase = "running"
  /\ \E s \in {"success", "failed", "rejected"} : Decide(r, s, request[r].kind = "ssh")
  /\ UNCHANGED <<ran, credential, journalVars, definitionVars, crashes>>

\* The command ends.  A result that came over SSH stamps the credential; an
\* SSH connection that breaks, or times out, counts as failed.
End(r) ==
  /\ request[r].phase = "running"
  /\ \/ \E s \in {"success", "failed"} : Decide(r, s, request[r].kind = "ssh")
     \/ request[r].kind = "ssh" /\ Decide(r, "failed", FALSE)
     \/ request[r].kind # "ssh" /\ Decide(r, "timeout", FALSE)
  /\ UNCHANGED <<ran, credential, journalVars, definitionVars, crashes>>

\* The database takes the commit: the definition the record refers to is
\* still there, and so is the credential it stamps.
Recordable(r) == /\ request[r].id # NoId => Exists(request[r].id)
                 /\ request[r].stamps => credential

\* _finish(): the record and its foreign key.
Record(r) ==
  /\ request[r].phase = "closing"
  /\ Recordable(r)
  /\ journal' = [journal EXCEPT ![r] = request[r].status]
  /\ link' = [link EXCEPT ![r] = request[r].id]
  /\ Step(r, Blank("pruning"))
  /\ UNCHANGED <<ran, credential, old, definitionVars, crashes>>

\* Its commit raises: the handler answers 500 and the record is gone.
RecordFails(r) ==
  /\ request[r].phase = "closing"
  /\ ~Recordable(r) \/ "commit" \in Faults
  /\ Step(r, Blank("lost"))
  /\ UNCHANGED <<ran, credential, journalVars, definitionVars, crashes>>

\* Mutant: the cut-off taken the wrong way round.
PruneRecent(r) ==
  /\ request[r].phase = "pruning"
  /\ journal' = [q \in Requests |-> IF q \in old \/ journal[q] = "none" THEN journal[q]
                                    ELSE "pruned"]
  /\ link' = [q \in Requests |-> IF q \in old THEN link[q] ELSE NoId]
  /\ Step(r, Blank("done"))
  /\ UNCHANGED <<ran, credential, old, definitionVars, crashes>>

\* prune(): every record older than the window.
Prune(r) ==
  /\ request[r].phase = "pruning"
  /\ journal' = [q \in Requests |-> IF q \in old THEN "pruned" ELSE journal[q]]
  /\ link' = [q \in Requests |-> IF q \in old THEN NoId ELSE link[q]]
  /\ Step(r, Blank("done"))
  /\ UNCHANGED <<ran, credential, old, definitionVars, crashes>>

PruneFails(r) ==
  /\ "commit" \in Faults
  /\ request[r].phase = "pruning"
  /\ Step(r, Blank("done"))
  /\ UNCHANGED <<ran, credential, journalVars, definitionVars, crashes>>

\* A day and more passes: no request is that slow.
Age(r) ==
  /\ request[r].phase \in {"done", "lost"}
  /\ r \notin old /\ journal[r] # "none"
  /\ old' = old \union {r}
  /\ UNCHANGED <<request, ran, credential, journal, link, definitionVars, crashes>>

-----------------------------------------------------------------------------
(* Definitions. *)

executionVars == <<request, ran, journal, link, old>>

\* SQLite's choice of a primary key.
NextId == 1 + Max({i \in Ids : Exists(i)} \union {0})

\* create_action(): stored as enabled.
Create ==
  /\ created < MaxNames /\ NextId \in Ids
  /\ created' = created + 1
  /\ definition' = [definition EXCEPT ![NextId] = [name |-> created + 1, enabled |-> TRUE]]
  /\ log' = [log EXCEPT ![created + 1] = "enabled"]
  /\ UNCHANGED <<credential, edit, executionVars, crashes>>

\* toggle_action() and delete_action() load the definition.
EditLoad(e) ==
  /\ edit[e].phase = "idle"
  /\ \E i \in Ids, op \in {"toggle", "delete"} :
       /\ Exists(i)
       /\ edit' = [edit EXCEPT ![e] = [phase |-> "loaded", op |-> op, id |-> i,
                                       copy |-> definition[i]]]
  /\ UNCHANGED <<definition, created, log, credential, executionVars, crashes>>

Closes(e) == edit' = [edit EXCEPT ![e] = NoEdit("done")]

\* Mutant: the database negates the flag, the event tells the copy's side.
ToggleInPlace(e) ==
  /\ edit[e].phase = "loaded" /\ edit[e].op = "toggle"
  /\ Exists(edit[e].id)
  /\ definition' = [definition EXCEPT ![edit[e].id].enabled = ~@]
  /\ log' = [log EXCEPT ![edit[e].copy.name] =
       IF edit[e].copy.enabled THEN "disabled" ELSE "enabled"]
  /\ Closes(e)
  /\ UNCHANGED <<created, credential, executionVars, crashes>>

\* The negated copy is written, and logged in the same transaction; the row
\* is found by its primary key alone.
ToggleCommit(e) ==
  /\ edit[e].phase = "loaded" /\ edit[e].op = "toggle"
  /\ Exists(edit[e].id)
  /\ definition' = [definition EXCEPT ![edit[e].id].enabled = ~edit[e].copy.enabled]
  /\ log' = [log EXCEPT ![edit[e].copy.name] =
       IF edit[e].copy.enabled THEN "disabled" ELSE "enabled"]
  /\ Closes(e)
  /\ UNCHANGED <<created, credential, executionVars, crashes>>

\* The update finds no row (StaleDataError), or its commit fails.
ToggleFails(e) ==
  /\ edit[e].phase = "loaded" /\ edit[e].op = "toggle"
  /\ ~Exists(edit[e].id) \/ "commit" \in Faults
  /\ Closes(e)
  /\ UNCHANGED <<definition, created, log, credential, executionVars, crashes>>

\* Mutant: the foreign key of the records is not cleared.
DeleteCommitDangling(e) ==
  /\ edit[e].phase = "loaded" /\ edit[e].op = "delete"
  /\ definition' = [definition EXCEPT ![edit[e].id] = NoDefinition]
  /\ log' = [log EXCEPT ![edit[e].copy.name] = "deleted"]
  /\ Closes(e)
  /\ UNCHANGED <<created, credential, executionVars, crashes>>

\* Mutant: ON DELETE CASCADE.
DeleteCommitCascading(e) ==
  /\ edit[e].phase = "loaded" /\ edit[e].op = "delete"
  /\ definition' = [definition EXCEPT ![edit[e].id] = NoDefinition]
  /\ journal' = [r \in Requests |-> IF link[r] = edit[e].id THEN "none" ELSE journal[r]]
  /\ link' = [r \in Requests |-> IF link[r] = edit[e].id THEN NoId ELSE link[r]]
  /\ log' = [log EXCEPT ![edit[e].copy.name] = "deleted"]
  /\ Closes(e)
  /\ UNCHANGED <<created, credential, request, ran, old, crashes>>

\* A row that is gone already is deleted again without complaint, and logged
\* again.  The records survive; ON DELETE SET NULL clears their reference.
DeleteCommit(e) ==
  /\ edit[e].phase = "loaded" /\ edit[e].op = "delete"
  /\ definition' = [definition EXCEPT ![edit[e].id] = NoDefinition]
  /\ link' = [r \in Requests |-> IF link[r] = edit[e].id THEN NoId ELSE link[r]]
  /\ log' = [log EXCEPT ![edit[e].copy.name] = "deleted"]
  /\ Closes(e)
  /\ UNCHANGED <<created, credential, request, ran, journal, old, crashes>>

DeleteFails(e) ==
  /\ "commit" \in Faults
  /\ edit[e].phase = "loaded" /\ edit[e].op = "delete"
  /\ Closes(e)
  /\ UNCHANGED <<definition, created, log, credential, executionVars, crashes>>

\* delete_credential().
DeleteCredential ==
  /\ credential
  /\ credential' = FALSE
  /\ UNCHANGED <<definitionVars, executionVars, crashes>>

\* The process dies and comes back: requests in flight are gone, and their
\* commands run on without them.
Crash ==
  /\ crashes < MaxCrashes
  /\ crashes' = crashes + 1
  /\ request' = [r \in Requests |->
       IF request[r].phase \in {"loaded", "running", "closing"}
       THEN Blank("lost")
       ELSE IF request[r].phase = "pruning" THEN Blank("done") ELSE request[r]]
  /\ edit' = [e \in Edits |-> IF edit[e].phase = "loaded" THEN NoEdit("done") ELSE edit[e]]
  /\ UNCHANGED <<definition, created, log, credential, ran, journalVars>>

-----------------------------------------------------------------------------
Next ==
  \/ \E r \in Requests :
       \/ Load(r) \/ Refuse(r) \/ Busy(r) \/ Unreachable(r) \/ Start(r) \/ Escape(r) \/ End(r)
       \/ Record(r) \/ RecordFails(r) \/ Prune(r) \/ PruneFails(r) \/ Age(r)
  \/ \E e \in Edits : EditLoad(e) \/ ToggleCommit(e) \/ ToggleFails(e)
                      \/ DeleteCommit(e) \/ DeleteFails(e)
  \/ Create \/ DeleteCredential \/ Crash

Spec == Init /\ [][Next]_vars

-----------------------------------------------------------------------------
(* Properties. *)

\* A record tells what was done: one of a success or a timeout is of a command that was
\* started, one of a refusal or a full engine is of a command that never was.
RecordTellsWhatRan == \A r \in Requests :
  /\ journal[r] \in {"success", "timeout"} => r \in ran
  /\ journal[r] \in {"rejected", "busy"} => r \notin ran

\* History only ends by retention: whatever is deleted, retried or crashes
\* later, a committed record keeps its status until it is older than the window.
HistorySurvives == [][\A r \in Requests :
  journal[r] \notin {"none", "pruned"} /\ journal'[r] # journal[r] =>
    r \in old /\ journal'[r] = "pruned"]_vars

\* No record refers to a definition that is not there, however deletions and
\* late records interleave.
LinksResolve == \A r \in Requests : link[r] # NoId => Exists(link[r])

\* The trail implements ExecutionJournal: through late records, deletions,
\* retention, failing commits and restarts, an execution is entered at most
\* once, truly, with a reference that resolves, and its entry ends by
\* retention alone.
Journal == INSTANCE ExecutionJournal WITH
  started <- ran, entry <- journal, defined <- {i \in Ids : Exists(i)}
JournalSpec == Journal!Spec

\* "The event and the change it describes land in the same transaction": once
\* a toggle is committed, the definition is what its event calls it, however
\* old the copy it was decided from.
EventsAreTrue == [][\A e \in Edits :
  LET name == edit[e].copy.name
      row  == definition'[edit[e].id]
  IN  /\ edit[e].phase = "loaded" /\ edit'[e].phase = "done"
      /\ <<definition, log>>' # <<definition, log>>
      /\ row.name = name
      => log'[name] = IF row.enabled THEN "enabled" ELSE "disabled"]_vars

\* "Deleting ... the action definition itself cannot erase the record that it
\* ran": no record is lost because its definition is gone.
DeletionErasesNoRecord == [][\A r \in Requests :
  /\ r \in ran /\ request[r].id # NoId
  /\ request[r].phase = "closing" /\ request'[r].phase = "lost"
  => Exists(request[r].id)]_vars
=============================================================================
