------------------------------- MODULE HostKeys -------------------------------
(***************************************************************************)
(* The SSH host keys trusted for one device: operators who review, accept  *)
(* and forget keys, actions that connect, and a device whose keys change.  *)
(*                                                                         *)
(* Nothing is trusted on sight.  An operator reviews a key the device      *)
(* presented; accepting it reads the device again and compares; an action  *)
(* copies one trusted key, and asyncssh refuses a host that cannot prove   *)
(* it holds that very key.  Each of these waits for the network or for the *)
(* database between its steps, while the others go on.                     *)
(***************************************************************************)
EXTENDS Integers

CONSTANTS
  Keys, NoKey,        \* host keys
  Types,              \* key types
  KeyType,            \* the type of each key
  Rows, NoRow,        \* primary keys of ssh_host_key; other devices use some
  Reviews,            \* an operator's reviews, each with its decision to trust
  Revocations,        \* an operator's requests to forget the device's keys
  Actions,            \* SSH executions
  MaxRebuilds         \* bound on how often the device changes its keys

ASSUME HostKeysAssumption ==
  /\ NoKey \notin Keys /\ NoRow \notin Rows
  /\ KeyType \in [Keys -> Types]
  /\ MaxRebuilds \in Nat

VARIABLES
  offers,    \* the keys the device can prove to hold
  rebuilds,  \* how often it changed them
  row,       \* the device's rows of ssh_host_key
  review,    \* progress of each review
  revoke,    \* progress of each revocation
  action     \* progress of each execution

vars == <<offers, rebuilds, row, review, revoke, action>>

HostKey == [type : Types, key : Keys]
NoHostKey == [type |-> NoKey, key |-> NoKey]
Review == [phase : {"idle", "reviewed", "probed", "found", "trusted", "refused"},
           key : Keys \union {NoKey},        \* the fingerprint the form carries
           presented : Keys \union {NoKey},  \* what the device answered since
           row : Rows \union {NoRow},        \* the row of its type, as loaded
           known : BOOLEAN]                  \* which held that very key
Revocation == [phase : {"idle", "loaded", "done"}, rows : SUBSET Rows]
Action == [phase : {"idle", "connecting", "sent", "refused"},
           trusted : HostKey \union {NoHostKey},
           peer : Keys \union {NoKey}]       \* the host its command went to

TypeOK ==
  /\ offers \in SUBSET Keys
  /\ rebuilds \in 0..MaxRebuilds
  /\ row \in [Rows -> HostKey \union {NoHostKey}]
  /\ review \in [Reviews -> Review]
  /\ revoke \in [Revocations -> Revocation]
  /\ action \in [Actions -> Action]

Init ==
  /\ offers \in SUBSET Keys
  /\ rebuilds = 0
  /\ row = [i \in Rows |-> NoHostKey]
  /\ review = [v \in Reviews |-> [phase |-> "idle", key |-> NoKey, presented |-> NoKey,
                                  row |-> NoRow, known |-> FALSE]]
  /\ revoke = [f \in Revocations |-> [phase |-> "idle", rows |-> {}]]
  /\ action = [a \in Actions |-> [phase |-> "idle", trusted |-> NoHostKey, peer |-> NoKey]]

Present == {i \in Rows : row[i] # NoHostKey}
OfType(t) == {i \in Present : row[i].type = t}

-----------------------------------------------------------------------------
(* The device is rebuilt, or something else answers at its address. *)

Rebuild ==
  /\ rebuilds < MaxRebuilds
  /\ rebuilds' = rebuilds + 1
  /\ offers' \in SUBSET Keys
  /\ UNCHANGED <<row, review, revoke, action>>

-----------------------------------------------------------------------------
(* Reviewing and trusting. *)

others == <<offers, rebuilds, revoke, action>>

\* Mutant: trust on first use.
ProbeStores(v) ==
  /\ review[v].phase = "idle"
  /\ \E k \in offers :
       /\ review' = [review EXCEPT ![v] = [@ EXCEPT !.phase = "reviewed", !.key = k]]
       /\ \/ OfType(KeyType[k]) # {} /\ UNCHANGED row
          \/ \E i \in Rows \ Present :
               /\ OfType(KeyType[k]) = {}
               /\ row' = [row EXCEPT ![i] = [type |-> KeyType[k], key |-> k]]
  /\ UNCHANGED others

\* probe_host_key(): the key is shown, and nothing is trusted.
Probe(v) ==
  /\ review[v].phase = "idle"
  /\ \E k \in offers :
       review' = [review EXCEPT ![v] = [@ EXCEPT !.phase = "reviewed", !.key = k]]
  /\ UNCHANGED <<row, others>>

\* Mutant: what the device presents now is taken, whatever was reviewed.
ProbeAgainTrusting(v) ==
  /\ review[v].phase = "reviewed"
  /\ \E k \in offers :
       review' = [review EXCEPT ![v] = [@ EXCEPT !.phase = "probed", !.presented = k]]
  /\ UNCHANGED <<row, others>>

\* trust_host_key() reads the device again: the fingerprint must be the
\* reviewed one.
ProbeAgain(v) ==
  /\ review[v].phase = "reviewed"
  /\ \E k \in offers :
       review' = [review EXCEPT ![v] =
         [@ EXCEPT !.phase = IF k = review[v].key THEN "probed" ELSE "refused", !.presented = k]]
  /\ UNCHANGED <<row, others>>

\* The device does not answer, or is out of the allowed ranges by now.
ProbeFails(v) ==
  /\ review[v].phase \in {"idle", "reviewed"}
  /\ review' = [review EXCEPT ![v] = [@ EXCEPT !.phase = "refused"]]
  /\ UNCHANGED <<row, others>>

\* trust() looks for a row of the key's type.
Find(v) ==
  LET k == review[v].presented
      same == OfType(KeyType[k])
  IN  /\ review[v].phase = "probed"
      /\ \/ /\ same = {}
            /\ review' = [review EXCEPT ![v] = [@ EXCEPT !.phase = "found"]]
         \/ \E i \in same :
              review' = [review EXCEPT ![v] =
                [@ EXCEPT !.phase = "found", !.row = i, !.known = row[i].key = k]]
      /\ UNCHANGED <<row, others>>

Trusted(v) == review' = [review EXCEPT ![v] = [@ EXCEPT !.phase = "trusted"]]

\* The key was trusted already: only the event is written.
TrustKnown(v) ==
  /\ review[v].phase = "found" /\ review[v].row # NoRow /\ review[v].known
  /\ Trusted(v)
  /\ UNCHANGED <<row, others>>

\* The row of its type gets the new key; it is found by its primary key, and
\* its type is not written.
TrustReplaces(v) ==
  LET i == review[v].row
  IN  /\ review[v].phase = "found" /\ i # NoRow /\ ~review[v].known
      /\ i \in Present
      /\ row' = [row EXCEPT ![i] = [type |-> row[i].type, key |-> review[v].presented]]
      /\ Trusted(v)
      /\ UNCHANGED others

\* A new row, if nobody else inserted one of the type.
TrustInserts(v) ==
  LET k == review[v].presented
  IN  /\ review[v].phase = "found" /\ review[v].row = NoRow
      /\ OfType(KeyType[k]) = {}
      /\ \E i \in Rows \ Present : row' = [row EXCEPT ![i] = [type |-> KeyType[k], key |-> k]]
      /\ Trusted(v)
      /\ UNCHANGED others

\* The commit raises: the row to update is gone (StaleDataError), one of the
\* type exists by now (IntegrityError), or the database stays locked.
TrustFails(v) ==
  /\ review[v].phase = "found"
  /\ review' = [review EXCEPT ![v] = [@ EXCEPT !.phase = "refused"]]
  /\ UNCHANGED <<row, others>>

-----------------------------------------------------------------------------
(* Forgetting. *)

\* host_keys_for(); nothing is committed where nothing is trusted.
RevokeLoad(f) ==
  /\ revoke[f].phase = "idle"
  /\ revoke' = [revoke EXCEPT ![f] =
       [phase |-> IF Present = {} THEN "done" ELSE "loaded", rows |-> Present]]
  /\ UNCHANGED <<offers, rebuilds, row, review, action>>

\* Mutant: DELETE ... WHERE device_id, whatever was loaded.
RevokeCommitAll(f) ==
  /\ revoke[f].phase = "loaded"
  /\ row' = [i \in Rows |-> NoHostKey]
  /\ revoke' = [revoke EXCEPT ![f].phase = "done"]
  /\ UNCHANGED <<offers, rebuilds, review, action>>

\* The rows that were loaded are deleted by primary key, whatever they hold.
RevokeCommit(f) ==
  /\ revoke[f].phase = "loaded"
  /\ row' = [i \in Rows |-> IF i \in revoke[f].rows THEN NoHostKey ELSE row[i]]
  /\ revoke' = [revoke EXCEPT ![f].phase = "done"]
  /\ UNCHANGED <<offers, rebuilds, review, action>>

-----------------------------------------------------------------------------
(* Actions over SSH. *)

Becomes(a, new) == action' = [action EXCEPT ![a] = new]

\* trusted_key_for(): one of the rows, whichever the query returns first;
\* without one the action is refused (UnknownHostKey).
Load(a) ==
  /\ action[a].phase = "idle"
  /\ \/ \E i \in Present : Becomes(a, [phase |-> "connecting", trusted |-> row[i], peer |-> NoKey])
     \/ Present = {} /\ Becomes(a, [phase |-> "refused", trusted |-> NoHostKey, peer |-> NoKey])
  /\ UNCHANGED <<offers, rebuilds, row, review, revoke>>

\* Mutant: known_hosts=None, as in the probe.
ConnectUnverified(a) ==
  /\ action[a].phase = "connecting"
  /\ \E k \in offers : Becomes(a, [action[a] EXCEPT !.phase = "sent", !.peer = k])
  /\ UNCHANGED <<offers, rebuilds, row, review, revoke>>

\* The device proves it holds the trusted key, and only then is offered the
\* credential and the command.
Connect(a) ==
  LET k == action[a].trusted.key
  IN  /\ action[a].phase = "connecting"
      /\ action[a].trusted.type = KeyType[k] /\ k \in offers
      /\ Becomes(a, [action[a] EXCEPT !.phase = "sent", !.peer = k])
      /\ UNCHANGED <<offers, rebuilds, row, review, revoke>>

\* HostKeyChanged, an unreadable key, or an error of the connection.
ConnectFails(a) ==
  /\ action[a].phase = "connecting"
  /\ Becomes(a, [action[a] EXCEPT !.phase = "refused"])
  /\ UNCHANGED <<offers, rebuilds, row, review, revoke>>

-----------------------------------------------------------------------------
Next ==
  \/ Rebuild
  \/ \E v \in Reviews :
       \/ Probe(v) \/ ProbeAgain(v) \/ ProbeFails(v) \/ Find(v)
       \/ TrustKnown(v) \/ TrustReplaces(v) \/ TrustInserts(v) \/ TrustFails(v)
  \/ \E f \in Revocations : RevokeLoad(f) \/ RevokeCommit(f)
  \/ \E a \in Actions : Load(a) \/ Connect(a) \/ ConnectFails(a)

Spec == Init /\ [][Next]_vars

-----------------------------------------------------------------------------
(* Properties. *)

Accepted == {review[v].key : v \in {w \in Reviews : review[w].phase = "trusted"}}

\* "A human looked at a fingerprint and said yes": every key on record is one
\* an operator reviewed, accepted and had confirmed by the device.
KeysWereReviewed == \A i \in Present : row[i].key \in Accepted

\* A command, and the credential before it, reaches only a host that proved
\* to hold an accepted key, however the device and its records change
\* between the checks and the connection.
CommandsReachReviewedHosts == \A a \in Actions :
  action[a].phase = "sent" => action[a].peer \in Accepted

\* Trust implements TrustLedger: whatever races what, a key comes on record
\* only in the step that accepts it, which costs at most one other its place,
\* and forgetting adds none.
Ledger == INSTANCE TrustLedger WITH
  accepted <- Accepted,
  recorded <- {row[i].key : i \in Present},
  reached <- {action[a].peer : a \in {b \in Actions : action[b].phase = "sent"}}
LedgerSpec == Ledger!Spec

\* A key leaves the record only by a revocation that saw its row, or when a
\* key of its type is accepted in its place.
KeysStayTrusted == [][\A i \in Present : row'[i] # row[i] =>
  \/ \E f \in Revocations : i \in revoke[f].rows /\ revoke[f].phase = "loaded"
                            /\ revoke'[f].phase = "done"
  \/ \E v \in Reviews : review[v].phase = "found" /\ review'[v].phase = "trusted"
                        /\ row'[i].key = review[v].key]_vars
=============================================================================
