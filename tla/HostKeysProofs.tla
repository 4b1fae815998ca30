---------------------------- MODULE HostKeysProofs ----------------------------
(***************************************************************************)
(* Theorems about HostKeys, for every set of keys, types, rows and         *)
(* operators: whatever interleaves, what is on record was reviewed, and a  *)
(* command reaches nobody else.                                            *)
(*                                                                         *)
(* Neither property is inductive: between the second reading of the device *)
(* and the commit, a review must remember that both readings agreed, and   *)
(* between its query and the connection an action must remember that the   *)
(* key it copied had been accepted, for by then the row may be gone.       *)
(***************************************************************************)
EXTENDS HostKeys, TLAPS

\* A review past the comparison carries the key the device confirmed.
ReviewInv == \A v \in Reviews :
  review[v].phase \in {"probed", "found", "trusted"} =>
    review[v].presented = review[v].key /\ review[v].key \in Keys

\* A connection is checked against a key that was accepted.
ActionInv == \A a \in Actions :
  action[a].phase \in {"connecting", "sent"} =>
    action[a].trusted \in HostKey /\ action[a].trusted.key \in Accepted

IInv == TypeOK /\ KeysWereReviewed /\ CommandsReachReviewedHosts /\ ReviewInv /\ ActionInv

\* The steps, by whose they are.
ReviewSteps(v) == Probe(v) \/ ProbeAgain(v) \/ ProbeFails(v) \/ Find(v)
                  \/ TrustKnown(v) \/ TrustReplaces(v) \/ TrustInserts(v) \/ TrustFails(v)
RevokeSteps(f) == RevokeLoad(f) \/ RevokeCommit(f)
ActionSteps(a) == Load(a) \/ Connect(a) \/ ConnectFails(a)

-----------------------------------------------------------------------------
(* What each kind of step does. *)

\* The null host key is not one of the host keys a row may hold.
LEMMA NullIsNoKey == NoHostKey \notin HostKey
BY HostKeysAssumption DEF NoHostKey, HostKey

LEMMA InitIInv == Init => IInv
BY HostKeysAssumption
DEF Init, IInv, TypeOK, KeysWereReviewed, CommandsReachReviewedHosts, ReviewInv, ActionInv,
    Review, Revocation, Action, NoHostKey, HostKey, Present

\* A review changes itself; only its acceptance changes the table, and
\* only one row of it, to the accepted key.
LEMMA ReviewChanges ==
  ASSUME TypeOK, ReviewInv, NEW v \in Reviews, ReviewSteps(v)
  PROVE  /\ UNCHANGED <<offers, rebuilds, revoke, action>>
         /\ \E new \in Review :
              /\ review' = [review EXCEPT ![v] = new]
              /\ review[v].phase # "trusted"
              /\ new.phase \in {"probed", "found", "trusted"} =>
                   new.presented = new.key /\ new.key \in Keys
              /\ \/ row' = row
                 \/ \E i \in Rows, t \in Types :
                      /\ row' = [row EXCEPT ![i] = [type |-> t, key |-> new.key]]
                      /\ review[v].phase = "found" /\ new.phase = "trusted"
                      /\ new.key = review[v].key
<1> USE HostKeysAssumption
<1>1. UNCHANGED <<offers, rebuilds, revoke, action>>
  BY DEF ReviewSteps, others, Probe, ProbeAgain, ProbeFails, Find, TrustKnown, TrustReplaces,
         TrustInserts, TrustFails
<1>2. /\ review[v] \in Review
      /\ review \in [Reviews -> Review]
      /\ offers \subseteq Keys
      /\ row \in [Rows -> HostKey \union {NoHostKey}]
  BY DEF TypeOK
<1>3. review[v].phase \in {"probed", "found", "trusted"} =>
        review[v].presented = review[v].key /\ review[v].key \in Keys
  BY DEF ReviewInv
<1>4. CASE Probe(v)
  <2>1. PICK k \in offers :
          review' = [review EXCEPT ![v] = [@ EXCEPT !.phase = "reviewed", !.key = k]]
    BY <1>4 DEF Probe
  <2> DEFINE new == [review[v] EXCEPT !.phase = "reviewed", !.key = k]
  <2>2. new \in Review /\ new.phase = "reviewed" /\ review' = [review EXCEPT ![v] = new]
    BY <1>2, <2>1 DEF Review
  <2>3. review[v].phase # "trusted" /\ row' = row
    BY <1>4 DEF Probe
  <2> HIDE DEF new
  <2> QED BY <1>1, <2>2, <2>3
<1>5. CASE ProbeAgain(v)
  <2>1. PICK k \in offers :
          review' = [review EXCEPT ![v] =
            [@ EXCEPT !.phase = IF k = review[v].key THEN "probed" ELSE "refused", !.presented = k]]
    BY <1>5 DEF ProbeAgain
  <2> DEFINE new == [review[v] EXCEPT !.phase = IF k = review[v].key THEN "probed" ELSE "refused",
                                      !.presented = k]
  <2>2. /\ new \in Review /\ review' = [review EXCEPT ![v] = new]
        /\ new.phase \in {"probed", "found", "trusted"} =>
             new.presented = new.key /\ new.key \in Keys
    BY <1>2, <2>1 DEF Review
  <2>3. review[v].phase # "trusted" /\ row' = row
    BY <1>5 DEF ProbeAgain
  <2> HIDE DEF new
  <2> QED BY <1>1, <2>2, <2>3
<1>6. CASE ProbeFails(v) \/ TrustFails(v)
  <2> DEFINE new == [review[v] EXCEPT !.phase = "refused"]
  <2>1. /\ new \in Review /\ new.phase = "refused" /\ review' = [review EXCEPT ![v] = new]
        /\ review[v].phase # "trusted" /\ row' = row
    BY <1>2, <1>6 DEF ProbeFails, TrustFails, Review
  <2> HIDE DEF new
  <2> QED BY <1>1, <2>1
<1>7. CASE Find(v)
  <2>1. row' = row /\ review[v].phase = "probed"
    BY <1>7 DEF Find
  <2>2. PICK new : /\ review' = [review EXCEPT ![v] = new]
                   /\ \/ new = [review[v] EXCEPT !.phase = "found"]
                      \/ \E i \in Rows, b \in BOOLEAN :
                           new = [review[v] EXCEPT !.phase = "found", !.row = i, !.known = b]
    BY <1>7 DEF Find, OfType, Present
  <2>3. new \in Review /\ new.presented = review[v].presented /\ new.key = review[v].key
    BY <1>2, <2>2 DEF Review
  <2> QED BY <1>1, <1>3, <2>1, <2>2, <2>3
<1>8. CASE TrustKnown(v) \/ TrustReplaces(v) \/ TrustInserts(v)
  <2> DEFINE new == [review[v] EXCEPT !.phase = "trusted"]
  <2>1. /\ new \in Review /\ new.phase = "trusted" /\ review' = [review EXCEPT ![v] = new]
        /\ new.key = review[v].key /\ new.presented = review[v].presented
        /\ review[v].phase = "found"
    BY <1>2, <1>8 DEF TrustKnown, TrustReplaces, TrustInserts, Trusted, Review
  <2>2. new.presented = new.key /\ new.key \in Keys
    BY <1>3, <2>1
  <2>3. \/ row' = row
        \/ \E i \in Rows, t \in Types : row' = [row EXCEPT ![i] = [type |-> t, key |-> new.key]]
    <3>1. CASE TrustKnown(v)
      BY <3>1 DEF TrustKnown
    <3>2. CASE TrustReplaces(v)
      <4>1. row[review[v].row] \in HostKey /\ review[v].row \in Rows
        BY <3>2, <1>2 DEF TrustReplaces, Present
      <4>2. row[review[v].row].type \in Types
        BY <4>1 DEF HostKey
      <4> QED BY <3>2, <4>1, <4>2, <2>1, <2>2 DEF TrustReplaces
    <3>3. CASE TrustInserts(v)
      BY <3>3, <2>1, <2>2 DEF TrustInserts
    <3> QED BY <1>8, <3>1, <3>2, <3>3
  <2> HIDE DEF new
  <2> QED BY <1>1, <2>1, <2>2, <2>3
<1> QED BY <1>4, <1>5, <1>6, <1>7, <1>8 DEF ReviewSteps

\* A revocation changes itself and empties rows it had loaded.
LEMMA RevokeChanges ==
  ASSUME TypeOK, NEW f \in Revocations, RevokeSteps(f)
  PROVE  /\ UNCHANGED <<offers, rebuilds, review, action>>
         /\ revoke' \in [Revocations -> Revocation]
         /\ row' \in [Rows -> HostKey \union {NoHostKey}]
         /\ \A i \in Rows : row'[i] # row[i] =>
              /\ row'[i] = NoHostKey
              /\ i \in revoke[f].rows /\ revoke[f].phase = "loaded" /\ revoke'[f].phase = "done"
<1>1. CASE RevokeLoad(f)
  BY <1>1 DEF RevokeLoad, TypeOK, Revocation, Present
<1>2. CASE RevokeCommit(f)
  <2>1. revoke[f] \in Revocation
    BY DEF TypeOK
  <2>2. revoke' \in [Revocations -> Revocation] /\ revoke'[f].phase = "done"
    BY <1>2, <2>1 DEF RevokeCommit, TypeOK, Revocation
  <2>3. row' \in [Rows -> HostKey \union {NoHostKey}]
    BY <1>2 DEF RevokeCommit, TypeOK
  <2> QED BY <1>2, <2>2, <2>3 DEF RevokeCommit
<1> QED BY <1>1, <1>2 DEF RevokeSteps

\* An action changes itself, and takes its key from the table.
LEMMA ActionChanges ==
  ASSUME TypeOK, KeysWereReviewed, ActionInv, NEW a \in Actions, ActionSteps(a)
  PROVE  /\ UNCHANGED <<offers, rebuilds, row, review, revoke>>
         /\ \E new \in Action :
              /\ action' = [action EXCEPT ![a] = new]
              /\ new.phase \in {"connecting", "sent"} =>
                   new.trusted \in HostKey /\ new.trusted.key \in Accepted
              /\ new.phase = "sent" => new.peer \in Accepted
<1>1. action[a] \in Action /\ row \in [Rows -> HostKey \union {NoHostKey}]
  BY DEF TypeOK
<1>2. CASE Load(a)
  <2>1. CASE \E i \in Present :
               Becomes(a, [phase |-> "connecting", trusted |-> row[i], peer |-> NoKey])
    <3>1. PICK i \in Present :
            Becomes(a, [phase |-> "connecting", trusted |-> row[i], peer |-> NoKey])
      BY <2>1
    <3>2. row[i] \in HostKey /\ row[i].key \in Accepted
      BY <1>1 DEF Present, KeysWereReviewed
    <3>3. [phase |-> "connecting", trusted |-> row[i], peer |-> NoKey] \in Action
      BY <3>2 DEF Action
    <3> QED BY <1>2, <3>1, <3>2, <3>3 DEF Load, Becomes
  <2>2. CASE Becomes(a, [phase |-> "refused", trusted |-> NoHostKey, peer |-> NoKey])
    <3>1. [phase |-> "refused", trusted |-> NoHostKey, peer |-> NoKey] \in Action
      BY DEF Action
    <3> QED BY <1>2, <2>2, <3>1 DEF Load, Becomes
  <2> QED BY <1>2, <2>1, <2>2 DEF Load
<1>3. CASE Connect(a)
  <2> DEFINE k == action[a].trusted.key
             new == [action[a] EXCEPT !.phase = "sent", !.peer = k]
  <2>1. action[a].trusted \in HostKey /\ k \in Accepted
    BY <1>3 DEF Connect, ActionInv
  <2>2. /\ new \in Action /\ new.trusted = action[a].trusted /\ new.peer = k
        /\ action' = [action EXCEPT ![a] = new]
    BY <1>1, <1>3, <2>1 DEF Connect, Becomes, Action, HostKey
  <2>3. UNCHANGED <<offers, rebuilds, row, review, revoke>>
    BY <1>3 DEF Connect
  <2> HIDE DEF new
  <2> QED BY <2>1, <2>2, <2>3
<1>4. CASE ConnectFails(a)
  <2> DEFINE new == [action[a] EXCEPT !.phase = "refused"]
  <2>1. new \in Action /\ new.phase = "refused" /\ action' = [action EXCEPT ![a] = new]
    BY <1>1, <1>4 DEF ConnectFails, Becomes, Action
  <2>2. UNCHANGED <<offers, rebuilds, row, review, revoke>>
    BY <1>4 DEF ConnectFails
  <2> HIDE DEF new
  <2> QED BY <2>1, <2>2
<1> QED BY <1>2, <1>3, <1>4 DEF ActionSteps

-----------------------------------------------------------------------------
(* The invariant. *)

\* What was accepted stays accepted.
LEMMA AcceptedGrows ==
  ASSUME TypeOK, NEW v \in Reviews, NEW new, review[v].phase # "trusted",
         review' = [review EXCEPT ![v] = new]
  PROVE  /\ Accepted \subseteq Accepted'
         /\ new.phase = "trusted" => new.key \in Accepted'
<1>1. \A w \in Reviews : review'[w] = IF w = v THEN new ELSE review[w]
  BY DEF TypeOK
<1> QED BY <1>1 DEF Accepted

LEMMA ReviewStep ==
  ASSUME IInv, NEW v \in Reviews, ReviewSteps(v)
  PROVE  IInv'
<1>0. TypeOK /\ ReviewInv
  BY DEF IInv
<1>1. UNCHANGED <<offers, rebuilds, revoke, action>>
  BY <1>0, ReviewChanges
<1>2. PICK new \in Review :
        /\ review' = [review EXCEPT ![v] = new]
        /\ review[v].phase # "trusted"
        /\ new.phase \in {"probed", "found", "trusted"} =>
             new.presented = new.key /\ new.key \in Keys
        /\ \/ row' = row
           \/ \E i \in Rows, t \in Types :
                /\ row' = [row EXCEPT ![i] = [type |-> t, key |-> new.key]]
                /\ review[v].phase = "found" /\ new.phase = "trusted"
                /\ new.key = review[v].key
  BY <1>0, ReviewChanges
<1>3. Accepted \subseteq Accepted' /\ (new.phase = "trusted" => new.key \in Accepted')
  BY <1>0, <1>2, AcceptedGrows
<1>4. /\ row' \in [Rows -> HostKey \union {NoHostKey}]
      /\ \A i \in Rows : row'[i] # row[i] => row'[i].key = new.key /\ new.phase = "trusted"
  <2>1. CASE row' = row
    BY <2>1, <1>0 DEF TypeOK
  <2>2. CASE row' # row
    <3>1. PICK i \in Rows, t \in Types :
            /\ row' = [row EXCEPT ![i] = [type |-> t, key |-> new.key]]
            /\ new.phase = "trusted"
      BY <1>2, <2>2
    <3>2. [type |-> t, key |-> new.key] \in HostKey
      BY <1>2, <3>1 DEF HostKey
    <3>3. \A j \in Rows : row'[j] = IF j = i THEN [type |-> t, key |-> new.key] ELSE row[j]
      BY <1>0, <3>1 DEF TypeOK
    <3> QED BY <1>0, <3>1, <3>2, <3>3 DEF TypeOK
  <2> QED BY <2>1, <2>2
<1>5. TypeOK'
  BY <1>0, <1>1, <1>2, <1>4 DEF TypeOK
<1>6. ReviewInv'
  BY <1>0, <1>2 DEF ReviewInv, TypeOK
<1>7. KeysWereReviewed'
  BY <1>0, <1>3, <1>4 DEF IInv, KeysWereReviewed, Present, TypeOK
<1>8. CommandsReachReviewedHosts' /\ ActionInv'
  BY <1>1, <1>3 DEF IInv, CommandsReachReviewedHosts, ActionInv
<1> QED BY <1>5, <1>6, <1>7, <1>8 DEF IInv

LEMMA RevokeStep ==
  ASSUME IInv, NEW f \in Revocations, RevokeSteps(f)
  PROVE  IInv'
<1>0. TypeOK
  BY DEF IInv
<1>1. /\ UNCHANGED <<offers, rebuilds, review, action>>
      /\ revoke' \in [Revocations -> Revocation]
      /\ row' \in [Rows -> HostKey \union {NoHostKey}]
      /\ \A i \in Rows : row'[i] # row[i] => row'[i] = NoHostKey
  BY <1>0, RevokeChanges
<1>2. TypeOK'
  BY <1>0, <1>1 DEF TypeOK
<1>3. Accepted' = Accepted
  BY <1>1 DEF Accepted
<1> QED BY <1>1, <1>2, <1>3
  DEF IInv, KeysWereReviewed, CommandsReachReviewedHosts, ReviewInv, ActionInv, Present

LEMMA ActionStep ==
  ASSUME IInv, NEW a \in Actions, ActionSteps(a)
  PROVE  IInv'
<1>0. TypeOK /\ KeysWereReviewed /\ ActionInv
  BY DEF IInv
<1>1. UNCHANGED <<offers, rebuilds, row, review, revoke>>
  BY <1>0, ActionChanges
<1>2. PICK new \in Action :
        /\ action' = [action EXCEPT ![a] = new]
        /\ new.phase \in {"connecting", "sent"} =>
             new.trusted \in HostKey /\ new.trusted.key \in Accepted
        /\ new.phase = "sent" => new.peer \in Accepted
  BY <1>0, ActionChanges
<1>3. Accepted' = Accepted
  BY <1>1 DEF Accepted
<1>4. TypeOK'
  BY <1>0, <1>1, <1>2 DEF TypeOK
<1>5. CommandsReachReviewedHosts' /\ ActionInv'
  BY <1>0, <1>2, <1>3 DEF IInv, CommandsReachReviewedHosts, ActionInv, TypeOK
<1>6. KeysWereReviewed' /\ ReviewInv'
  BY <1>1, <1>3 DEF IInv, KeysWereReviewed, ReviewInv, Present
<1> QED BY <1>4, <1>5, <1>6 DEF IInv

LEMMA StepIInv == IInv /\ [Next]_vars => IInv'
<1> SUFFICES ASSUME IInv, [Next]_vars PROVE IInv'
  OBVIOUS
<1>1. CASE Rebuild
  <2>1. UNCHANGED <<row, review, revoke, action>>
    BY <1>1 DEF Rebuild
  <2>2. TypeOK'
    BY <1>1, HostKeysAssumption DEF IInv, TypeOK, Rebuild
  <2>3. Accepted' = Accepted
    BY <2>1 DEF Accepted
  <2> QED BY <2>1, <2>2, <2>3
    DEF IInv, KeysWereReviewed, CommandsReachReviewedHosts, ReviewInv, ActionInv, Present
<1>2. ASSUME NEW v \in Reviews, ReviewSteps(v) PROVE IInv'
  BY <1>2, ReviewStep
<1>3. ASSUME NEW f \in Revocations, RevokeSteps(f) PROVE IInv'
  BY <1>3, RevokeStep
<1>4. ASSUME NEW a \in Actions, ActionSteps(a) PROVE IInv'
  BY <1>4, ActionStep
<1>5. CASE UNCHANGED vars
  BY <1>5 DEF vars, IInv, TypeOK, KeysWereReviewed, CommandsReachReviewedHosts, ReviewInv,
              ActionInv, Accepted, Present
<1> QED BY <1>1, <1>2, <1>3, <1>4, <1>5 DEF Next, ReviewSteps, RevokeSteps, ActionSteps

THEOREM HostKeysInvariant == Spec => []IInv
<1>1. Init => IInv
  BY InitIInv
<1>2. IInv /\ [Next]_vars => IInv'
  BY StepIInv
<1> QED BY <1>1, <1>2, PTL DEF Spec

-----------------------------------------------------------------------------
(* What follows. *)

\* Every variable keeps its type: the table never holds half a key.
THEOREM TypeCorrect == Spec => []TypeOK
<1>1. IInv => TypeOK
  BY DEF IInv
<1> QED BY <1>1, HostKeysInvariant, PTL

\* trust_host_key() stores nothing that no operator reviewed.
THEOREM TrustIsReviewed == Spec => []KeysWereReviewed
<1>1. IInv => KeysWereReviewed
  BY DEF IInv
<1> QED BY <1>1, HostKeysInvariant, PTL

\* run_command() sends to no host but one that holds an accepted key.
THEOREM CommandsAreSafe == Spec => []CommandsReachReviewedHosts
<1>1. IInv => CommandsReachReviewedHosts
  BY DEF IInv
<1> QED BY <1>1, HostKeysInvariant, PTL

\* A key on record goes only by a revocation or by a later acceptance.
THEOREM TrustIsKept == Spec => KeysStayTrusted
<1> DEFINE Leaves(i) ==
      \/ \E f \in Revocations : i \in revoke[f].rows /\ revoke[f].phase = "loaded"
                                /\ revoke'[f].phase = "done"
      \/ \E v \in Reviews : review[v].phase = "found" /\ review'[v].phase = "trusted"
                            /\ row'[i].key = review[v].key
<1>1. IInv /\ [Next]_vars => [\A i \in Present : row'[i] # row[i] => Leaves(i)]_vars
  <2> SUFFICES ASSUME IInv, [Next]_vars, NEW i \in Present, row'[i] # row[i]
               PROVE  Leaves(i)
    OBVIOUS
  <2>0. TypeOK /\ ReviewInv /\ i \in Rows
    BY DEF IInv, Present
  <2>1. ASSUME NEW v \in Reviews, ReviewSteps(v) PROVE Leaves(i)
    <3>1. PICK new \in Review :
            /\ review' = [review EXCEPT ![v] = new]
            /\ \/ row' = row
               \/ \E j \in Rows, t \in Types :
                    /\ row' = [row EXCEPT ![j] = [type |-> t, key |-> new.key]]
                    /\ review[v].phase = "found" /\ new.phase = "trusted"
                    /\ new.key = review[v].key
      BY <2>0, <2>1, ReviewChanges
    <3>2. PICK j \in Rows, t \in Types :
            /\ row' = [row EXCEPT ![j] = [type |-> t, key |-> new.key]]
            /\ review[v].phase = "found" /\ new.phase = "trusted" /\ new.key = review[v].key
      BY <3>1
    <3>3. row'[i] = [type |-> t, key |-> new.key] /\ review'[v] = new
      BY <2>0, <3>1, <3>2 DEF TypeOK
    <3> QED BY <3>2, <3>3
  <2>2. ASSUME NEW f \in Revocations, RevokeSteps(f) PROVE Leaves(i)
    BY <2>0, <2>2, RevokeChanges
  <2>3. ASSUME NEW a \in Actions, ActionSteps(a) PROVE FALSE
    BY <2>3 DEF ActionSteps, Load, Connect, ConnectFails
  <2>4. ~Rebuild /\ ~UNCHANGED vars
    BY DEF Rebuild, vars
  <2> QED BY <2>1, <2>2, <2>3, <2>4 DEF Next, ReviewSteps, RevokeSteps, ActionSteps
<1> QED BY <1>1, HostKeysInvariant, PTL DEF KeysStayTrusted, Spec

-----------------------------------------------------------------------------
(* Trust implements TrustLedger. *)

OnRecord == {row[i].key : i \in Present}
Reached == {action[a].peer : a \in {b \in Actions : action[b].phase = "sent"}}

LEMMA LedgerInit == Init => Ledger!Init
BY DEF Init, Ledger!Init, Accepted, Present

\* A step that leaves the table alone, and whoever accepted or was reached.
LEMMA LedgerStutters ==
  ASSUME UNCHANGED <<row, Accepted, Reached>>
  PROVE  UNCHANGED Ledger!vars
BY DEF Ledger!vars, Present, Reached

\* One row of the table is written: its old key goes, unless another row
\* holds it, and the new one comes.
LEMMA RowWritten ==
  ASSUME TypeOK, NEW i \in Rows, NEW t \in Types, NEW k \in Keys,
         row' = [row EXCEPT ![i] = [type |-> t, key |-> k]]
  PROVE  \E out \in Keys : OnRecord' = (OnRecord \ {out}) \union {k}
<1>1. /\ row'[i].key = k /\ row'[i] # NoHostKey
      /\ \A j \in Rows \ {i} : row'[j] = row[j]
  <2>1. row'[i] = [type |-> t, key |-> k] /\ row'[i] \in HostKey
    BY DEF TypeOK, HostKey
  <2> QED BY <2>1, NullIsNoKey DEF TypeOK
<1>2. Present' = Present \union {i}
  BY <1>1 DEF Present
<1>3. \A x : x \in OnRecord' <=> x = k \/ \E j \in Present \ {i} : x = row[j].key
  BY <1>1, <1>2 DEF OnRecord, Present
<1>4. CASE i \in Present /\ \A j \in Present \ {i} : row[j].key # row[i].key
  <2>1. row[i].key \in Keys
    BY <1>4 DEF TypeOK, Present, HostKey
  <2>2. OnRecord' = (OnRecord \ {row[i].key}) \union {k}
    BY <1>3, <1>4 DEF OnRecord
  <2> QED BY <2>1, <2>2
<1>5. CASE i \notin Present \/ \E j \in Present \ {i} : row[j].key = row[i].key
  <2>1. OnRecord' = (OnRecord \ {k}) \union {k}
    BY <1>3, <1>5 DEF OnRecord
  <2> QED BY <2>1
<1> QED BY <1>4, <1>5

\* A review is one acceptance, if it ends in one.
LEMMA LedgerReview ==
  ASSUME IInv, NEW v \in Reviews, ReviewSteps(v)
  PROVE  [Ledger!Next]_(Ledger!vars)
<1>0. TypeOK /\ ReviewInv
  BY DEF IInv
<1>1. PICK new \in Review :
        /\ review' = [review EXCEPT ![v] = new]
        /\ review[v].phase # "trusted"
        /\ new.phase \in {"probed", "found", "trusted"} =>
             new.presented = new.key /\ new.key \in Keys
        /\ \/ row' = row
           \/ \E i \in Rows, t \in Types :
                /\ row' = [row EXCEPT ![i] = [type |-> t, key |-> new.key]]
                /\ review[v].phase = "found" /\ new.phase = "trusted"
                /\ new.key = review[v].key
  BY <1>0, ReviewChanges
<1>2. Reached' = Reached
  BY <1>0, ReviewChanges DEF Reached
<1>3. \A w \in Reviews : review'[w] = IF w = v THEN new ELSE review[w]
  BY <1>0, <1>1 DEF TypeOK
<1>4. CASE new.phase # "trusted"
  <2>1. Accepted' = Accepted
    BY <1>1, <1>3, <1>4 DEF Accepted
  <2> QED BY <1>1, <1>2, <1>4, <2>1, LedgerStutters
<1>5. CASE new.phase = "trusted"
  <2>1. new.key \in Keys
    BY <1>1, <1>5
  <2>2. Accepted' = Accepted \union {new.key}
    BY <1>1, <1>3, <1>5 DEF Accepted
  <2>3. OnRecord' = OnRecord \/ \E out \in Keys : OnRecord' = (OnRecord \ {out}) \union {new.key}
    <3>1. CASE row' = row
      BY <3>1 DEF OnRecord, Present
    <3>2. ASSUME NEW i \in Rows, NEW t \in Types,
                 row' = [row EXCEPT ![i] = [type |-> t, key |-> new.key]]
          PROVE  \E out \in Keys : OnRecord' = (OnRecord \ {out}) \union {new.key}
      BY <1>0, <2>1, <3>2, RowWritten
    <3> QED BY <1>1, <3>1, <3>2
  <2>4. Ledger!Accept(new.key)
    BY <1>2, <2>2, <2>3 DEF Ledger!Accept, OnRecord, Reached
  <2> QED BY <2>1, <2>4 DEF Ledger!Next
<1> QED BY <1>4, <1>5

LEMMA LedgerRevoke ==
  ASSUME IInv, NEW f \in Revocations, RevokeSteps(f)
  PROVE  [Ledger!Next]_(Ledger!vars)
<1>1. /\ UNCHANGED <<offers, rebuilds, review, action>>
      /\ \A i \in Rows : row'[i] # row[i] => row'[i] = NoHostKey
  BY RevokeChanges DEF IInv
<1>2. OnRecord' \in SUBSET OnRecord
  BY <1>1 DEF OnRecord, Present
<1>3. Accepted' = Accepted /\ Reached' = Reached
  BY <1>1 DEF Accepted, Reached
<1>4. Ledger!Forget
  BY <1>2, <1>3 DEF Ledger!Forget, OnRecord, Reached
<1> QED BY <1>4 DEF Ledger!Next

\* A connection reaches a host that holds an accepted key.
LEMMA LedgerAction ==
  ASSUME IInv, NEW a \in Actions, ActionSteps(a)
  PROVE  [Ledger!Next]_(Ledger!vars)
<1>0. TypeOK /\ KeysWereReviewed /\ ActionInv
  BY DEF IInv
<1>1. UNCHANGED <<row, review>>
  BY <1>0, ActionChanges
<1>2. PICK new \in Action :
        /\ action' = [action EXCEPT ![a] = new]
        /\ new.phase = "sent" => new.peer \in Accepted
  BY <1>0, ActionChanges
<1>3. action[a].phase # "sent"
  BY DEF ActionSteps, Load, Connect, ConnectFails
<1>4. \A b \in Actions : action'[b] = IF b = a THEN new ELSE action[b]
  BY <1>0, <1>2 DEF TypeOK
<1>5. Accepted' = Accepted
  BY <1>1 DEF Accepted
<1>6. CASE new.phase # "sent"
  <2>1. Reached' = Reached
    BY <1>3, <1>4, <1>6 DEF Reached
  <2> QED BY <1>1, <1>5, <2>1, LedgerStutters
<1>7. CASE new.phase = "sent"
  <2>1. Reached' = Reached \union {new.peer}
    BY <1>3, <1>4, <1>7 DEF Reached
  <2>2. new.peer \in Keys
    <3>1. \A w \in Reviews : review[w].phase = "trusted" => review[w].key \in Keys
      BY DEF IInv, ReviewInv
    <3> QED BY <1>2, <1>7, <3>1 DEF Accepted
  <2>3. Ledger!Reach(new.peer)
    BY <1>1, <1>2, <1>5, <1>7, <2>1 DEF Ledger!Reach, OnRecord, Reached, Present
  <2> QED BY <2>2, <2>3 DEF Ledger!Next
<1> QED BY <1>6, <1>7

LEMMA LedgerStep == IInv /\ [Next]_vars => [Ledger!Next]_(Ledger!vars)
<1> SUFFICES ASSUME IInv, [Next]_vars PROVE [Ledger!Next]_(Ledger!vars)
  OBVIOUS
<1>1. CASE Rebuild \/ UNCHANGED vars
  <2>1. UNCHANGED <<row, review, action>>
    BY <1>1 DEF Rebuild, vars
  <2> QED BY <2>1, LedgerStutters DEF Accepted, Reached
<1> QED BY <1>1, LedgerReview, LedgerRevoke, LedgerAction
  DEF Next, ReviewSteps, RevokeSteps, ActionSteps

\* Trust implements TrustLedger: whatever reviews, revocations, actions and
\* rebuilds interleave, a key comes on record in the step that accepts it and
\* at the cost of at most one other, forgetting adds none, and commands reach
\* only hosts with accepted keys.
THEOREM TrustImplementsLedger == Spec => LedgerSpec
<1>1. Init => Ledger!Init
  BY LedgerInit
<1>2. IInv /\ [Next]_vars => [Ledger!Next]_(Ledger!vars)
  BY LedgerStep
<1> QED BY <1>1, <1>2, HostKeysInvariant, PTL DEF Spec, LedgerSpec, Ledger!Spec

\* What TrustLedger promises says enough: any system that keeps it, not only
\* this one, has only accepted keys on record and reaches only their holders.
THEOREM LedgerIsTrustworthy == LedgerSpec => [](KeysWereReviewed /\ CommandsReachReviewedHosts)
<1> DEFINE Trustworthy == OnRecord \subseteq Accepted /\ Reached \subseteq Accepted
<1>1. Ledger!Init => Trustworthy
  BY DEF Ledger!Init, OnRecord, Reached
<1>2. Trustworthy /\ [Ledger!Next]_(Ledger!vars) => Trustworthy'
  <2> SUFFICES ASSUME Trustworthy, [Ledger!Next]_(Ledger!vars) PROVE Trustworthy'
    OBVIOUS
  <2>1. CASE UNCHANGED <<Accepted, OnRecord, Reached>>
    BY <2>1
  <2>2. ASSUME NEW k \in Keys, Ledger!Accept(k) PROVE Trustworthy'
    <3>1. /\ Accepted' = Accepted \union {k} /\ Reached' = Reached
          /\ OnRecord' = OnRecord \/ \E out \in Keys : OnRecord' = (OnRecord \ {out}) \union {k}
      BY <2>2 DEF Ledger!Accept, OnRecord, Reached
    <3> QED BY <3>1
  <2>3. ASSUME NEW k \in Keys, Ledger!Reach(k) PROVE Trustworthy'
    <3>1. /\ k \in Accepted /\ Reached' = Reached \union {k}
          /\ Accepted' = Accepted /\ OnRecord' = OnRecord
      BY <2>3 DEF Ledger!Reach, OnRecord, Reached
    <3> QED BY <3>1
  <2>4. CASE Ledger!Forget
    <3>1. OnRecord' \in SUBSET OnRecord /\ Accepted' = Accepted /\ Reached' = Reached
      BY <2>4 DEF Ledger!Forget, OnRecord, Reached
    <3> QED BY <3>1
  <2> QED BY <2>1, <2>2, <2>3, <2>4 DEF Ledger!Next, Ledger!vars, OnRecord, Reached
<1>3. Trustworthy => KeysWereReviewed /\ CommandsReachReviewedHosts
  BY DEF OnRecord, Reached, KeysWereReviewed, CommandsReachReviewedHosts
<1> QED BY <1>1, <1>2, <1>3, PTL DEF LedgerSpec, Ledger!Spec
=============================================================================
