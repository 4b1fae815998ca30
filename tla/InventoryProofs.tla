--------------------------- MODULE InventoryProofs ---------------------------
(***************************************************************************)
(* Theorems about Inventory for any sets of rows, addresses, MACs, ranges, *)
(* scans, pings and removals, and their proofs.                            *)
(***************************************************************************)
EXTENDS Inventory, TLAPS

\* Only the writing scan works on a draft of its own.
WriterInv ==
  /\ \A s \in Scans : scan[s].phase = "reconciling" <=> writer = s
  /\ writer = NoScan => draft = device /\ pending = {}
  /\ \A s \in Scans : scan[s].at <= epoch

\* The draft extends the table: no row is lost and no MAC replaced.
DraftExtends == \A d \in Known(device) :
  /\ d \in Known(draft)
  /\ device[d].mac # NoMac => draft[d].mac = device[d].mac
  /\ device[d].deleted /\ ~draft[d].deleted =>
       \E o \in pending : o.id = d /\ o.present

\* What the writing scan has observed, its draft shows as seen since it began.
PendingInv == \A o \in pending :
  /\ o.run = writer /\ o.present
  /\ o.id \in Known(draft)
  /\ draft[o.id].seen >= scan[writer].at
  /\ draft[o.id].status = "online" /\ ~draft[o.id].deleted

\* An id not used yet carries no MAC.
Blank(table) == \A d \in Ids \ Known(table) : table[d].mac = NoMac

\* Committed observations belong to scans that are over.
ObsInv == \A o \in obs : scan[o.run].phase \in {"success", "failed"}

\* A request that loaded a row goes on to write that row.
RemovalInv == \A q \in Removals : removal[q].phase = "loaded" => removal[q].id \in Ids

IInv ==
  /\ TypeOK /\ RemovalInv
  /\ WriterInv /\ DraftExtends /\ PendingInv /\ ObsInv
  /\ Identity(device) /\ Blank(device)
  /\ Identity(draft) /\ Blank(draft)
  /\ NeverPresentAndAbsent
-----------------------------------------------------------------------------
(* Tables. *)

\* Identity depends on addresses and MACs only.
LEMMA SameIdentity ==
  ASSUME NEW t, NEW u,
         \A d \in Ids : u[d].ip = t[d].ip /\ u[d].mac = t[d].mac,
         Identity(t), Blank(t)
  PROVE  Identity(u) /\ Blank(u) /\ Known(u) = Known(t)
  BY DEF Identity, Blank, Known

\* What upsert_device() makes of a row.
LEMMA UpsertedRow ==
  ASSUME NEW row \in Device, NEW ip \in Ips, NEW mac \in Macs \union {NoMac}, epoch \in Nat
  PROVE  LET new == Upserted(row, ip, mac)
         IN  /\ new \in Device
             /\ new.ip = ip /\ new.mac = IF mac = NoMac THEN row.mac ELSE mac
             /\ new.status = "online" /\ new.seen = epoch /\ ~new.deleted
  BY DEF Upserted, Device

\* One host upserted into a table: one row changes, keeping its MAC, and the
\* result still identifies every host by one row.
LEMMA UpsertIdentity ==
  ASSUME NEW t \in [Ids -> Device], NEW u \in [Ids -> Device], Identity(t), Blank(t),
         NEW ip \in Ips, NEW mac \in Macs \union {NoMac},
         NEW d \in Ids,
         d \in IF Matches(t, ip, mac) # {} THEN Matches(t, ip, mac) ELSE Ids \ Known(t),
         u[d].ip = ip, u[d].mac = IF mac = NoMac THEN t[d].mac ELSE mac,
         \A e \in Ids \ {d} : u[e] = t[e]
  PROVE  /\ Identity(u) /\ Blank(u)
         /\ Known(u) = Known(t) \union {d}
         /\ d \in Known(t) /\ t[d].mac # NoMac => u[d].mac = t[d].mac
  <1> DEFINE byMac == {e \in Known(t) : mac # NoMac /\ t[e].mac = mac}
             byIp  == {e \in Known(t) : t[e].ip = ip /\ t[e].mac = NoMac}
  <1>1. Known(u) = Known(t) \union {d}
    BY InventoryAssumption DEF Known
  <1>2. \/ d \in byMac
        \/ byMac = {} /\ d \in byIp
        \/ byMac = {} /\ byIp = {} /\ d \notin Known(t)
    BY DEF Matches
  <1>3. d \in Known(t) /\ t[d].mac # NoMac => u[d].mac = t[d].mac
    BY <1>2
  <1>4. Blank(u)
    BY <1>1 DEF Blank
  <1>5. ASSUME NEW e \in Known(t), e # d
        PROVE  /\ u[d].mac # NoMac => u[d].mac # t[e].mac
               /\ t[e].ip = ip => u[d].mac # NoMac \/ t[e].mac # NoMac
    <2>1. CASE d \in byMac
      BY <1>5, <2>1 DEF Identity
    <2>2. CASE byMac = {} /\ d \in byIp
      BY <1>5, <2>2 DEF Identity
    <2>3. CASE byMac = {} /\ byIp = {} /\ d \notin Known(t)
      BY <1>5, <2>3 DEF Blank
    <2> QED
      BY <1>2, <2>1, <2>2, <2>3
  <1>6. \A e \in Known(t) \ {d} : u[e] = t[e]
    BY DEF Known
  <1>7. Identity(u)
    BY <1>1, <1>5, <1>6 DEF Identity
  <1> QED
    BY <1>1, <1>3, <1>4, <1>7

\* One host of a scan, as IInv sees it.
LEMMA UpsertEffect ==
  ASSUME IInv, NEW s \in Scans, NEW ip \in Ips, NEW mac \in Macs \union {NoMac},
         Upsert(s, ip, mac)
  PROVE  \E d \in Ids :
           /\ draft' \in [Ids -> Device]
           /\ \A e \in Ids \ {d} : draft'[e] = draft[e]
           /\ draft'[d].status = "online" /\ draft'[d].seen = epoch /\ ~draft'[d].deleted
           /\ Identity(draft') /\ Blank(draft')
           /\ Known(draft') = Known(draft) \union {d}
           /\ d \in Known(draft) /\ draft[d].mac # NoMac => draft'[d].mac = draft[d].mac
           /\ pending' = pending \union {[run |-> s, id |-> d, present |-> TRUE, ip |-> ip]}
  <1>1. PICK d \in IF Matches(draft, ip, mac) # {} THEN Matches(draft, ip, mac)
                    ELSE Ids \ Known(draft) :
          /\ draft' = [draft EXCEPT ![d] = Upserted(@, ip, mac)]
          /\ pending' = pending \union {[run |-> s, id |-> d, present |-> TRUE, ip |-> ip]}
    BY DEF Upsert
  <1>2. d \in Ids /\ draft \in [Ids -> Device] /\ epoch \in Nat
    BY DEF Matches, Known, IInv, TypeOK
  <1>3. draft'[d] = Upserted(draft[d], ip, mac) /\ \A e \in Ids \ {d} : draft'[e] = draft[e]
    BY <1>1, <1>2
  <1>4. /\ draft'[d] \in Device
        /\ draft'[d].ip = ip /\ draft'[d].mac = IF mac = NoMac THEN draft[d].mac ELSE mac
        /\ draft'[d].status = "online" /\ draft'[d].seen = epoch /\ ~draft'[d].deleted
    BY <1>2, <1>3, UpsertedRow
  <1>5. draft' \in [Ids -> Device]
    BY <1>1, <1>2, <1>3, <1>4
  <1>6. /\ Identity(draft') /\ Blank(draft')
        /\ Known(draft') = Known(draft) \union {d}
        /\ d \in Known(draft) /\ draft[d].mac # NoMac => draft'[d].mac = draft[d].mac
    <2>1. Identity(draft) /\ Blank(draft)
      BY DEF IInv
    <2> QED
      BY <1>2, <1>3, <1>4, <1>5, <2>1, UpsertIdentity
  <1> QED
    BY <1>1, <1>2, <1>3, <1>4, <1>5, <1>6
-----------------------------------------------------------------------------
(* The invariant. *)

LEMMA InitIInv == Init => IInv
  BY InventoryAssumption
  DEF Init, IInv, TypeOK, Device, Unused, Scan, Ping, Removal, WriterInv, DraftExtends,
      PendingInv, ObsInv, Identity, Blank, Known, NeverPresentAndAbsent, RemovalInv

\* The scans that begin, wait, or end with nothing to reconcile.
LEMMA ScanStep ==
  ASSUME IInv, NEW s \in Scans, BeginScan(s) \/ BeginReconcile(s) \/ ScanFails(s)
  PROVE  IInv'
  <1> USE InventoryAssumption DEF otherVars
  <1>0. /\ TypeOK /\ RemovalInv /\ WriterInv /\ DraftExtends /\ PendingInv /\ ObsInv
        /\ Identity(device) /\ Blank(device) /\ Identity(draft) /\ Blank(draft)
        /\ NeverPresentAndAbsent
    BY DEF IInv
  <1>1. CASE BeginScan(s)
    <2>0. UNCHANGED <<device, draft, writer, pending, obs, ping, removal, removed>>
      BY <1>1 DEF BeginScan
    <2>1. PICK n \in Networks :
            scan' = [scan EXCEPT ![s] = [phase |-> "scanning", at |-> epoch + 1,
                                         range |-> n, heard |-> {}]]
      BY <1>1 DEF BeginScan
    <2>2. /\ scan \in [Scans -> Scan] /\ epoch \in Nat /\ epoch' = epoch + 1
          /\ n \in SUBSET Ips
      BY <1>0, <1>1 DEF BeginScan, TypeOK
    <2>3. [phase |-> "scanning", at |-> epoch + 1, range |-> n, heard |-> {}] \in Scan
      BY <2>2 DEF Scan
    <2>4. /\ scan' \in [Scans -> Scan] /\ epoch' \in Nat
          /\ scan[s].phase = "idle" /\ scan'[s].phase = "scanning" /\ scan'[s].at = epoch + 1
          /\ \A x \in Scans \ {s} : scan'[x] = scan[x]
      <3>1. scan' \in [Scans -> Scan]
        BY <2>1, <2>2, <2>3
      <3>2. scan[s].phase = "idle"
        BY <1>1 DEF BeginScan
      <3> QED
        BY <2>1, <2>2, <3>1, <3>2
    <2>5. TypeOK'
      BY <1>0, <2>0, <2>4 DEF TypeOK
    <2>6. \A x \in Scans : scan'[x].at <= epoch'
      BY <1>0, <2>2, <2>4 DEF WriterInv, Scan
    <2>7. WriterInv' /\ writer # s
      BY <1>0, <2>0, <2>4, <2>6 DEF WriterInv
    <2>8. PendingInv'
      BY <1>0, <2>0, <2>4, <2>7 DEF PendingInv, TypeOK, Observation, Known
    <2>9. ObsInv'
      BY <1>0, <2>0, <2>4 DEF ObsInv, TypeOK, Observation
    <2> QED
      BY <1>0, <2>0, <2>5, <2>7, <2>8, <2>9
      DEF IInv, DraftExtends, Identity, Blank, Known, NeverPresentAndAbsent, RemovalInv
  <1>2. CASE BeginReconcile(s)
    <2>1. TypeOK' /\ WriterInv'
      BY <1>0, <1>2 DEF BeginReconcile, TypeOK, Scan, WriterInv
    <2>2. PendingInv' /\ ObsInv'
      BY <1>0, <1>2 DEF BeginReconcile, PendingInv, ObsInv, WriterInv, TypeOK, Scan, Observation
    <2> QED
      BY <1>0, <1>2, <2>1, <2>2
      DEF IInv, BeginReconcile, DraftExtends, Identity, Blank, Known, NeverPresentAndAbsent, RemovalInv
  <1>3. CASE ScanFails(s)
    <2>1. TypeOK' /\ WriterInv'
      BY <1>0, <1>3 DEF ScanFails, TypeOK, Scan, WriterInv
    <2>2. PendingInv' /\ ObsInv'
      BY <1>0, <1>3 DEF ScanFails, PendingInv, ObsInv, WriterInv, TypeOK, Scan, Observation, Known
    <2> QED
      BY <1>0, <1>3, <2>1, <2>2
      DEF IInv, ScanFails, DraftExtends, Identity, Blank, Known, NeverPresentAndAbsent, RemovalInv
  <1> QED
    BY <1>1, <1>2, <1>3

LEMMA UpsertStep ==
  ASSUME IInv, NEW s \in Scans, NEW ip \in Ips, NEW mac \in Macs \union {NoMac},
         Upsert(s, ip, mac)
  PROVE  IInv'
  <1>0. /\ TypeOK /\ RemovalInv /\ WriterInv /\ DraftExtends /\ PendingInv /\ ObsInv
        /\ Identity(device) /\ Blank(device) /\ NeverPresentAndAbsent
    BY DEF IInv
  <1>1. PICK d \in Ids :
          /\ draft' \in [Ids -> Device]
          /\ \A e \in Ids \ {d} : draft'[e] = draft[e]
          /\ draft'[d].status = "online" /\ draft'[d].seen = epoch /\ ~draft'[d].deleted
          /\ Identity(draft') /\ Blank(draft')
          /\ Known(draft') = Known(draft) \union {d}
          /\ d \in Known(draft) /\ draft[d].mac # NoMac => draft'[d].mac = draft[d].mac
          /\ pending' = pending \union {[run |-> s, id |-> d, present |-> TRUE, ip |-> ip]}
    BY UpsertEffect
  <1>2. /\ UNCHANGED <<device, writer, epoch, obs, ping, removal, removed>>
        /\ writer = s
        /\ scan' = [scan EXCEPT ![s].heard = @ \union {ip}]
    BY DEF Upsert, otherVars
  <1>3. TypeOK'
    <2>1. scan' \in [Scans -> Scan]
      BY <1>0, <1>2 DEF TypeOK, Scan
    <2>2. pending' \subseteq Observation
      <3>1. [run |-> s, id |-> d, present |-> TRUE, ip |-> ip] \in Observation
        BY DEF Observation
      <3> QED
        BY <1>0, <1>1, <3>1 DEF TypeOK
    <2> QED
      BY <1>0, <1>1, <1>2, <2>1, <2>2 DEF TypeOK
  <1>4. /\ \A x \in Scans : scan'[x].phase = scan[x].phase /\ scan'[x].at = scan[x].at
        /\ writer # NoScan
    BY <1>0, <1>2, InventoryAssumption DEF TypeOK, Scan
  <1>5. WriterInv'
    BY <1>0, <1>2, <1>4 DEF WriterInv
  <1>6. DraftExtends'
    <2> SUFFICES ASSUME NEW e \in Known(device)
                 PROVE  /\ e \in Known(draft')
                        /\ device[e].mac # NoMac => draft'[e].mac = device[e].mac
                        /\ device[e].deleted /\ ~draft'[e].deleted =>
                             \E o \in pending' : o.id = e /\ o.present
      BY <1>2 DEF DraftExtends, Known
    <2>1. e \in Ids /\ e \in Known(draft)
      BY <1>0 DEF DraftExtends, Known
    <2>2. CASE e = d
      <3>1. \E o \in pending' : o.id = e /\ o.present
        <4>1. [run |-> s, id |-> d, present |-> TRUE, ip |-> ip] \in pending'
          BY <1>1
        <4> QED
          BY <2>2, <4>1
      <3>2. device[e].mac # NoMac => draft[e].mac = device[e].mac
        BY <1>0 DEF DraftExtends
      <3> QED
        BY <1>1, <2>1, <2>2, <3>1, <3>2
    <2>3. CASE e # d
      <3>1. draft'[e] = draft[e] /\ e \in Known(draft') /\ pending \subseteq pending'
        BY <1>1, <2>1, <2>3
      <3>2. /\ device[e].mac # NoMac => draft[e].mac = device[e].mac
            /\ device[e].deleted /\ ~draft[e].deleted => \E o \in pending : o.id = e /\ o.present
        BY <1>0 DEF DraftExtends
      <3>3. ASSUME device[e].deleted, ~draft'[e].deleted
            PROVE  \E o \in pending' : o.id = e /\ o.present
        <4>1. PICK o \in pending : o.id = e /\ o.present
          BY <3>1, <3>2, <3>3
        <4> QED
          BY <3>1, <4>1
      <3> QED
        BY <3>1, <3>2, <3>3
    <2> QED
      BY <2>2, <2>3
  <1>7. PendingInv'
    <2> SUFFICES ASSUME NEW o \in pending'
                 PROVE  /\ o.run = s /\ o.present
                        /\ o.id \in Known(draft')
                        /\ draft'[o.id].seen >= scan[s].at
                        /\ draft'[o.id].status = "online" /\ ~draft'[o.id].deleted
      BY <1>2, <1>4 DEF PendingInv
    <2>1. epoch >= scan[s].at
      BY <1>0 DEF WriterInv, TypeOK, Scan
    <2>2. CASE o.id = d
      BY <1>1, <1>2, <2>1, <2>2, <1>0 DEF PendingInv
    <2>3. CASE o.id # d
      BY <1>1, <1>2, <2>3, <1>0 DEF PendingInv, Known
    <2> QED
      BY <2>2, <2>3
  <1>8. ObsInv' /\ NeverPresentAndAbsent'
    BY <1>0, <1>2, <1>4 DEF ObsInv, NeverPresentAndAbsent, TypeOK, Observation
  <1> QED
    BY <1>0, <1>1, <1>2, <1>3, <1>5, <1>6, <1>7, <1>8 DEF IInv, Identity, Blank, Known, RemovalInv

\* The end of a writing scan, however it ends.
LEMMA EndStep ==
  ASSUME IInv, NEW s \in Scans, SweepAndCommit(s) \/ BreakAndCommit(s) \/ RollBack(s)
  PROVE  IInv'
  <1>0. /\ TypeOK /\ RemovalInv /\ WriterInv /\ DraftExtends /\ PendingInv /\ ObsInv
        /\ Identity(device) /\ Blank(device) /\ Identity(draft) /\ Blank(draft)
        /\ NeverPresentAndAbsent
    BY DEF IInv
  <1>1. ASSUME NEW t \in [Ids -> Device], NEW o \in SUBSET Observation,
               NEW p \in {"success", "failed"}, EndWrite(s, t, o, p),
               Identity(t), Blank(t),
               \A x \in o : x \in obs \/ x.run = s,
               \A x, y \in o : x.run = y.run /\ x.id = y.id => x.present = y.present
        PROVE  IInv'
    <2>1. /\ writer = s /\ writer' = NoScan /\ device' = t /\ draft' = t
          /\ obs' = o /\ pending' = {} /\ scan' = [scan EXCEPT ![s].phase = p]
          /\ UNCHANGED <<epoch, ping, removal, removed>>
      BY <1>1 DEF EndWrite, otherVars
    <2>2. scan' \in [Scans -> Scan]
      BY <1>0, <2>1 DEF TypeOK, Scan
    <2>3. TypeOK'
      BY <1>0, <2>1, <2>2 DEF TypeOK
    <2>4. /\ scan'[s].phase = p
          /\ \A x \in Scans : scan'[x].at = scan[x].at
          /\ \A x \in Scans \ {s} : scan'[x].phase = scan[x].phase
      BY <1>0, <2>1 DEF TypeOK, Scan
    <2>5. WriterInv'
      BY <1>0, <2>1, <2>4, InventoryAssumption DEF WriterInv
    <2>6. ObsInv'
      BY <1>0, <1>1, <2>1, <2>4 DEF ObsInv, TypeOK, Observation
    <2>7. PendingInv' /\ DraftExtends'
      BY <2>1 DEF PendingInv, DraftExtends, Known
    <2> QED
      BY <1>0, <1>1, <2>1, <2>3, <2>5, <2>6, <2>7
      DEF IInv, NeverPresentAndAbsent, Identity, Blank, Known, RemovalInv
  <1>2. \A x \in obs : writer = s => x.run # s
    BY <1>0 DEF ObsInv, WriterInv
  <1>3. CASE SweepAndCommit(s)
    <2> DEFINE absent == Absent(s)
               swept == [d \in Ids |-> IF d \in absent THEN [draft[d] EXCEPT !.status = "offline"]
                                       ELSE draft[d]]
               unseen == {[run |-> s, id |-> d, present |-> FALSE, ip |-> draft[d].ip] : d \in absent}
               all == obs \union pending \union unseen
    <2>1. writer = s /\ EndWrite(s, swept, all, "success")
      BY <1>3 DEF SweepAndCommit, EndWrite
    <2>2. /\ absent \subseteq Known(draft) /\ absent \subseteq Ids
          /\ \A d \in absent : draft[d].seen < scan[s].at
      BY DEF Absent, Known
    <2>3. swept \in [Ids -> Device] /\ \A d \in Ids : swept[d].ip = draft[d].ip /\ swept[d].mac = draft[d].mac
      BY <1>0 DEF TypeOK, Device
    <2>4. Identity(swept) /\ Blank(swept)
      BY <1>0, <2>3, SameIdentity
    <2>5. \A d \in absent : draft[d].ip \in Ips
      BY <1>0, <2>2 DEF TypeOK, Device, Known
    <2>6. unseen \in SUBSET Observation
      <3>1. ASSUME NEW d \in absent
            PROVE  [run |-> s, id |-> d, present |-> FALSE, ip |-> draft[d].ip] \in Observation
        BY <2>2, <2>5 DEF Observation
      <3> QED
        BY <3>1
    <2>7. all \in SUBSET Observation
      BY <1>0, <2>6 DEF TypeOK
    <2>8. \A x \in pending : x.run = s /\ x.present /\ draft[x.id].seen >= scan[s].at
      BY <1>0, <2>1 DEF PendingInv
    <2>9. \A x \in unseen : x.run = s /\ ~x.present /\ x.id \in absent
      OBVIOUS
    <2>10. \A x \in pending, y \in unseen : x.id # y.id
      <3> SUFFICES ASSUME NEW x \in pending, NEW y \in unseen, x.id = y.id
                   PROVE  FALSE
        OBVIOUS
      <3>1. draft[x.id].seen \in Nat /\ scan[s].at \in Nat
        BY <1>0 DEF TypeOK, Observation, Device, Scan
      <3> QED
        BY <2>2, <2>8, <2>9, <3>1
    <2>11. \A x, y \in all : x.run = y.run /\ x.id = y.id => x.present = y.present
      <3> SUFFICES ASSUME NEW x \in all, NEW y \in all, x.run = y.run, x.id = y.id
                   PROVE  x.present = y.present
        OBVIOUS
      <3>1. CASE x \in obs /\ y \in obs
        BY <1>0, <3>1 DEF NeverPresentAndAbsent
      <3>2. CASE x \in obs /\ y \notin obs
        BY <1>2, <2>1, <2>8, <2>9, <3>2
      <3>3. CASE x \notin obs /\ y \in obs
        BY <1>2, <2>1, <2>8, <2>9, <3>3
      <3>4. CASE x \notin obs /\ y \notin obs
        <4>1. /\ x \in pending \/ x \in unseen
              /\ y \in pending \/ y \in unseen
          BY <3>4
        <4>2. \A z \in all : z.present \in BOOLEAN
          BY <2>7 DEF Observation
        <4>3. CASE x \in pending /\ y \in pending
          BY <2>8, <4>2, <4>3
        <4>4. CASE x \in unseen /\ y \in unseen
          BY <2>9, <4>2, <4>4
        <4> QED
          BY <2>10, <4>1, <4>3, <4>4
      <3> QED
        BY <3>1, <3>2, <3>3, <3>4
    <2>12. \A x \in all : x \in obs \/ x.run = s
      BY <2>8, <2>9
    <2> HIDE DEF swept, all
    <2> QED
      BY <1>1, <2>1, <2>3, <2>4, <2>7, <2>11, <2>12
  <1>4. CASE BreakAndCommit(s)
    <2> DEFINE all == obs \union pending
    <2>1. writer = s /\ EndWrite(s, draft, all, "failed")
      BY <1>4 DEF BreakAndCommit, EndWrite
    <2>2. draft \in [Ids -> Device] /\ all \in SUBSET Observation
      BY <1>0 DEF TypeOK
    <2>3. \A x \in pending : x.run = s /\ x.present
      BY <1>0, <2>1 DEF PendingInv
    <2>4. \A x, y \in all : x.run = y.run /\ x.id = y.id => x.present = y.present
      <3>1. \A z \in all : z.present \in BOOLEAN
        BY <2>2 DEF Observation
      <3> QED
        BY <1>0, <1>2, <2>1, <2>3, <3>1 DEF NeverPresentAndAbsent
    <2>5. \A x \in all : x \in obs \/ x.run = s
      BY <2>3
    <2> HIDE DEF all
    <2> QED
      BY <1>0, <1>1, <2>1, <2>2, <2>4, <2>5
  <1>5. CASE RollBack(s)
    <2>1. EndWrite(s, device, obs, "failed")
      BY <1>5 DEF RollBack
    <2>2. device \in [Ids -> Device] /\ obs \in SUBSET Observation
      BY <1>0 DEF TypeOK
    <2>3. \A x, y \in obs : x.run = y.run /\ x.id = y.id => x.present = y.present
      BY <1>0 DEF NeverPresentAndAbsent
    <2> QED
      BY <1>0, <1>1, <2>1, <2>2, <2>3
  <1> QED
    BY <1>3, <1>4, <1>5

\* Pings and removals leave addresses and MACs alone.
LEMMA OperatorStep ==
  ASSUME IInv,
         \/ \E p \in Pings : PingLoad(p) \/ PingAnswer(p) \/ PingCommit(p) \/ PingDropped(p)
         \/ \E q \in Removals : RemovalLoad(q) \/ RemovalCommit(q)
  PROVE  /\ IInv'
         /\ \A d \in Ids : /\ device'[d].ip = device[d].ip /\ device'[d].mac = device[d].mac
                           /\ device[d].deleted => device'[d].deleted
  <1>0. /\ TypeOK /\ RemovalInv /\ WriterInv /\ DraftExtends /\ PendingInv /\ ObsInv
        /\ Identity(device) /\ Blank(device) /\ Identity(draft) /\ Blank(draft)
        /\ NeverPresentAndAbsent
    BY DEF IInv
  <1> DEFINE Tame == \A d \in Ids : /\ device'[d].ip = device[d].ip
                                    /\ device'[d].mac = device[d].mac
                                    /\ device[d].deleted => device'[d].deleted
  <1>1. ASSUME TypeOK', RemovalInv', UNCHANGED <<device, draft, scanVars>>
        PROVE  IInv' /\ Tame
    <2>1. WriterInv' /\ DraftExtends' /\ PendingInv' /\ ObsInv' /\ NeverPresentAndAbsent'
      BY <1>0, <1>1 DEF scanVars, WriterInv, DraftExtends, PendingInv, ObsInv, Known,
                        NeverPresentAndAbsent
    <2> QED
      BY <1>0, <1>1, <2>1 DEF IInv, Identity, Blank, Known
  <1>2. ASSUME TypeOK', RemovalInv', writer = NoScan, draft' = device', UNCHANGED scanVars, Tame
        PROVE  IInv'
    <2>1. Identity(device') /\ Blank(device')
      BY <1>0, <1>2, SameIdentity
    <2>2. WriterInv' /\ DraftExtends' /\ PendingInv' /\ ObsInv' /\ NeverPresentAndAbsent'
      BY <1>0, <1>2 DEF scanVars, WriterInv, DraftExtends, PendingInv, ObsInv, Known,
                        NeverPresentAndAbsent
    <2> QED
      BY <1>2, <2>1, <2>2 DEF IInv, Identity, Blank, Known
  <1>3. ASSUME NEW p \in Pings, PingLoad(p)
        PROVE  IInv' /\ Tame
    <2>1. PICK d \in Known(device) :
            ping' = [ping EXCEPT ![p] = [phase |-> "loaded", id |-> d,
                                         status |-> device[d].status, seen |-> 0]]
      BY <1>3 DEF PingLoad
    <2>2. [phase |-> "loaded", id |-> d, status |-> device[d].status, seen |-> 0] \in Ping
      BY <1>0 DEF TypeOK, Device, Known, Ping
    <2>3. ping' \in [Pings -> Ping]
      BY <1>0, <2>1, <2>2 DEF TypeOK
    <2>4. UNCHANGED <<device, draft, scanVars, removal, removed>>
      BY <1>3 DEF PingLoad
    <2>5. TypeOK' /\ RemovalInv'
      BY <1>0, <2>3, <2>4 DEF TypeOK, scanVars, RemovalInv
    <2> QED
      BY <1>1, <2>4, <2>5
  <1>4. ASSUME NEW p \in Pings, PingAnswer(p)
        PROVE  IInv' /\ Tame
    <2>1. PICK a \in {"up", "down"} :
            ping' = [ping EXCEPT ![p] = [phase |-> a, id |-> @.id,
                                         status |-> @.status, seen |-> epoch]]
      BY <1>4 DEF PingAnswer
    <2>2. ping' \in [Pings -> Ping]
      BY <1>0, <2>1 DEF TypeOK, Ping
    <2>3. UNCHANGED <<device, draft, scanVars, removal, removed>>
      BY <1>4 DEF PingAnswer
    <2>4. TypeOK' /\ RemovalInv'
      BY <1>0, <2>2, <2>3 DEF TypeOK, scanVars, RemovalInv
    <2> QED
      BY <1>1, <2>3, <2>4
  <1>5. ASSUME NEW p \in Pings, PingDropped(p)
        PROVE  IInv' /\ Tame
    <2>1. ping' \in [Pings -> Ping]
      BY <1>0, <1>5 DEF PingDropped, TypeOK, Ping
    <2>2. UNCHANGED <<device, draft, scanVars, removal, removed>>
      BY <1>5 DEF PingDropped
    <2>3. TypeOK' /\ RemovalInv'
      BY <1>0, <2>1, <2>2 DEF TypeOK, scanVars, RemovalInv
    <2> QED
      BY <1>1, <2>2, <2>3
  <1>6. ASSUME NEW q \in Removals, RemovalLoad(q)
        PROVE  IInv' /\ Tame
    <2>1. PICK d \in Known(device) :
            removal' = [removal EXCEPT ![q] = [phase |-> "loaded", id |-> d,
                                               deleted |-> device[d].deleted]]
      BY <1>6 DEF RemovalLoad
    <2>2. [phase |-> "loaded", id |-> d, deleted |-> device[d].deleted] \in Removal
      BY <1>0 DEF TypeOK, Device, Known, Removal
    <2>3. removal' \in [Removals -> Removal]
      BY <1>0, <2>1, <2>2 DEF TypeOK
    <2>4. UNCHANGED <<device, draft, scanVars, ping, removed>>
      BY <1>6 DEF RemovalLoad
    <2>5. TypeOK'
      BY <1>0, <2>3, <2>4 DEF TypeOK, scanVars
    <2>6. d \in Ids /\ removal \in [Removals -> Removal]
      BY <1>0 DEF Known, TypeOK
    <2>7. RemovalInv'
      BY <1>0, <2>1, <2>6 DEF RemovalInv
    <2> QED
      BY <1>1, <2>4, <2>5, <2>7
  <1>7. ASSUME NEW p \in Pings, PingCommit(p)
        PROVE  IInv' /\ Tame
    <2> DEFINE up == ping[p].phase = "up"
               status == IF up THEN "online" ELSE "offline"
               row == device[ping[p].id]
               new == [row EXCEPT !.status = IF status # ping[p].status THEN status ELSE @,
                                  !.seen = IF up THEN ping[p].seen ELSE @]
    <2>1. /\ device' = [device EXCEPT ![ping[p].id] = new]
          /\ writer = NoScan /\ draft' = device'
          /\ ping' = [ping EXCEPT ![p].phase = "done"]
          /\ UNCHANGED <<scanVars, removal, removed>>
      BY <1>7 DEF PingCommit
    <2>2. /\ device \in [Ids -> Device]
          /\ ping[p].status \in {"online", "offline"} /\ ping[p].seen \in Nat
      BY <1>0 DEF TypeOK, Ping
    <2>3. ASSUME ping[p].id \in Ids
          PROVE  new \in Device /\ new.ip = row.ip /\ new.mac = row.mac /\ new.deleted = row.deleted
      <3>1. row \in Device
        BY <2>2, <2>3
      <3> QED
        BY <2>2, <3>1 DEF Device
    <2> HIDE DEF new
    <2>4. device' \in [Ids -> Device] /\ Tame
      BY <2>1, <2>2, <2>3
    <2>5. ping' \in [Pings -> Ping]
      BY <1>0, <2>1 DEF TypeOK, Ping
    <2>6. TypeOK' /\ RemovalInv'
      BY <1>0, <2>1, <2>4, <2>5 DEF TypeOK, scanVars, RemovalInv
    <2> QED
      BY <1>2, <2>1, <2>4, <2>6
  <1>8. ASSUME NEW q \in Removals, RemovalCommit(q)
        PROVE  IInv' /\ Tame
    <2> DEFINE row == device[removal[q].id]
               new == [row EXCEPT !.deleted = IF removal[q].deleted THEN @ ELSE TRUE, !.stamped = TRUE]
    <2>1. /\ device' = [device EXCEPT ![removal[q].id] = new]
          /\ writer = NoScan /\ draft' = device'
          /\ removed' = removed \union {<<q, removal[q].id>>}
          /\ removal' = [removal EXCEPT ![q].phase = "done"]
          /\ UNCHANGED <<scanVars, ping>>
      BY <1>8 DEF RemovalCommit
    <2>2. /\ device \in [Ids -> Device] /\ removal[q].deleted \in BOOLEAN
          /\ removal \in [Removals -> Removal] /\ removal[q].id \in Ids
      BY <1>0, <1>8 DEF TypeOK, Removal, RemovalInv, RemovalCommit
    <2>3. /\ new \in Device /\ new.ip = row.ip /\ new.mac = row.mac
          /\ row.deleted => new.deleted
      <3>1. row \in Device
        BY <2>2
      <3> QED
        BY <2>2, <3>1 DEF Device
    <2> HIDE DEF new
    <2>4. device' \in [Ids -> Device] /\ Tame
      BY <2>1, <2>2, <2>3
    <2>5. removal' \in [Removals -> Removal]
      BY <2>1, <2>2 DEF Removal
    <2>6. removed' \subseteq Removals \X Ids
      <3>1. removed \subseteq Removals \X Ids
        BY <1>0 DEF TypeOK
      <3>2. <<q, removal[q].id>> \in Removals \X Ids
        BY <2>2
      <3> QED
        BY <2>1, <3>1, <3>2
    <2>7. TypeOK'
      BY <1>0, <2>1, <2>4, <2>5, <2>6 DEF TypeOK, scanVars
    <2>8. RemovalInv'
      BY <1>0, <2>1, <2>2 DEF RemovalInv, Removal
    <2> QED
      BY <1>2, <2>1, <2>4, <2>7, <2>8
  <1> HIDE DEF Tame
  <1>9. IInv' /\ Tame
    BY <1>3, <1>4, <1>5, <1>6, <1>7, <1>8
  <1> QED
    BY <1>9 DEF Tame

LEMMA IInvStep ==
  ASSUME IInv, [Next]_vars
  PROVE  IInv'
  <1>1. CASE UNCHANGED vars
    BY <1>1 DEF vars, IInv, TypeOK, WriterInv, DraftExtends, PendingInv, ObsInv, Identity,
                Blank, Known, NeverPresentAndAbsent, RemovalInv
  <1> QED
    BY <1>1, ScanStep, UpsertStep, EndStep, OperatorStep DEF Next

\* The inductive invariant holds of every behaviour.
THEOREM InventoryInvariant == Spec => []IInv
  BY InitIInv, IInvStep, PTL DEF Spec

\* Every variable keeps its type.
THEOREM TypeCorrect == Spec => []TypeOK
  <1>1. IInv => TypeOK
    BY DEF IInv
  <1> QED
    BY <1>1, InventoryInvariant, PTL

\* Every host has at most one row to come back to.
THEOREM HostsHaveOneRow == Spec => []IdentityIsUnique
  <1>1. IInv => IdentityIsUnique
    BY DEF IInv, IdentityIsUnique
  <1> QED
    BY <1>1, InventoryInvariant, PTL

\* A run never says of one device both that it answered and that it did not.
THEOREM ObservationsAgree == Spec => []NeverPresentAndAbsent
  <1>1. IInv => NeverPresentAndAbsent
    BY DEF IInv
  <1> QED
    BY <1>1, InventoryInvariant, PTL

-----------------------------------------------------------------------------
(* Steps. *)

\* What a step can do to the table: nothing to identities, or make a writing
\* scan's draft, with its observations, the table.
LEMMA TableWrites ==
  ASSUME IInv, [Next]_vars
  PROVE  \/ \A d \in Ids : /\ device'[d].ip = device[d].ip /\ device'[d].mac = device[d].mac
                           /\ device[d].deleted => device'[d].deleted
         \/ \E s \in Scans :
              /\ writer = s /\ pending \subseteq obs'
              /\ \A d \in Ids : /\ device'[d].ip = draft[d].ip /\ device'[d].mac = draft[d].mac
                               /\ device'[d].deleted = draft[d].deleted
  <1> DEFINE Tame == \A d \in Ids : /\ device'[d].ip = device[d].ip
                                    /\ device'[d].mac = device[d].mac
                                    /\ device[d].deleted => device'[d].deleted
             Published(s) == /\ writer = s /\ pending \subseteq obs'
                             /\ \A d \in Ids : /\ device'[d].ip = draft[d].ip
                                              /\ device'[d].mac = draft[d].mac
                                              /\ device'[d].deleted = draft[d].deleted
  <1>1. CASE UNCHANGED device
    BY <1>1
  <1>2. ASSUME NEW s \in Scans, SweepAndCommit(s)
        PROVE  Published(s)
    <2>1. draft \in [Ids -> Device]
      BY DEF IInv, TypeOK
    <2> QED
      BY <1>2, <2>1 DEF SweepAndCommit, EndWrite, Device
  <1>3. ASSUME NEW s \in Scans, BreakAndCommit(s)
        PROVE  Published(s)
    BY <1>3 DEF BreakAndCommit, EndWrite
  <1>4. ASSUME \/ \E p \in Pings : PingLoad(p) \/ PingAnswer(p) \/ PingCommit(p) \/ PingDropped(p)
               \/ \E q \in Removals : RemovalLoad(q) \/ RemovalCommit(q)
        PROVE  Tame
    BY <1>4, OperatorStep
  <1>5. ASSUME NEW s \in Scans,
               \/ BeginScan(s) \/ BeginReconcile(s) \/ ScanFails(s) \/ RollBack(s)
               \/ \E ip \in Ips, mac \in Macs \union {NoMac} : Upsert(s, ip, mac)
        PROVE  UNCHANGED device
    BY <1>5 DEF BeginScan, BeginReconcile, ScanFails, RollBack, EndWrite, Upsert
  <1>6. CASE UNCHANGED vars
    BY <1>6 DEF vars
  <1> HIDE DEF Tame, Published
  <1>7. Tame \/ \E s \in Scans : Published(s)
    <2>1. UNCHANGED device => Tame
      BY DEF Tame
    <2> QED
      BY <1>2, <1>3, <1>4, <1>5, <1>6, <2>1 DEF Next, vars
  <1> QED
    BY <1>7 DEF Tame, Published

\* No step loses a row or replaces a MAC.
THEOREM MacsAreKept == Spec => RowsKeepTheirMac
  <1> DEFINE Kept == \A d \in Known(device) :
               /\ d \in Known(device')
               /\ device[d].mac # NoMac => device'[d].mac = device[d].mac
  <1>1. ASSUME IInv, [Next]_vars
        PROVE  Kept
    BY <1>1, TableWrites DEF IInv, DraftExtends, Known
  <1>2. IInv /\ [Next]_vars => [Kept]_vars
    BY <1>1
  <1> QED
    BY <1>2, InventoryInvariant, PTL DEF Spec, RowsKeepTheirMac

\* A removed device comes back only by a committed sighting.
THEOREM RemovedStaysRemoved == Spec => RemovalSticks
  <1> DEFINE Stuck == \A d \in Known(device) :
               device[d].deleted /\ ~device'[d].deleted =>
                 \E o \in obs' \ obs : o.id = d /\ o.present
  <1>1. ASSUME IInv, [Next]_vars
        PROVE  Stuck
    <2> SUFFICES ASSUME NEW d \in Known(device), device[d].deleted, ~device'[d].deleted
                 PROVE  \E o \in obs' \ obs : o.id = d /\ o.present
      OBVIOUS
    <2>1. d \in Ids
      BY DEF Known
    <2>2. PICK s \in Scans : /\ writer = s /\ pending \subseteq obs'
                             /\ device'[d].deleted = draft[d].deleted
      BY <1>1, <2>1, TableWrites
    <2>3. PICK o \in pending : o.id = d /\ o.present
      BY <1>1, <2>2 DEF IInv, DraftExtends
    <2>4. o.run = s
      BY <1>1, <2>2, <2>3 DEF IInv, PendingInv
    <2>5. o \notin obs
      BY <1>1, <2>2, <2>4 DEF IInv, ObsInv, WriterInv
    <2> QED
      BY <2>2, <2>3, <2>5
  <1>2. IInv /\ [Next]_vars => [Stuck]_vars
    BY <1>1
  <1> QED
    BY <1>2, InventoryInvariant, PTL DEF Spec, RemovalSticks

\* Only its own commit makes a reconciling scan a success.
LEMMA SuccessIsSwept ==
  ASSUME IInv, Next, NEW s \in Scans, scan[s].phase = "reconciling", scan'[s].phase = "success"
  PROVE  SweepAndCommit(s)
  <1>1. scan \in [Scans -> Scan] /\ writer = s /\ s # NoScan
    BY InventoryAssumption DEF IInv, TypeOK, WriterInv
  <1>2. ASSUME NEW t \in Scans, BeginScan(t) \/ BeginReconcile(t) \/ ScanFails(t)
        PROVE  FALSE
    BY <1>1, <1>2 DEF BeginScan, BeginReconcile, ScanFails, Scan
  <1>3. ASSUME NEW t \in Scans, NEW ip \in Ips, NEW mac \in Macs \union {NoMac}, Upsert(t, ip, mac)
        PROVE  FALSE
    BY <1>1, <1>3 DEF Upsert, Scan
  <1>4. ASSUME NEW t \in Scans, BreakAndCommit(t) \/ RollBack(t)
        PROVE  FALSE
    BY <1>1, <1>4 DEF BreakAndCommit, RollBack, EndWrite, Scan
  <1>5. ASSUME NEW t \in Scans, SweepAndCommit(t)
        PROVE  t = s
    BY <1>1, <1>5 DEF SweepAndCommit, EndWrite
  <1>6. ASSUME \/ \E p \in Pings : PingLoad(p) \/ PingAnswer(p) \/ PingCommit(p) \/ PingDropped(p)
               \/ \E q \in Removals : RemovalLoad(q) \/ RemovalCommit(q)
        PROVE  FALSE
    BY <1>6 DEF PingLoad, PingAnswer, PingCommit, PingDropped, RemovalLoad, RemovalCommit, scanVars
  <1> QED
    BY <1>2, <1>3, <1>4, <1>5, <1>6 DEF Next

\* What a committing scan saw is listed and online, and the rest of its range
\* is swept: whatever it observed itself, its draft shows as seen since it began.
THEOREM ScansAccountForTheirRange == Spec => ScanAccountsForRange
  <1> DEFINE Accounted == \A s \in Scans :
               scan[s].phase = "reconciling" /\ scan'[s].phase = "success" =>
                 \A d \in Known(device') :
                   IF \E o \in obs' : o.run = s /\ o.id = d /\ o.present
                   THEN ~device'[d].deleted /\ device'[d].status = "online"
                   ELSE ~device'[d].deleted /\ device'[d].ip \in scan[s].range =>
                          device'[d].status = "offline" \/ device'[d].seen >= scan[s].at
  <1>1. ASSUME IInv, Next
        PROVE  Accounted
    <2> SUFFICES ASSUME NEW s \in Scans, scan[s].phase = "reconciling", scan'[s].phase = "success",
                        NEW d \in Known(device')
                 PROVE  IF \E o \in obs' : o.run = s /\ o.id = d /\ o.present
                        THEN ~device'[d].deleted /\ device'[d].status = "online"
                        ELSE ~device'[d].deleted /\ device'[d].ip \in scan[s].range =>
                               device'[d].status = "offline" \/ device'[d].seen >= scan[s].at
      OBVIOUS
    <2>1. SweepAndCommit(s) /\ writer = s
      BY <1>1, SuccessIsSwept DEF SweepAndCommit, EndWrite
    <2>2. d \in Ids /\ draft[d] \in Device /\ scan[s].at \in Nat
      BY <1>1 DEF IInv, TypeOK, Known, Scan
    <2>3. device'[d] = IF d \in Absent(s) THEN [draft[d] EXCEPT !.status = "offline"] ELSE draft[d]
      BY <2>1, <2>2 DEF SweepAndCommit, EndWrite
    <2>4. d \in Known(draft)
      BY <2>2, <2>3 DEF Known, Device
    <2>5. ASSUME NEW o \in obs', o.run = s, o.id = d, o.present
          PROVE  ~device'[d].deleted /\ device'[d].status = "online"
      <3>1. o \in pending
        <4>1. o \notin obs
          BY <1>1, <2>5 DEF IInv, ObsInv
        <4>2. o \in obs \union pending \/ \E e \in Absent(s) :
                o = [run |-> s, id |-> e, present |-> FALSE, ip |-> draft[e].ip]
          BY <2>1, <2>5 DEF SweepAndCommit, EndWrite
        <4> QED
          BY <2>5, <4>1, <4>2
      <3>2. /\ draft[d].seen >= scan[s].at
            /\ draft[d].status = "online" /\ ~draft[d].deleted
        BY <1>1, <2>1, <2>5, <3>1 DEF IInv, PendingInv
      <3>3. d \notin Absent(s)
        BY <2>2, <3>2 DEF Absent, Device
      <3> QED
        BY <2>3, <3>2, <3>3
    <2>6. ASSUME ~device'[d].deleted, device'[d].ip \in scan[s].range
          PROVE  device'[d].status = "offline" \/ device'[d].seen >= scan[s].at
      <3>1. CASE d \in Absent(s)
        BY <2>2, <2>3, <3>1 DEF Device
      <3>2. CASE d \notin Absent(s)
        <4>1. device'[d] = draft[d]
          BY <2>3, <3>2
        <4>2. ~(draft[d].seen < scan[s].at)
          BY <2>4, <2>6, <3>2, <4>1 DEF Absent
        <4> QED
          BY <2>2, <4>1, <4>2 DEF Device
      <3> QED
        BY <3>1, <3>2
    <2> QED
      BY <2>5, <2>6
  <1>2. IInv /\ [Next]_vars => [Accounted]_vars
    BY <1>1
  <1> QED
    BY <1>2, InventoryInvariant, PTL DEF Spec, ScanAccountsForRange
=============================================================================
