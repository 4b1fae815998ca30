------------------------------ MODULE Inventory ------------------------------
(***************************************************************************)
(* The device table and what writes to it concurrently: the reconcile() of *)
(* discovery scans, diagnostic pings, and operators removing devices.      *)
(*                                                                         *)
(* A scan holds SQLite's write lock from its first query to its commit, so *)
(* its whole reconcile() works on a draft nobody else sees.  A ping or a   *)
(* removal loads its row without the lock, waits (for ping(8), for the     *)
(* lock), and then writes only the columns whose value differs from the    *)
(* one it LOADED, whatever the table holds by then.                        *)
(*                                                                         *)
(* Time is the number of scans started: last_seen < scanned_at compares    *)
(* the epoch a device was seen in with the one the scan began.             *)
(***************************************************************************)
EXTENDS Integers

CONSTANTS
  Ids, NoId,      \* primary keys of device rows
  Ips, NoIp,      \* addresses; NoIp marks an unused id
  Macs, NoMac,    \* NoMac: the host is behind a router
  Networks,       \* the ranges an operator scans
  Scans, NoScan,  \* runs that reach reconcile()
  Pings,          \* ping diagnostics
  Removals        \* POST /devices/{id}/delete requests

ASSUME InventoryAssumption ==
  /\ NoId \notin Ids /\ NoIp \notin Ips /\ NoMac \notin Macs /\ NoScan \notin Scans
  /\ Networks \subseteq SUBSET Ips

VARIABLES
  device,   \* the committed table
  draft,    \* the table as the writing scan sees it
  writer,   \* the scan holding the write lock
  epoch,    \* scans started
  scan,     \* progress of each scan
  pending,  \* observations of the writing scan, not committed yet
  obs,      \* committed observations
  ping,     \* progress of each ping
  removal,  \* progress of each removal request
  removed   \* committed device_removed events, as <<request, id>>

vars == <<device, draft, writer, epoch, scan, pending, obs, ping, removal, removed>>

Device == [ip : Ips \union {NoIp}, mac : Macs \union {NoMac},
           status : {"online", "offline"}, seen : Nat,
           deleted : BOOLEAN, stamped : BOOLEAN]  \* stamped: deleted_at is set
Unused == [ip |-> NoIp, mac |-> NoMac, status |-> "offline", seen |-> 0,
           deleted |-> FALSE, stamped |-> FALSE]

Scan == [phase : {"idle", "scanning", "reconciling", "success", "failed"},
         at : Nat, range : SUBSET Ips, heard : SUBSET Ips]
Observation == [run : Scans, id : Ids, present : BOOLEAN, ip : Ips]
Ping == [phase : {"idle", "loaded", "up", "down", "done"},
         id : Ids \union {NoId}, status : {"online", "offline"}, seen : Nat]
Removal == [phase : {"idle", "loaded", "done"}, id : Ids \union {NoId}, deleted : BOOLEAN]

Known(table) == {d \in Ids : table[d].ip # NoIp}

TypeOK ==
  /\ device \in [Ids -> Device] /\ draft \in [Ids -> Device]
  /\ writer \in Scans \union {NoScan}
  /\ epoch \in Nat
  /\ scan \in [Scans -> Scan]
  /\ pending \subseteq Observation /\ obs \subseteq Observation
  /\ ping \in [Pings -> Ping]
  /\ removal \in [Removals -> Removal]
  /\ removed \subseteq Removals \X Ids

Init ==
  /\ device = [d \in Ids |-> Unused] /\ draft = device
  /\ writer = NoScan
  /\ epoch = 0
  /\ scan = [s \in Scans |-> [phase |-> "idle", at |-> 0, range |-> {}, heard |-> {}]]
  /\ pending = {} /\ obs = {}
  /\ ping = [p \in Pings |-> [phase |-> "idle", id |-> NoId, status |-> "offline", seen |-> 0]]
  /\ removal = [q \in Removals |-> [phase |-> "idle", id |-> NoId, deleted |-> FALSE]]
  /\ removed = {}

-----------------------------------------------------------------------------
(* Scans. *)

otherVars == <<ping, removal, removed>>

\* execute_run(): scanned_at is taken before nmap starts.
BeginScan(s) ==
  /\ scan[s].phase = "idle"
  /\ epoch' = epoch + 1
  /\ \E n \in Networks :
       scan' = [scan EXCEPT ![s] = [phase |-> "scanning", at |-> epoch + 1,
                                    range |-> n, heard |-> {}]]
  /\ UNCHANGED <<device, draft, writer, pending, obs, otherVars>>

\* reconcile() starts: the dirty run row is flushed, which takes the lock.
BeginReconcile(s) ==
  /\ scan[s].phase = "scanning"
  /\ writer = NoScan
  /\ writer' = s
  /\ draft' = device
  /\ scan' = [scan EXCEPT ![s].phase = "reconciling"]
  /\ UNCHANGED <<device, epoch, pending, obs, otherVars>>

\* Mutant: removed rows are not matched.
MatchesListed(table, ip, mac) ==
  LET listed == {d \in Known(table) : ~table[d].deleted}
      byMac == {d \in listed : mac # NoMac /\ table[d].mac = mac}
  IN  IF byMac # {} THEN byMac ELSE {d \in listed : table[d].ip = ip /\ table[d].mac = NoMac}

\* Mutant: the fallback takes any row at the address.
MatchesAnyAtAddress(table, ip, mac) ==
  LET byMac == {d \in Known(table) : mac # NoMac /\ table[d].mac = mac}
  IN  IF byMac # {} THEN byMac ELSE {d \in Known(table) : table[d].ip = ip}

\* The rows upsert_device() may match: by MAC, deleted or not; failing that,
\* the ones at the address that have no MAC of their own.
Matches(table, ip, mac) ==
  LET byMac == {d \in Known(table) : mac # NoMac /\ table[d].mac = mac}
      byIp  == {d \in Known(table) : table[d].ip = ip /\ table[d].mac = NoMac}
  IN  IF byMac # {} THEN byMac ELSE byIp

\* Mutant: a removed row is updated but stays removed.
UpsertedInPlace(row, ip, mac) ==
  [row EXCEPT !.ip = ip, !.mac = IF mac = NoMac THEN @ ELSE mac,
              !.status = "online", !.seen = epoch]

\* Mutant: nmap's own word for a host that answered, unknown to the column.
UpsertedUp(row, ip, mac) ==
  [row EXCEPT !.ip = ip, !.mac = IF mac = NoMac THEN @ ELSE mac,
              !.status = "up", !.seen = epoch, !.deleted = FALSE]

\* The row after upsert_device(): address, MAC if one was seen, online, seen
\* now, and restored if it had been removed.
Upserted(row, ip, mac) ==
  [row EXCEPT !.ip = ip, !.mac = IF mac = NoMac THEN @ ELSE mac,
              !.status = "online", !.seen = epoch,
              !.deleted = FALSE, !.stamped = @ /\ ~row.deleted]

\* One host of the scan's output: found or created, and observed.
Upsert(s, ip, mac) ==
  /\ writer = s
  /\ ip \in scan[s].range \ scan[s].heard
  /\ LET found == Matches(draft, ip, mac)
     IN  \E d \in IF found # {} THEN found ELSE Ids \ Known(draft) :
           /\ draft' = [draft EXCEPT ![d] = Upserted(@, ip, mac)]
           /\ pending' = pending \union {[run |-> s, id |-> d, present |-> TRUE, ip |-> ip]}
  /\ scan' = [scan EXCEPT ![s].heard = @ \union {ip}]
  /\ UNCHANGED <<device, writer, epoch, obs, otherVars>>

\* Mutant: a device seen in the very epoch the scan began counts as absent.
AbsentInclusive(s) == {d \in Known(draft) : /\ ~draft[d].deleted
                                            /\ draft[d].ip \in scan[s].range
                                            /\ draft[d].seen <= scan[s].at}

\* mark_absent_devices_offline(): listed, in range, not seen since the start.
Absent(s) == {d \in Known(draft) : /\ ~draft[d].deleted
                                   /\ draft[d].ip \in scan[s].range
                                   /\ draft[d].seen < scan[s].at}

\* The writing session ends, leaving the table and the observations given.
EndWrite(s, table, observations, phase) ==
  /\ writer = s
  /\ writer' = NoScan
  /\ device' = table /\ draft' = table
  /\ obs' = observations /\ pending' = {}
  /\ scan' = [scan EXCEPT ![s].phase = phase]
  /\ UNCHANGED <<epoch, otherVars>>

\* The end of reconcile(): the absence sweep, its observations, the commit.
SweepAndCommit(s) ==
  LET absent == Absent(s)
      swept == [d \in Ids |-> IF d \in absent THEN [draft[d] EXCEPT !.status = "offline"]
                              ELSE draft[d]]
      unseen == {[run |-> s, id |-> d, present |-> FALSE, ip |-> draft[d].ip] : d \in absent}
  IN  EndWrite(s, swept, obs \union pending \union unseen, "success")

\* An exception that is not a failed flush: mark_failed() commits the draft.
BreakAndCommit(s) == EndWrite(s, draft, obs \union pending, "failed")

\* A failed flush or a crash: the draft is rolled back.
RollBack(s) == EndWrite(s, device, obs, "failed")

\* The scan ends without anything to reconcile.
ScanFails(s) ==
  /\ scan[s].phase = "scanning"
  /\ scan' = [scan EXCEPT ![s].phase = "failed"]
  /\ UNCHANGED <<device, draft, writer, epoch, pending, obs, otherVars>>

-----------------------------------------------------------------------------
(* Pings. *)

scanVars == <<writer, epoch, scan, pending, obs>>

\* run_diagnostic(): the route loads a listed device and starts ping(8).
PingLoad(p) ==
  /\ ping[p].phase = "idle"
  /\ \E d \in Known(device) :
       /\ ~device[d].deleted
       /\ ping' = [ping EXCEPT ![p] = [phase |-> "loaded", id |-> d,
                                       status |-> device[d].status, seen |-> 0]]
  /\ UNCHANGED <<device, draft, scanVars, removal, removed>>

\* ping(8) ends: some replies, or a loss of 100%.
PingAnswer(p) ==
  /\ ping[p].phase = "loaded"
  /\ \E a \in {"up", "down"} :
       ping' = [ping EXCEPT ![p] = [phase |-> a, id |-> @.id,
                                       status |-> @.status, seen |-> epoch]]
  /\ UNCHANGED <<device, draft, scanVars, removal, removed>>

\* Mutant: the whole loaded row is written back; it was loaded as listed.
PingCommitWholeRow(p) ==
  /\ ping[p].phase \in {"up", "down"}
  /\ writer = NoScan
  /\ device' = [device EXCEPT ![ping[p].id] =
       [@ EXCEPT !.status = IF ping[p].phase = "up" THEN "online" ELSE "offline",
                 !.deleted = FALSE, !.stamped = FALSE]]
  /\ draft' = device'
  /\ ping' = [ping EXCEPT ![p].phase = "done"]
  /\ UNCHANGED <<scanVars, removal, removed>>

\* _update_device_latency() and the commit of _finish(): the status reaches
\* the table only if it differs from the loaded one.
PingCommit(p) ==
  /\ ping[p].phase \in {"up", "down"}
  /\ writer = NoScan
  /\ LET up == ping[p].phase = "up"
         status == IF up THEN "online" ELSE "offline"
         row == device[ping[p].id]
     IN  device' = [device EXCEPT ![ping[p].id] =
           [row EXCEPT !.status = IF status # ping[p].status THEN status ELSE @,
                       !.seen = IF up THEN ping[p].seen ELSE @]]
  /\ draft' = device'
  /\ ping' = [ping EXCEPT ![p].phase = "done"]
  /\ UNCHANGED <<scanVars, removal, removed>>

\* Timed out, busy, unparsable, or its commit failed: nothing is written.
PingDropped(p) ==
  /\ ping[p].phase \in {"loaded", "up", "down"}
  /\ ping' = [ping EXCEPT ![p].phase = "done"]
  /\ UNCHANGED <<device, draft, scanVars, removal, removed>>

-----------------------------------------------------------------------------
(* Removals. *)

\* delete_device() loads the row; one already removed is accepted too.
RemovalLoad(q) ==
  /\ removal[q].phase = "idle"
  /\ \E d \in Known(device) :
       removal' = [removal EXCEPT ![q] = [phase |-> "loaded", id |-> d,
                                          deleted |-> device[d].deleted]]
  /\ UNCHANGED <<device, draft, scanVars, ping, removed>>

\* Its commit: deleted_at is new, is_deleted is written only if it was FALSE
\* when loaded, and the change event goes into the same transaction.
RemovalCommit(q) ==
  /\ removal[q].phase = "loaded"
  /\ writer = NoScan
  /\ LET row == device[removal[q].id]
     IN  device' = [device EXCEPT ![removal[q].id] =
           [row EXCEPT !.deleted = IF removal[q].deleted THEN @ ELSE TRUE, !.stamped = TRUE]]
  /\ draft' = device'
  /\ removed' = removed \union {<<q, removal[q].id>>}
  /\ removal' = [removal EXCEPT ![q].phase = "done"]
  /\ UNCHANGED <<scanVars, ping>>

-----------------------------------------------------------------------------
Next ==
  \/ \E s \in Scans :
       \/ BeginScan(s) \/ BeginReconcile(s) \/ ScanFails(s)
       \/ \E ip \in Ips, mac \in Macs \union {NoMac} : Upsert(s, ip, mac)
       \/ SweepAndCommit(s) \/ BreakAndCommit(s) \/ RollBack(s)
  \/ \E p \in Pings : PingLoad(p) \/ PingAnswer(p) \/ PingCommit(p) \/ PingDropped(p)
  \/ \E q \in Removals : RemovalLoad(q) \/ RemovalCommit(q)

Spec == Init /\ [][Next]_vars

-----------------------------------------------------------------------------
(* Properties. *)

\* At most one row per MAC, removed rows included, and at most one row
\* without a MAC per address: a host always has one row to come back to.
Identity(table) == \A d, e \in Known(table) :
  d # e => /\ table[d].mac # NoMac => table[d].mac # table[e].mac
           /\ table[d].ip = table[e].ip => table[d].mac # NoMac \/ table[e].mac # NoMac
IdentityIsUnique == Identity(device)

\* A row never disappears and a MAC, once learned, is never replaced: the
\* address fallback cannot hand one host's row to another.
RowsKeepTheirMac == [][\A d \in Known(device) :
  /\ d \in Known(device')
  /\ device[d].mac # NoMac => device'[d].mac = device[d].mac]_vars

\* No run says of the same device that it answered and that it did not.
NeverPresentAndAbsent == \A o, n \in obs :
  o.run = n.run /\ o.id = n.id => o.present = n.present

\* When a scan commits as a success it accounts for its whole range: what it
\* saw is listed and online, and every other listed device of the range is
\* offline or was seen by someone else since the scan began.
ScanAccountsForRange == [][\A s \in Scans :
  scan[s].phase = "reconciling" /\ scan'[s].phase = "success" =>
    \A d \in Known(device') :
      IF \E o \in obs' : o.run = s /\ o.id = d /\ o.present
      THEN ~device'[d].deleted /\ device'[d].status = "online"
      ELSE ~device'[d].deleted /\ device'[d].ip \in scan[s].range =>
             device'[d].status = "offline" \/ device'[d].seen >= scan[s].at]_vars

\* A removed device comes back only when a scan commits a sighting of it: no
\* slow ping or second request writes back a row it loaded before.
RemovalSticks == [][\A d \in Known(device) :
  device[d].deleted /\ ~device'[d].deleted =>
    \E o \in obs' \ obs : o.id = d /\ o.present]_vars

\* "A device that answers is online whatever the last scan concluded."  It is
\* not: of a device that was online when its ping began, an answer writes no
\* status, so a scan that marks it offline meanwhile keeps the last word.
AnswersBringBack == [][\A p \in Pings :
  ping[p].phase = "up" /\ ping'[p].phase = "done" /\ device' # device =>
    device'[ping[p].id].status = "online"]_vars
=============================================================================
