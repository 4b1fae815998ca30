----------------------------- MODULE ScanHistory -----------------------------
(***************************************************************************)
(* What scans recorded of each device, and what the history and comparison *)
(* pages make of it.                                                       *)
(*                                                                         *)
(* A run commits its observations together, and its status after them; a   *)
(* run's observations carry one time, by which they are read and by which  *)
(* retention deletes the oldest.  An observation is what the scan saw, or, *)
(* for a known device in its range that did not answer, the values last    *)
(* known.  Several addresses may answer with one device's MAC (proxy ARP): *)
(* each is then an observation of that device.                             *)
(* A comparison reads its two runs and their observations one query after  *)
(* the other, each seeing what is stored at that moment.                   *)
(***************************************************************************)
EXTENDS Integers, Sequences, FiniteSets

CONSTANTS
  Devices, Addresses, NoAddress,
  Ranges,         \* the sets of addresses scanned
  Ports, NotChecked,
  SourceLimit,    \* observations a timeline is made of
  MaxRun,         \* bound: runs
  MaxCompared     \* bound: the runs that overlap, close and are compared, before there are more

ASSUME HistoryAssumption ==
  /\ IsFiniteSet(Devices)
  /\ Addresses \subseteq Nat \ {NoAddress} /\ IsFiniteSet(Addresses)
  /\ Ranges \subseteq SUBSET Addresses
  /\ \A open \in SUBSET Ports : open # NotChecked
  /\ SourceLimit \in Nat \ {0} /\ MaxRun \in Nat /\ MaxCompared \in Nat

VARIABLES
  run,        \* the runs' rows
  observed,   \* every observation committed, in the order of their times
  pruned,     \* how many of them, the oldest, retention has deleted
  address,    \* the address each device was last seen at
  compared    \* a request for a comparison

historyVars == <<run, observed, pruned, address, compared>>

Runs == 1..MaxRun
Run == [status : {"none", "running", "success", "failed"}, range : Ranges \union {{}},
        ports : {"unknown", "checked", "unchecked"}]   \* scanned_ports
NoRun == [status |-> "none", range |-> {}, ports |-> "unknown"]

Observation == [run : Runs, device : Devices, present : BOOLEAN, ip : Addresses,
                ports : (SUBSET Ports) \union {NotChecked}]
Missed == [present |-> FALSE, ip |-> NoAddress, ports |-> NotChecked]

Sides == {"base", "target"}
Comparison == [
  phase : {"closed", "latest", "runs", "base", "target", "done"},
  base : 0..MaxRun, target : 0..MaxRun,
  \* As loaded: statuses, scanned_ports, and the observations by their ids.
  status : [Sides -> {"none", "running", "success", "failed"}],
  ports : [Sides -> {"unknown", "checked", "unchecked"}],
  rows : [Sides -> SUBSET Nat]]
Closed == [phase |-> "closed", base |-> 0, target |-> 0,
           status |-> [s \in Sides |-> "none"],
           ports |-> [s \in Sides |-> "unknown"],
           rows |-> [s \in Sides |-> {}]]

HistoryTypeOK ==
  /\ run \in [Runs -> Run]
  /\ observed \in Seq(Observation) /\ pruned \in 0..Len(observed)
  /\ address \in [Devices -> Addresses \union {NoAddress}]
  /\ compared \in Comparison

\* The first run may be one recorded before observations were.
HistoryInit ==
  /\ \E first \in {NoRun} \union [status : {"success"}, range : Ranges, ports : {"unknown"}] :
       run = [r \in Runs |-> IF r = 1 THEN first ELSE NoRun]
  /\ observed = <<>> /\ pruned = 0
  /\ address = [d \in Devices |-> NoAddress]
  /\ compared = Closed

\* The table of observations: those not deleted.
Stock == (pruned + 1)..Len(observed)

\* run_observations()
Observations(r) == {i \in Stock : observed[i].run = r}

\* The last of some observations.
Latest(rows) == CHOOSE i \in rows : \A j \in rows : j <= i

-----------------------------------------------------------------------------
(* Scans and retention. *)

StartRun(r) ==
  /\ run[r].status = "none" /\ \A q \in 1..(r - 1) : run[q].status # "none"
  /\ r > MaxCompared => compared = Closed /\ \A q \in Runs : run[q].status # "running"
  /\ \E range \in Ranges :
       run' = [run EXCEPT ![r] = [NoRun EXCEPT !.status = "running", !.range = range]]
  /\ UNCHANGED <<observed, pruned, address, compared>>

\* Mutant: a host's ports are recorded as an empty list when none were asked for.
PortsSeen(checked, open) == open

\* _observation(): without port detection the ports are "not looked at".
PortsRecorded(checked, open) == IF checked THEN open ELSE NotChecked

\* Every member of a finite set, one after the other.
Orderings(set) == {order \in [1..Cardinality(set) -> set] : \A x \in set : \E i \in DOMAIN order : order[i] = x}

\* _observation(): the scan's values, of the device each address was matched to.
Answers(r, answering, host, checked, open) == [i \in DOMAIN answering |->
  [run |-> r, device |-> host[answering[i]], present |-> TRUE, ip |-> answering[i],
   ports |-> PortsRecorded(checked, open[answering[i]])]]

\* The devices a scan missed, as they were last known.
Silences(r, absent) == [i \in DOMAIN absent |->
  [run |-> r, device |-> absent[i], present |-> FALSE, ip |-> address[absent[i]], ports |-> NotChecked]]

\* upsert_device(): a device is where it answered last.
AddressAfter(d, answering, host) ==
  LET at == {i \in DOMAIN answering : host[answering[i]] = d}
  IN  IF at = {} THEN address[d] ELSE answering[Latest(at)]

\* The commit of reconcile(): the answering addresses in the scan's order,
\* then the known devices of the range that did not answer.
CommitObservations(r, checked, host, open, answering, absent) ==
  /\ \A i, j \in DOMAIN answering : i < j => answering[i] < answering[j]
  /\ run' = [run EXCEPT ![r].ports = IF checked THEN "checked" ELSE "unchecked"]
  /\ observed' = observed \o Answers(r, answering, host, checked, open) \o Silences(r, absent)
  /\ address' = [d \in Devices |-> AddressAfter(d, answering, host)]
  /\ UNCHANGED <<pruned, compared>>

\* reconcile(), for any answer to the scan.
StoreObservations(r) ==
  /\ run[r].status = "running" /\ run[r].ports = "unknown"
  /\ \E checked \in BOOLEAN, up \in SUBSET run[r].range :
     \E host \in [up -> Devices], open \in [up -> IF checked THEN SUBSET Ports ELSE {{}}] :
     \E answering \in Orderings(up),
        absent \in Orderings({d \in Devices : (\A a \in up : host[a] # d) /\ address[d] \in run[r].range}) :
       CommitObservations(r, checked, host, open, answering, absent)

\* _finish(), or what closes a run that broke or was interrupted.
FinishRun(r) ==
  /\ run[r].status = "running" /\ r <= MaxCompared
  /\ \E status \in {"success", "failed"} :
       /\ status = "success" => run[r].ports # "unknown"
       /\ run' = [run EXCEPT ![r].status = status]
  /\ UNCHANGED <<observed, pruned, address, compared>>

\* prune(): observations of one time, a run's, go together.
PruneObservations(n) ==
  /\ n \in Stock
  /\ \A i \in 1..n, j \in (n + 1)..Len(observed) : observed[i].run # observed[j].run
  /\ pruned' = n
  /\ UNCHANGED <<run, observed, address, compared>>

-----------------------------------------------------------------------------
(* The timeline: scan_events() over the device's latest observations. *)

\* The observations a device's timeline is made of.
Visible(d) ==
  LET own == {i \in Stock : observed[i].device = d}
  IN  {i \in own : Cardinality({j \in own : j > i}) < SourceLimit}

\* diff_observations(): how two sightings differ.
Diff(before, after) ==
  LET looked == NotChecked \notin {before.ports, after.ports}
  IN  [moved |-> before.ip # after.ip,
       opened |-> IF looked THEN after.ports \ before.ports ELSE {},
       closed |-> IF looked THEN before.ports \ after.ports ELSE {}]
Same == [moved |-> FALSE, opened |-> {}, closed |-> {}]

\* Mutant: a sighting is compared with the observation before it.
ReferencePrevious(state) == state.previous

\* A sighting is compared with the last one.
Reference(state) == state.sighting

\* The loop's variables, and the event its last turn added: its title, if it
\* added one, and its details.
Start == [first |-> TRUE, previous |-> Missed, known |-> FALSE, sighting |-> Missed,
          titles |-> {}, diff |-> Same]

\* The title of an observation, if it makes an event.
Titles(state, o) ==
  LET quiet == ~state.previous.present
  IN  CASE ~o.present -> IF state.first \/ ~quiet THEN {"silent"} ELSE {}
        [] o.present /\ ~state.known -> {"recorded"}
        [] OTHER -> IF quiet THEN {"returned"}
                    ELSE IF Diff(Reference(state), o) # Same THEN {"changed"} ELSE {}

\* One turn of the loop: observation o.
Told(state, o) ==
  [first |-> FALSE, previous |-> o, known |-> state.known \/ o.present,
   sighting |-> IF o.present THEN o ELSE state.sighting,
   titles |-> Titles(state, o),
   diff |-> IF o.present /\ state.known THEN Diff(Reference(state), o) ELSE Same]

\* The loop's state once the device's observations up to i were told.
Timeline(d) ==
  LET told[i \in 0..Len(observed)] ==
        IF i = 0 THEN Start
        ELSE IF i \in Visible(d) THEN Told(told[i - 1], observed[i]) ELSE told[i - 1]
  IN  told

-----------------------------------------------------------------------------
(* The comparison. *)

Few == \A r \in Runs : r > MaxCompared => run[r].status = "none"

\* runs_with_results()
WithResults == {r \in Runs : run[r].status = "success" /\ Observations(r) # {}}

\* compare_runs(): with nothing chosen, the latest run that has results.
CompareLatest ==
  /\ compared.phase = "closed" /\ Few
  /\ \E r \in WithResults :
       /\ \A q \in WithResults : q <= r
       /\ compared' = [Closed EXCEPT !.phase = "latest", !.target = r]
  /\ UNCHANGED <<run, observed, pruned, address>>

\* previous_comparable_run(): the latest before it of the same range.
ComparePrevious ==
  LET earlier == {q \in WithResults : q < compared.target /\ run[q].range = run[compared.target].range}
  IN  /\ compared.phase = "latest"
      /\ \/ /\ earlier = {} /\ compared' = Closed
         \/ \E q \in earlier :
              /\ \A p \in earlier : p <= q
              /\ compared' = [compared EXCEPT !.phase = "runs", !.base = q]
      /\ UNCHANGED <<run, observed, pruned, address>>

\* Two runs the operator chose; the earlier is the base.
CompareChosen(b, t) ==
  /\ compared.phase = "closed" /\ Few
  /\ b < t /\ run[t].status # "none"
  /\ compared' = [Closed EXCEPT !.phase = "runs", !.base = b, !.target = t]
  /\ UNCHANGED <<run, observed, pruned, address>>

\* The runs are loaded, then each run's observations.
CompareLoad ==
  /\ compared.phase = "runs"
  /\ compared' = [compared EXCEPT !.phase = "base",
       !.status = [s \in Sides |-> run[compared[s]].status],
       !.ports = [s \in Sides |-> run[compared[s]].ports]]
  /\ UNCHANGED <<run, observed, pruned, address>>

CompareRows(side, next) ==
  /\ compared.phase = side
  /\ compared' = [compared EXCEPT !.phase = next, !.rows[side] = Observations(compared[side])]
  /\ UNCHANGED <<run, observed, pruned, address>>

CompareClose ==
  /\ compared.phase = "done"
  /\ compared' = Closed
  /\ UNCHANGED <<run, observed, pruned, address>>

\* Mutant: the status alone decides.
HasHostResultsByStatus(side) == compared.status[side] = "success"

HasHostResults(side) == compared.status[side] = "success" /\ compared.rows[side] # {}

\* The last sighting of each device that the rows hold; Missed for the others.
Sightings(side) ==
  [d \in Devices |->
    LET seen == {i \in compared.rows[side] : observed[i].device = d /\ observed[i].present}
    IN  IF seen = {} THEN Missed ELSE observed[Latest(seen)]]

Report ==
  LET before == Sightings("base")
      after == Sightings("target")
      portsCompared == compared.ports = [s \in Sides |-> "checked"]
      comparable == HasHostResults("base") /\ HasHostResults("target")
      listed == {d \in Devices : comparable /\ (before[d].present \/ after[d].present)}
      gone == {d \in listed : ~after[d].present}
      both == {d \in listed : before[d].present /\ after[d].present}
      diff == [d \in both |-> IF portsCompared THEN Diff(before[d], after[d])
                              ELSE [Same EXCEPT !.moved = before[d].ip # after[d].ip]]
      missing == {d \in gone : before[d].ip \in run[compared.target].range}
  IN  [comparable |-> comparable,
       added |-> {d \in listed : ~before[d].present},
       missing |-> missing, outside |-> gone \ missing,
       changed |-> {d \in both : diff[d] # Same},
       unchanged |-> {d \in both : diff[d] = Same},
       closed |-> [d \in both |-> diff[d].closed]]

-----------------------------------------------------------------------------
HistoryNext ==
  \/ \E r \in Runs : StartRun(r) \/ StoreObservations(r) \/ FinishRun(r)
  \/ \E n \in DOMAIN observed : PruneObservations(n)
  \/ CompareLatest \/ ComparePrevious
  \/ \E b, t \in Runs : CompareChosen(b, t)
  \/ CompareLoad
  \/ CompareRows("base", "target") \/ CompareRows("target", "done")
  \/ CompareClose

HistorySpec == HistoryInit /\ [][HistoryNext]_historyVars

-----------------------------------------------------------------------------
(* Properties. *)

\* "Did not answer - listed once per silent spell, not once per scan."
SilenceToldOnce(shown, told) == \A i \in shown : ~observed[i].present =>
  \E first \in shown :
    {j \in shown : /\ j <= i /\ told[j].titles = {"silent"}
                   /\ \A m \in shown : j <= m /\ m <= i => ~observed[m].present} = {first}

\* Sightings with none between them.
Consecutive(shown, p, n) ==
  /\ p < n /\ observed[p].present /\ observed[n].present
  /\ \A i \in shown : p < i /\ i < n => ~observed[i].present

\* A sighting is told exactly if it differs from the one before it, silent
\* scans apart, or if it ends a silence: "back after silence, compared with
\* the last time it was seen, so a change made while it was away still shows".
ChangesTold(shown, told) == \A p, n \in shown : Consecutive(shown, p, n) =>
  LET before == observed[p]
      after == observed[n]
      looked == run[before.run].ports = "checked" /\ run[after.run].ports = "checked"
      event == told[n]
  IN  /\ event.diff.moved <=> before.ip # after.ip
      /\ event.diff.closed = {q \in Ports : looked /\ q \in before.ports /\ q \notin after.ports}
      /\ event.diff.opened = {q \in Ports : looked /\ q \notin before.ports /\ q \in after.ports}
      /\ event.titles = IF \E i \in shown : p < i /\ i < n THEN {"returned"}
                        ELSE IF event.diff # Same THEN {"changed"} ELSE {}

\* Every timeline lists the transitions of what its scans recorded, each once
\* and nothing else, and calls no port closed that a scan did not look at.
TimelineIsTrue == \A d \in Devices :
  SilenceToldOnce(Visible(d), Timeline(d)) /\ ChangesTold(Visible(d), Timeline(d))

\* The device answered the run, whether or not that is still stored.
Answered(r, d) == \E i \in DOMAIN observed :
  observed[i].run = r /\ observed[i].device = d /\ observed[i].present

\* A comparison says of every device what the two scans found, though runs
\* finish and retention deletes observations between its queries, or it says
\* nothing of any device; it takes no host for gone because a scan's
\* observations are, and calls no port closed that a scan did not look at.
ComparisonIsTrue == compared.phase = "done" =>
  LET b == compared.base
      t == compared.target
      report == Report
  IN  IF report.comparable
      THEN \A d \in Devices :
             /\ d \in report.added <=> Answered(t, d) /\ ~Answered(b, d)
             /\ d \in report.missing \union report.outside <=> Answered(b, d) /\ ~Answered(t, d)
             /\ d \in report.changed \union report.unchanged <=> Answered(b, d) /\ Answered(t, d)
             /\ d \in report.changed /\ report.closed[d] # {} =>
                  run[b].ports = "checked" /\ run[t].ports = "checked"
      ELSE \A list \in {report.added, report.missing, report.outside, report.changed, report.unchanged} :
             list = {}
=============================================================================
