------------------------------ MODULE AuditLog ------------------------------
(***************************************************************************)
(* GET /audit: one timeline over four tables, read a page at a time with a *)
(* timestamp as the cursor, while records arrive and retention deletes     *)
(* them.                                                                   *)
(*                                                                         *)
(* A record's time is taken before its commit, so records also appear      *)
(* behind the cursor.  Each of a page's four queries sees what is stored   *)
(* at that moment.  A discovery run's time is SQLite's CURRENT_TIMESTAMP:  *)
(* whole seconds, stored without a fraction, while the cursor is bound     *)
(* with one; as text the former is less, so "older than the cursor" holds  *)
(* of a run whose time is the cursor's.                                    *)
(***************************************************************************)
EXTENDS Integers, Sequences, FiniteSets

CONSTANTS
  Records,      \* rows of the four tables
  PageSize,
  Second,       \* ticks of the clock in a second
  MaxTime       \* bound: the times of records

ASSUME AuditAssumption ==
  /\ PageSize \in Nat \ {0} /\ Second \in Nat \ {0} /\ MaxTime \in Nat
  /\ IsFiniteSet(Records)

VARIABLES
  log,    \* each record: its table, its time, whether it is stored
  pager   \* the reader, from the first page to the last

vars == <<log, pager>>

Sources == <<"diagnostic", "action", "discovery", "change">>
Kinds == {Sources[i] : i \in 1..4}
Pruned == {"diagnostic", "action"}
Time == 0..MaxTime
NoCursor == MaxTime + 1   \* the first page

Entry == [kind : Kinds, when : Time, state : {"none", "stored", "deleted"}]
Pager == [
  phase : {"closed", "reading", "shown", "ended"},
  kind : Kinds \union {"all"},
  cursor : 0..NoCursor,
  queried : SUBSET Kinds,    \* the tables queried for this page
  entries : SUBSET Records,  \* fetched for this page
  had : SUBSET Records,      \* stored when the first page was asked for
  shown : SUBSET Records,
  repeated : SUBSET Records, \* shown on two pages
  cursors : SUBSET Time]     \* the cursors followed (all four: history)
FirstPage == [
  phase |-> "closed", kind |-> "all", cursor |-> NoCursor, queried |-> {}, entries |-> {},
  had |-> {}, shown |-> {}, repeated |-> {}, cursors |-> {}]

TypeOK ==
  /\ log \in [Records -> Entry]
  /\ pager \in Pager

Init ==
  /\ log = [r \in Records |-> [kind |-> "change", when |-> 0, state |-> "none"]]
  /\ pager = FirstPage

Stored == {r \in Records : log[r].state = "stored"}

-----------------------------------------------------------------------------
(* The tables. *)

\* What a record that began at t says: a run's second, the others' moment.
Stamp(kind, t) == IF kind = "discovery" THEN t - (t % Second) ELSE t

\* A record is committed, of something that began at any time: a slow command
\* is recorded after quicker ones that began later.
Record(r) ==
  /\ log[r].state = "none"
  /\ \E kind \in Kinds, t \in Time :
       log' = [log EXCEPT ![r] = [kind |-> kind, when |-> Stamp(kind, t), state |-> "stored"]]
  /\ UNCHANGED pager

\* prune(): the runs and the change log are left alone.
Prune(cutoff) ==
  /\ log' = [r \in Records |->
       IF log[r].state = "stored" /\ log[r].kind \in Pruned /\ log[r].when < cutoff
       THEN [log[r] EXCEPT !.state = "deleted"] ELSE log[r]]
  /\ log' # log
  /\ UNCHANGED pager

-----------------------------------------------------------------------------
(* The reader. *)

\* The first n of a set of records, newest first; records of one time come in
\* any order.
Newest(n, set) == {top \in SUBSET set :
  /\ Cardinality(top) = IF Cardinality(set) < n THEN Cardinality(set) ELSE n
  /\ \A r \in top, q \in set \ top : log[r].when >= log[q].when}

\* The first page, of one table or of all.
Open(kind) ==
  /\ pager' = [FirstPage EXCEPT !.phase = "reading", !.kind = kind, !.had = Stored]
  /\ UNCHANGED log

\* Mutant: the comparison includes the cursor.
OlderOrEqual(r) == pager.cursor = NoCursor \/ log[r].when <= pager.cursor

\* started_at < cursor, on the stored text.
Older(r) ==
  \/ log[r].when < pager.cursor
  \/ log[r].kind = "discovery" /\ log[r].when = pager.cursor

\* The newest n records of a table that are older than the cursor.
Query(kind, n) == Newest(n, {r \in Stored : log[r].kind = kind /\ Older(r)})

\* Mutant: a table is not over-fetched.
Limit == PageSize

\* Every table may fill the page alone and show that there is more.
OverFetch == PageSize + 1

Asked == IF pager.kind = "all" THEN Kinds ELSE {pager.kind}

\* One query: the next table of those asked for.
Fetch(i) ==
  /\ pager.phase = "reading"
  /\ Sources[i] \in Asked \ pager.queried
  /\ \A j \in 1..(i - 1) : Sources[j] \in Asked => Sources[j] \in pager.queried
  /\ \E rows \in Query(Sources[i], OverFetch) :
       pager' = [pager EXCEPT !.queried = @ \union {Sources[i]}, !.entries = @ \union rows]
  /\ UNCHANGED log

\* Merged, sorted and cut; with more to show, the last entry's time is the
\* cursor of the link to older entries.
Show ==
  /\ pager.phase = "reading" /\ pager.queried = Asked
  /\ \E page \in Newest(PageSize, pager.entries) :
       LET next == [pager EXCEPT !.shown = @ \union page, !.repeated = @ \union (pager.shown \intersect page)]
       IN  IF Cardinality(pager.entries) > PageSize
           THEN \E last \in page :
                  /\ \A r \in page : log[r].when >= log[last].when
                  /\ pager' = [next EXCEPT !.phase = "shown", !.cursor = log[last].when]
           ELSE pager' = [next EXCEPT !.phase = "ended"]
  /\ UNCHANGED log

\* The link is followed.
Follow ==
  /\ pager.phase = "shown"
  /\ pager' = [pager EXCEPT !.phase = "reading", !.queried = {}, !.entries = {},
                            !.cursors = @ \union {pager.cursor}]
  /\ UNCHANGED log

Next ==
  \/ \E r \in Records : Record(r)
  \/ \E cutoff \in Time : Prune(cutoff)
  \/ \E kind \in Kinds \union {"all"} : Open(kind)
  \/ \E i \in 1..4 : Fetch(i)
  \/ Show \/ Follow

Spec == Init /\ [][Next]_vars

-----------------------------------------------------------------------------
(* Properties. *)

\* Paging by time never shows a record twice, but a discovery run that ended
\* a page: that one comes back on the next.
OnlyRunsRepeat == \A r \in pager.repeated :
  log[r].kind = "discovery" /\ log[r].when \in pager.cursors

\* A reader who comes to the end has seen every record that was stored when
\* they began and still is, whatever was added or pruned meanwhile, except
\* one that shares its time with the last entry of a page.
WalkIsComplete == pager.phase = "ended" =>
  \A r \in pager.had \intersect Stored :
    \/ r \in pager.shown
    \/ log[r].kind \notin Asked
    \/ log[r].kind # "discovery" /\ log[r].when \in pager.cursors
=============================================================================
