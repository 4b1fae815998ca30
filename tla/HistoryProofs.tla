----------------------------- MODULE HistoryProofs -----------------------------
(***************************************************************************)
(* Proofs about AuditLog, for any records, page size and clock, and about  *)
(* ScanHistory, for any devices, ranges, ports and number of runs.         *)
(*                                                                         *)
(* The audit log.  While a page is read, whatever the reader is still owed *)
(* lies beyond the cursor; and what a query left out is outnumbered by     *)
(* what it fetched: there is one row more of its table, none of them       *)
(* older, than fits on the page.                                           *)
(*                                                                         *)
(* Comparisons.  What a comparison loaded of a run is all or nothing, for  *)
(* retention takes a run's observations together and a run records them    *)
(* once; so what it says of two runs stays true of what they recorded.     *)
(*                                                                         *)
(* Timelines.  After each turn the loop's variables are the first, the     *)
(* last and the last present observation it has read.  That is shown for   *)
(* every turn by way of the first one at which it would fail: the least    *)
(* member of a set of numbers stands in for induction.                     *)
(***************************************************************************)
EXTENDS AuditLog, ScanHistory, FiniteSetTheorems, SequenceTheorems, WellFoundedInduction, TLAPS

-----------------------------------------------------------------------------
(* The audit log.                                                          *)

\* The records that are or were stored: kind and time no longer change.
Written == {r \in Records : log[r].state # "none"}

\* What the reader holds was written before.
ReaderInv == pager.entries \union pager.had \union pager.shown \union pager.repeated \subseteq Written

\* Where the walk has got to: nothing fetched is before the cursor, nothing
\* shown is beyond it, and the cursor was followed.
CursorInv ==
  /\ pager.phase \in {"reading", "shown"} => \A r \in pager.shown : log[r].when >= pager.cursor
  /\ pager.phase = "reading" =>
       /\ \A r \in pager.entries : Older(r)
       /\ pager.cursor = NoCursor \/ pager.cursor \in pager.cursors
       /\ pager.queried \subseteq Asked
  /\ pager.phase = "shown" => pager.cursor \in Time

\* What the reader was promised: asked for, there from the start, and there.
Promised == {r \in pager.had \intersect Stored : log[r].kind \in Asked}

\* Exempt: at the time of a cursor, and not a run.
Tied(r, cursors) == log[r].kind # "discovery" /\ log[r].when \in cursors

\* What is promised and not settled is beyond the cursor.
OwedInv ==
  /\ pager.phase = "reading" =>
       \A r \in Promised : r \in pager.shown \/ Tied(r, pager.cursors) \/ Older(r)
  /\ pager.phase = "shown" =>
       \A r \in Promised : r \in pager.shown \/ Tied(r, pager.cursors \union {pager.cursor}) \/ Older(r)

\* Rows of one page, and one more, that are no older than r.
Outnumbered(r) == \E rows \in SUBSET pager.entries :
  Cardinality(rows) = OverFetch /\ \A q \in rows : log[q].when >= log[r].when

\* A promised row of a table that was queried was fetched or outnumbered.
QueriedInv == pager.phase = "reading" =>
  \A r \in Promised : log[r].kind \in pager.queried /\ Older(r) =>
    r \in pager.entries \/ Outnumbered(r)

IInv ==
  /\ TypeOK /\ ReaderInv /\ CursorInv /\ OwedInv /\ QueriedInv
  /\ OnlyRunsRepeat /\ WalkIsComplete

-----------------------------------------------------------------------------
(* Sets of records. *)

\* The newest n of a set: all of it, or n of it.
LEMMA NewestOf ==
  ASSUME TypeOK, NEW n \in Nat, NEW set \in SUBSET Records, NEW top \in Newest(n, set)
  PROVE  /\ top \subseteq set
         /\ \A r \in top, q \in set \ top : log[r].when >= log[q].when
         /\ Cardinality(set) <= n => top = set
         /\ Cardinality(set) > n => Cardinality(top) = n
  <1>1. IsFiniteSet(set)
    BY FS_Subset, AuditAssumption
  <1>2. top \subseteq set /\ IsFiniteSet(top)
    BY <1>1, FS_Subset DEF Newest
  <1>3. Cardinality(set) \in Nat /\ Cardinality(top) \in Nat
    BY <1>1, <1>2, FS_CardinalityType
  <1>4. Cardinality(top) = IF Cardinality(set) < n THEN Cardinality(set) ELSE n
    BY DEF Newest
  <1>5. Cardinality(top) = Cardinality(set) => top = set
    BY <1>1, <1>2, FS_Subset
  <1> QED
    BY <1>2, <1>3, <1>4, <1>5 DEF Newest

\* A larger set of records has a member outside a smaller one.
LEMMA OneMore ==
  ASSUME NEW small \in SUBSET Records, NEW large \in SUBSET Records,
         Cardinality(large) > Cardinality(small)
  PROVE  \E r \in large : r \notin small
  <1> SUFFICES ASSUME large \subseteq small
               PROVE  FALSE
    OBVIOUS
  <1>1. IsFiniteSet(small) /\ IsFiniteSet(large)
    BY FS_Subset, AuditAssumption
  <1>2. Cardinality(large) <= Cardinality(small)
    BY <1>1, FS_Subset
  <1>3. Cardinality(large) \in Nat /\ Cardinality(small) \in Nat
    BY <1>1, FS_CardinalityType
  <1> QED
    BY <1>2, <1>3

\* A run's second is a time.
LEMMA StampIsTime ==
  ASSUME NEW kind \in Kinds, NEW t \in Time
  PROVE  Stamp(kind, t) \in Time
  <1>1. t % Second \in 0..(Second - 1)
    BY AuditAssumption DEF Time
  <1>2. t < Second => t % Second = t
    BY AuditAssumption DEF Time
  <1> QED
    BY <1>1, <1>2, AuditAssumption DEF Stamp, Time

-----------------------------------------------------------------------------
(* The initial state and the tables. *)

LEMMA InitIInv == Init => IInv
  <1> SUFFICES ASSUME Init
               PROVE  IInv
    OBVIOUS
  <1>1. TypeOK
    BY AuditAssumption DEF Init, TypeOK, Entry, Pager, FirstPage, Kinds, Sources, Time, NoCursor
  <1> QED
    BY <1>1 DEF Init, IInv, FirstPage, ReaderInv, CursorInv, OwedInv, QueriedInv, OnlyRunsRepeat, WalkIsComplete

\* What was written keeps its kind and time, and once deleted stays so.
LEMMA TableStep ==
  ASSUME TypeOK, \/ \E r \in Records : Record(r)
                 \/ \E cutoff \in Time : Prune(cutoff)
  PROVE  /\ UNCHANGED pager /\ TypeOK'
         /\ \A r \in Written : /\ r \in Written'
                               /\ log'[r].kind = log[r].kind /\ log'[r].when = log[r].when
                               /\ r \in Stored' => r \in Stored
  <1>1. CASE \E r \in Records : Record(r)
    <2>1. PICK r \in Records, kind \in Kinds, t \in Time :
            /\ log[r].state = "none" /\ UNCHANGED pager
            /\ log' = [log EXCEPT ![r] = [kind |-> kind, when |-> Stamp(kind, t), state |-> "stored"]]
      BY <1>1 DEF Record
    <2>2. Stamp(kind, t) \in Time
      BY StampIsTime
    <2> QED
      BY <2>1, <2>2 DEF TypeOK, Entry, Written, Stored
  <1>2. CASE \E cutoff \in Time : Prune(cutoff)
    <2>1. PICK cutoff \in Time : Prune(cutoff)
      BY <1>2
    <2>2. UNCHANGED pager /\ log' \in [Records -> Entry]
      BY <2>1 DEF Prune, TypeOK, Entry
    <2>3. ASSUME NEW r \in Records
          PROVE  /\ log'[r].kind = log[r].kind /\ log'[r].when = log[r].when
                 /\ log[r].state # "none" => log'[r].state # "none"
                 /\ log'[r].state = "stored" => log[r].state = "stored"
      BY <2>1 DEF Prune, TypeOK, Entry
    <2> QED
      BY <2>2, <2>3 DEF TypeOK, Written, Stored
  <1> QED
    BY <1>1, <1>2

LEMMA TableKeepsIInv ==
  ASSUME IInv, \/ \E r \in Records : Record(r)
               \/ \E cutoff \in Time : Prune(cutoff)
  PROVE  IInv'
  <1>0. TypeOK /\ ReaderInv /\ CursorInv /\ OwedInv /\ QueriedInv /\ OnlyRunsRepeat /\ WalkIsComplete
    BY DEF IInv
  <1>1. /\ UNCHANGED pager /\ TypeOK'
        /\ \A r \in Written : /\ r \in Written'
                              /\ log'[r].kind = log[r].kind /\ log'[r].when = log[r].when
                              /\ r \in Stored' => r \in Stored
    BY <1>0, TableStep
  <1>2. \A r \in Written : (Older(r)' <=> Older(r)) /\ \A c : (Tied(r, c)' <=> Tied(r, c))
    BY <1>1 DEF Older, Tied, NoCursor
  <1>3. UNCHANGED Asked
    BY <1>1 DEF Asked
  <1>4. Promised' \subseteq Promised /\ Promised \subseteq Written
    BY <1>0, <1>1, <1>3 DEF Promised, ReaderInv, Stored, Written
  <1>5. ReaderInv'
    BY <1>0, <1>1 DEF ReaderInv
  <1>6. CursorInv'
    BY <1>0, <1>1, <1>2, <1>3 DEF CursorInv, ReaderInv, NoCursor
  <1>7. OwedInv'
    BY <1>0, <1>1, <1>2, <1>4 DEF OwedInv, Tied
  <1>8. ASSUME NEW r \in Promised', Outnumbered(r)
        PROVE  Outnumbered(r)'
    <2>1. PICK rows \in SUBSET pager.entries : Cardinality(rows) = OverFetch /\ \A q \in rows : log[q].when >= log[r].when
      BY <1>8 DEF Outnumbered
    <2>2. \A q \in rows : log'[q].when >= log'[r].when
      BY <1>0, <1>1, <1>4, <2>1 DEF ReaderInv
    <2> QED
      BY <1>1, <2>1, <2>2 DEF Outnumbered, OverFetch
  <1>9. QueriedInv'
    BY <1>0, <1>1, <1>2, <1>4, <1>8 DEF QueriedInv
  <1>10. OnlyRunsRepeat'
    BY <1>0, <1>1 DEF OnlyRunsRepeat, ReaderInv
  <1>11. WalkIsComplete'
    BY <1>0, <1>1, <1>3 DEF WalkIsComplete, ReaderInv, Stored, Written
  <1> QED
    BY <1>1, <1>5, <1>6, <1>7, <1>9, <1>10, <1>11 DEF IInv

-----------------------------------------------------------------------------
(* The reader. *)

LEMMA OpenStep ==
  ASSUME IInv, NEW kind \in Kinds \union {"all"}, Open(kind)
  PROVE  IInv'
  <1>0. TypeOK
    BY DEF IInv
  <1>1. /\ UNCHANGED log
        /\ pager' = [FirstPage EXCEPT !.phase = "reading", !.kind = kind, !.had = Stored]
    BY DEF Open
  <1>2. /\ pager'.phase = "reading" /\ pager'.had = Stored /\ pager'.cursor = NoCursor
        /\ pager'.queried = {} /\ pager'.entries = {} /\ pager'.shown = {} /\ pager'.repeated = {}
        /\ pager'.kind = kind /\ pager'.cursors = {}
    BY <1>1 DEF FirstPage
  <1>3. Stored \subseteq Written /\ Written \subseteq Records /\ UNCHANGED <<Stored, Written>>
    BY <1>1 DEF Stored, Written
  <1>4. TypeOK'
    <2>1. pager' = [phase |-> "reading", kind |-> kind, cursor |-> NoCursor, queried |-> {},
                    entries |-> {}, had |-> Stored, shown |-> {}, repeated |-> {}, cursors |-> {}]
      BY <1>1 DEF FirstPage
    <2>2. NoCursor \in 0..NoCursor /\ Stored \subseteq Records
      BY AuditAssumption DEF NoCursor, Stored
    <2> QED
      BY <1>0, <1>1, <2>1, <2>2 DEF TypeOK, Pager
  <1>5. \A r \in Records : Older(r)'
    <2>1. \A r \in Records : log[r].when \in 0..MaxTime
      BY <1>0 DEF TypeOK, Entry, Time
    <2> QED
      BY <1>1, <1>2, <2>1, AuditAssumption DEF Older, NoCursor
  <1>6. ReaderInv' /\ CursorInv' /\ OnlyRunsRepeat'
    BY <1>2, <1>3 DEF ReaderInv, CursorInv, OnlyRunsRepeat
  <1>7. OwedInv' /\ QueriedInv' /\ WalkIsComplete'
    BY <1>2, <1>3, <1>5 DEF OwedInv, QueriedInv, WalkIsComplete, Promised
  <1> QED
    BY <1>4, <1>6, <1>7 DEF IInv

LEMMA FetchStep ==
  ASSUME IInv, NEW i \in 1..4, Fetch(i)
  PROVE  IInv'
  <1>0. TypeOK /\ ReaderInv /\ CursorInv /\ OwedInv /\ QueriedInv /\ OnlyRunsRepeat
    BY DEF IInv
  <1> DEFINE kind == Sources[i]
             wanted == {r \in Stored : log[r].kind = kind /\ Older(r)}
  <1>1. PICK rows \in Newest(OverFetch, wanted) :
          pager' = [pager EXCEPT !.queried = @ \union {kind}, !.entries = @ \union rows]
    BY DEF Fetch, Query
  <1>2. pager.phase = "reading" /\ kind \in Asked /\ UNCHANGED log
    BY DEF Fetch
  <1>3. wanted \in SUBSET Records /\ OverFetch \in Nat
    BY AuditAssumption DEF Stored, OverFetch
  <1> HIDE DEF wanted
  <1>4. /\ rows \subseteq wanted
        /\ \A r \in rows, q \in wanted \ rows : log[r].when >= log[q].when
        /\ Cardinality(wanted) <= OverFetch => rows = wanted
        /\ Cardinality(wanted) > OverFetch => Cardinality(rows) = OverFetch
    BY <1>0, <1>1, <1>3, NewestOf
  <1>5. /\ pager'.phase = "reading" /\ pager'.kind = pager.kind /\ pager'.cursor = pager.cursor
        /\ pager'.had = pager.had /\ pager'.shown = pager.shown /\ pager'.repeated = pager.repeated
        /\ pager'.cursors = pager.cursors
        /\ pager'.queried = pager.queried \union {kind} /\ pager'.entries = pager.entries \union rows
    BY <1>0, <1>1, <1>2 DEF TypeOK, Pager
  <1>6. wanted \subseteq Stored /\ Stored \subseteq Written /\ UNCHANGED <<Stored, Written>>
    BY <1>2 DEF wanted, Stored, Written
  <1>7. UNCHANGED Asked /\ UNCHANGED Promised /\ \A r \in Records : Older(r)' <=> Older(r)
    BY <1>2, <1>5, <1>6 DEF Asked, Promised, Older
  <1>8. TypeOK'
    <2>1. kind \in Kinds
      BY DEF Kinds
    <2>2. rows \subseteq Records
      BY <1>3, <1>4
    <2> HIDE DEF kind
    <2> QED
      BY <1>0, <1>1, <1>2, <2>1, <2>2 DEF TypeOK, Pager
  <1>9. ReaderInv' /\ OnlyRunsRepeat'
    BY <1>0, <1>2, <1>4, <1>5, <1>6 DEF ReaderInv, OnlyRunsRepeat
  <1>10. CursorInv'
    <2>1. \A r \in rows : Older(r) /\ r \in Records
      BY <1>3, <1>4 DEF wanted
    <2>2. \A r \in pager.entries : Older(r) /\ r \in Records
      BY <1>0, <1>2 DEF CursorInv, TypeOK, Pager
    <2> QED
      BY <1>0, <1>2, <1>5, <1>7, <2>1, <2>2 DEF CursorInv
  <1>11. OwedInv'
    <2>1. Promised \subseteq Records
      BY DEF Promised, Stored
    <2>2. \A r \in Records : Tied(r, pager.cursors)' <=> Tied(r, pager.cursors)
      BY <1>2, <1>5 DEF Tied
    <2> QED
      BY <1>0, <1>2, <1>5, <1>7, <2>1, <2>2 DEF OwedInv
  <1>12. QueriedInv'
    <2> SUFFICES ASSUME NEW r \in Promised, log[r].kind \in pager.queried \union {kind}, Older(r)
                 PROVE  r \in pager.entries \union rows \/ Outnumbered(r)'
      <3>1. Promised \subseteq Records
        BY DEF Promised, Stored
      <3> QED
        BY <1>2, <1>5, <1>7, <3>1 DEF QueriedInv
    <2>1. Outnumbered(r) => Outnumbered(r)'
      BY <1>2, <1>5 DEF Outnumbered, OverFetch
    <2>2. CASE log[r].kind \in pager.queried
      BY <1>0, <1>2, <2>1, <2>2 DEF QueriedInv
    <2>3. CASE log[r].kind = kind
      <3>1. r \in wanted
        BY <2>3 DEF wanted, Promised
      <3>2. CASE r \notin rows
        <4>1. Cardinality(rows) = OverFetch
          <5>1. Cardinality(wanted) \in Nat
            BY <1>3, FS_Subset, FS_CardinalityType, AuditAssumption
          <5> QED
            BY <1>3, <1>4, <3>1, <3>2, <5>1
        <4>2. \A q \in rows : log[q].when >= log[r].when
          BY <1>4, <3>1, <3>2
        <4> QED
          BY <1>2, <1>5, <4>1, <4>2 DEF Outnumbered, OverFetch
      <3> QED
        BY <3>2
    <2> QED
      BY <2>2, <2>3
  <1>13. WalkIsComplete'
    BY <1>5 DEF WalkIsComplete
  <1> QED
    BY <1>8, <1>9, <1>10, <1>11, <1>12, <1>13 DEF IInv

LEMMA FollowStep ==
  ASSUME IInv, Follow
  PROVE  IInv'
  <1>0. TypeOK /\ ReaderInv /\ CursorInv /\ OwedInv /\ OnlyRunsRepeat
    BY DEF IInv
  <1>1. /\ pager.phase = "shown" /\ UNCHANGED log
        /\ pager' = [pager EXCEPT !.phase = "reading", !.queried = {}, !.entries = {},
                                  !.cursors = @ \union {pager.cursor}]
    BY DEF Follow
  <1>2. /\ pager'.phase = "reading" /\ pager'.kind = pager.kind /\ pager'.cursor = pager.cursor
        /\ pager'.had = pager.had /\ pager'.shown = pager.shown /\ pager'.repeated = pager.repeated
        /\ pager'.cursors = pager.cursors \union {pager.cursor}
        /\ pager'.queried = {} /\ pager'.entries = {}
    BY <1>0, <1>1 DEF TypeOK, Pager
  <1>3. UNCHANGED <<Stored, Written>>
    BY <1>1 DEF Stored, Written
  <1>4. UNCHANGED Asked /\ UNCHANGED Promised /\ \A r \in Records : Older(r)' <=> Older(r)
    BY <1>1, <1>2, <1>3 DEF Asked, Promised, Older
  <1>5. TypeOK'
    BY <1>0, <1>1 DEF TypeOK, Pager, CursorInv
  <1>6. ReaderInv' /\ CursorInv' /\ OnlyRunsRepeat'
    BY <1>0, <1>1, <1>2, <1>3 DEF ReaderInv, CursorInv, OnlyRunsRepeat
  <1>7. OwedInv'
    <2>1. Promised \subseteq Records
      BY DEF Promised, Stored
    <2> QED
      BY <1>0, <1>1, <1>2, <1>4, <2>1 DEF OwedInv, Tied
  <1>8. QueriedInv' /\ WalkIsComplete'
    BY <1>2 DEF QueriedInv, WalkIsComplete
  <1> QED
    BY <1>5, <1>6, <1>7, <1>8 DEF IInv

\* The page: nothing fetched and left off it is newer than its last entry.
LEMMA ShowStep ==
  ASSUME IInv, Show
  PROVE  IInv'
  <1>0. TypeOK /\ ReaderInv /\ CursorInv /\ OwedInv /\ QueriedInv /\ OnlyRunsRepeat
    BY DEF IInv
  <1>1. /\ pager.phase = "reading" /\ pager.queried = Asked /\ UNCHANGED log
    BY DEF Show
  <1> DEFINE next(page) == [pager EXCEPT !.shown = @ \union page,
                                         !.repeated = @ \union (pager.shown \intersect page)]
  <1>2. PICK page \in Newest(PageSize, pager.entries) :
          IF Cardinality(pager.entries) > PageSize
          THEN \E last \in page :
                 /\ \A r \in page : log[r].when >= log[last].when
                 /\ pager' = [next(page) EXCEPT !.phase = "shown", !.cursor = log[last].when]
          ELSE pager' = [next(page) EXCEPT !.phase = "ended"]
    BY DEF Show
  <1>3. pager.entries \in SUBSET Records /\ PageSize \in Nat /\ OverFetch = PageSize + 1
    BY <1>0, AuditAssumption DEF TypeOK, Pager, OverFetch
  <1>4. /\ page \subseteq pager.entries
        /\ \A r \in page, q \in pager.entries \ page : log[r].when >= log[q].when
        /\ Cardinality(pager.entries) <= PageSize => page = pager.entries
        /\ Cardinality(pager.entries) > PageSize => Cardinality(page) = PageSize
    BY <1>0, <1>3, NewestOf
  <1>5. Cardinality(pager.entries) \in Nat
    BY <1>3, FS_Subset, FS_CardinalityType, AuditAssumption
  <1>6. /\ pager'.kind = pager.kind /\ pager'.had = pager.had /\ pager'.cursors = pager.cursors
        /\ pager'.shown = pager.shown \union page
        /\ pager'.repeated = pager.repeated \union (pager.shown \intersect page)
        /\ pager'.entries = pager.entries
    BY <1>0, <1>2 DEF TypeOK, Pager
  <1>7. UNCHANGED <<Stored, Written, Asked, Promised>>
    BY <1>1, <1>6 DEF Stored, Written, Asked, Promised
  <1>8. ReaderInv'
    BY <1>0, <1>4, <1>6, <1>7 DEF ReaderInv
  <1>9. \A r \in Records : log[r].when \in Time /\ log[r].when \in Int
    BY <1>0, AuditAssumption DEF TypeOK, Entry, Time
  <1>10. pager.cursor \in Int /\ pager.cursor \in 0..NoCursor
    BY <1>0, AuditAssumption DEF TypeOK, Pager, NoCursor
  <1>11. OnlyRunsRepeat'
    <2> SUFFICES ASSUME NEW r \in pager.shown, r \in page
                 PROVE  log[r].kind = "discovery" /\ log[r].when \in pager.cursors
      BY <1>0, <1>1, <1>6 DEF OnlyRunsRepeat
    <2>1. r \in Records /\ Older(r) /\ log[r].when >= pager.cursor
      BY <1>0, <1>1, <1>3, <1>4 DEF CursorInv
    <2>2. log[r].kind = "discovery" /\ log[r].when = pager.cursor
      BY <1>9, <1>10, <2>1 DEF Older
    <2>3. pager.cursor # NoCursor
      BY <1>9, <2>1, <2>2, AuditAssumption DEF NoCursor, Time
    <2> QED
      BY <1>0, <1>1, <2>2, <2>3 DEF CursorInv
  <1>12. CASE Cardinality(pager.entries) > PageSize
    <2>1. PICK last \in page :
            /\ \A r \in page : log[r].when >= log[last].when
            /\ pager' = [next(page) EXCEPT !.phase = "shown", !.cursor = log[last].when]
      BY <1>2, <1>12
    <2>2. pager'.phase = "shown" /\ pager'.cursor = log[last].when /\ pager'.queried = pager.queried
      BY <1>0, <2>1 DEF TypeOK, Pager
    <2>3. last \in Records /\ Older(last) /\ log[last].when <= pager.cursor
      BY <1>0, <1>1, <1>3, <1>4, <1>9, <1>10 DEF CursorInv, Older
    <2>4. log[last].when \in Time /\ log[last].when \in 0..NoCursor
      BY <1>9, <2>3, AuditAssumption DEF Time, NoCursor
    <2>5. TypeOK'
      <3>1. page \subseteq Records
        BY <1>3, <1>4
      <3> QED
        BY <1>0, <1>1, <2>1, <2>4, <3>1 DEF TypeOK, Pager
    <2>6. CursorInv'
      <3>1. \A r \in pager.shown \union page : log[r].when >= log[last].when
        <4>1. \A r \in pager.shown : log[r].when >= pager.cursor /\ r \in Records
          BY <1>0, <1>1 DEF CursorInv, TypeOK, Pager
        <4> QED
          BY <1>9, <1>10, <2>1, <2>3, <4>1
      <3> QED
        BY <1>1, <1>6, <2>2, <2>4, <3>1 DEF CursorInv
    \* Whatever was fetched, or is outnumbered, is shown or not newer than the last.
    <2>7. ASSUME NEW r \in Promised, Older(r), r \notin page
          PROVE  log[r].when <= log[last].when
      <3>1. r \in Records /\ log[r].kind \in pager.queried
        BY <1>1 DEF Promised, Stored
      <3>2. CASE r \in pager.entries
        BY <1>4, <1>9, <2>7, <2>3, <3>1, <3>2
      <3>3. CASE Outnumbered(r)
        <4>1. PICK rows \in SUBSET pager.entries :
                Cardinality(rows) = OverFetch /\ \A q \in rows : log[q].when >= log[r].when
          BY <3>3 DEF Outnumbered
        <4>2. PICK q \in rows : q \notin page
          <5>1. Cardinality(rows) > Cardinality(page)
            BY <1>3, <1>4, <1>12, <4>1
          <5> QED
            BY <1>3, <1>4, <4>1, <5>1, OneMore
        <4>3. log[last].when >= log[q].when /\ log[q].when >= log[r].when /\ q \in Records
          BY <1>3, <1>4, <4>1, <4>2
        <4> QED
          BY <1>9, <2>3, <3>1, <4>3
      <3> QED
        BY <1>0, <1>1, <2>7, <3>1, <3>2, <3>3 DEF QueriedInv
    <2>8. OwedInv'
      <3> SUFFICES ASSUME NEW r \in Promised, r \notin pager.shown, r \notin page,
                          ~Tied(r, pager.cursors \union {log[last].when})
                   PROVE  \/ log[r].when < log[last].when
                          \/ log[r].kind = "discovery" /\ log[r].when = log[last].when
        BY <1>1, <1>6, <1>7, <2>2 DEF OwedInv, Tied, Older
      <3>1. r \in Records
        BY DEF Promised, Stored
      <3>2. Older(r)
        BY <1>0, <1>1 DEF OwedInv, Tied
      <3>3. log[r].when <= log[last].when
        BY <2>7, <3>2
      <3> QED
        BY <1>9, <2>3, <3>1, <3>3 DEF Tied
    <2> QED
      BY <1>8, <1>11, <2>2, <2>5, <2>6, <2>8 DEF IInv, QueriedInv, WalkIsComplete
  <1>13. CASE Cardinality(pager.entries) <= PageSize
    <2>0. ~(Cardinality(pager.entries) > PageSize)
      BY <1>3, <1>5, <1>13
    <2>1. pager' = [next(page) EXCEPT !.phase = "ended"] /\ page = pager.entries
      <3> HIDE DEF next
      <3> QED
        BY <1>2, <1>4, <1>13, <2>0
    <2>2. pager'.phase = "ended"
      BY <1>0, <2>1 DEF TypeOK, Pager
    <2>3. TypeOK'
      BY <1>0, <1>1, <2>1 DEF TypeOK, Pager
    <2>4. WalkIsComplete'
      <3> SUFFICES ASSUME NEW r \in Promised, r \notin pager.shown \union page, ~Tied(r, pager.cursors)
                   PROVE  FALSE
        BY <1>1, <1>6, <1>7 DEF WalkIsComplete, Promised, Tied
      <3>1. Older(r) /\ log[r].kind \in pager.queried
        BY <1>0, <1>1 DEF OwedInv, Promised
      <3>2. PICK rows \in SUBSET pager.entries : Cardinality(rows) = OverFetch
        BY <1>0, <1>1, <2>1, <3>1 DEF QueriedInv, Outnumbered
      <3>3. \E q \in rows : q \notin pager.entries
        <4>1. Cardinality(rows) > Cardinality(pager.entries)
          BY <1>3, <1>5, <1>13, <3>2
        <4> QED
          BY <1>3, <3>2, <4>1, OneMore
      <3> QED
        BY <3>2, <3>3
    <2> QED
      BY <1>8, <1>11, <2>2, <2>3, <2>4 DEF IInv, CursorInv, OwedInv, QueriedInv
  <1> QED
    BY <1>3, <1>5, <1>12, <1>13

-----------------------------------------------------------------------------
(* Theorems. *)

\* The invariant holds: whatever is promised to the reader is settled or ahead.
THEOREM Inductive == Spec => []IInv
  <1>1. Init => IInv
    BY InitIInv
  <1>2. ASSUME IInv, [Next]_vars
        PROVE  IInv'
    <2>1. CASE UNCHANGED vars
      BY <1>2, <2>1 DEF vars, IInv, TypeOK, ReaderInv, CursorInv, OwedInv, QueriedInv, OnlyRunsRepeat,
              WalkIsComplete, Promised, Tied, Older, Outnumbered, Written, Stored, Asked
    <2> QED
      BY <1>2, <2>1, TableKeepsIInv, OpenStep, FetchStep, ShowStep, FollowStep DEF Next
  <1> QED
    BY <1>1, <1>2, PTL DEF Spec

\* The log and the reader keep their types.
THEOREM TypeCorrect == Spec => []TypeOK
  <1>1. IInv => TypeOK
    BY DEF IInv
  <1> QED
    BY <1>1, Inductive, PTL

\* Only a discovery run is shown on two pages, one that ended a page.
THEOREM RowsAreNotRepeated == Spec => []OnlyRunsRepeat
  <1>1. IInv => OnlyRunsRepeat
    BY DEF IInv
  <1> QED
    BY <1>1, Inductive, PTL

\* A reader at the end has seen what was there all along, ties apart.
THEOREM WalksAreComplete == Spec => []WalkIsComplete
  <1>1. IInv => WalkIsComplete
    BY DEF IInv
  <1> QED
    BY <1>1, Inductive, PTL

-----------------------------------------------------------------------------
(* Numbers have a least one, and a greatest one if they are bounded.       *)

\* Some numbers have a least one.
LEMMA LeastNumber == \A S \in SUBSET Nat : S # {} => \E n \in S : \A m \in S : n <= m
  <1> SUFFICES ASSUME NEW S \in SUBSET Nat, S # {}
               PROVE  \E n \in S : \A m \in S : n <= m
    OBVIOUS
  <1>1. PICK n \in S : \A m \in S : <<m, n>> \notin OpToRel(<, Nat)
    BY NatLessThanWellFounded, WFMin
  <1>2. \A m \in S : <<m, n>> \in OpToRel(<, Nat) <=> m < n
    BY DEF OpToRel
  <1>3. \A m \in S : ~(m < n)
    BY <1>1, <1>2, Zenon
  <1> QED
    BY <1>3

\* Some numbers that are bounded have a greatest one.
LEMMA GreatestNumber ==
  \A S \in SUBSET Nat, top \in Nat : S # {} /\ (\A m \in S : m <= top) =>
    \E n \in S : \A m \in S : m <= n
  <1> SUFFICES ASSUME NEW S \in SUBSET Nat, NEW top \in Nat, S # {}, \A m \in S : m <= top
               PROVE  \E n \in S : \A m \in S : m <= n
    OBVIOUS
  <1> DEFINE bounds == {b \in Nat : \A m \in S : m <= b}
  <1>1. PICK b \in bounds : \A c \in bounds : b <= c
    BY LeastNumber
  <1>2. CASE b \in S
    BY <1>2
  <1>3. CASE b \notin S
    <2>1. \A m \in S : m < b
      BY <1>3
    <2>2. PICK m \in S : TRUE
      OBVIOUS
    <2>3. b \in Nat /\ m \in Nat
      OBVIOUS
    <2>4. b - 1 \in Nat
      BY <2>1, <2>2, <2>3
    <2>5. \A k \in S : k <= b - 1
      BY <2>1, <2>3
    <2> QED
      BY <1>1, <2>3, <2>4, <2>5
  <1> QED
    BY <1>2, <1>3

-----------------------------------------------------------------------------
(* Scans: what is recorded of a run, and what is loaded of it.             *)

\* What a run recorded of a host says whether it looked at ports, which the
\* run's row settles when its observations are committed.
ObservedInv ==
  /\ \A r \in Runs : run[r].status = "none" => run[r].ports = "unknown"
  /\ \A i \in DOMAIN observed :
       LET o == observed[i]
       IN  /\ run[o.run].ports # "unknown"
           /\ o.present => (o.ports # NotChecked <=> run[o.run].ports = "checked")

\* Retention takes all of a run's observations or none.
StockInv == \A i \in 1..pruned, j \in Stock : observed[i].run # observed[j].run

\* What was loaded of a run and says something still does: its scanned_ports
\* once known, its observations once there.
LoadedInv ==
  /\ compared.phase = "latest" => compared.target \in Runs
  /\ compared.phase \notin {"closed", "latest"} => \A s \in Sides : compared[s] \in Runs
  /\ compared.phase \in {"closed", "latest"} => \A s \in Sides : compared.ports[s] = "unknown" /\ compared.rows[s] = {}
  /\ \A s \in Sides :
       /\ compared.ports[s] # "unknown" => compared.ports[s] = run[compared[s]].ports
       /\ compared.rows[s] # {} =>
            compared.rows[s] = {i \in DOMAIN observed : observed[i].run = compared[s]}

HistoryInv == HistoryTypeOK /\ ObservedInv /\ StockInv /\ LoadedInv

\* The last of some numbers that are bounded.
LEMMA LatestOf ==
  ASSUME NEW top \in Nat, NEW S \in SUBSET (1..top), S # {}
  PROVE  Latest(S) \in S /\ \A j \in S : j <= Latest(S)
  <1>1. S \in SUBSET Nat /\ \A m \in S : m <= top
    OBVIOUS
  <1>2. \E i \in S : \A j \in S : j <= i
    BY <1>1, GreatestNumber
  <1> QED
    BY <1>2, Zenon DEF Latest

\* An ordering of a finite set is a sequence of its members that has them all.
LEMMA OrderingOf ==
  ASSUME NEW set, IsFiniteSet(set), NEW order \in Orderings(set)
  PROVE  /\ order \in Seq(set) /\ Len(order) \in Nat /\ DOMAIN order = 1..Len(order)
         /\ \A x \in set : \E i \in DOMAIN order : order[i] = x
  <1>1. Cardinality(set) \in Nat
    BY FS_CardinalityType
  <1>2. order \in [1..Cardinality(set) -> set] /\ \A x \in set : \E i \in DOMAIN order : order[i] = x
    BY DEF Orderings
  <1>3. order \in Seq(set)
    BY <1>1, <1>2
  <1> QED
    BY <1>2, <1>3, LenProperties

\* Three sequences, one after the other.
LEMMA Appended ==
  ASSUME NEW S, NEW a \in Seq(S), NEW b \in Seq(S), NEW c \in Seq(S), NEW abc, abc = a \o b \o c
  PROVE  /\ abc \in Seq(S) /\ Len(abc) = Len(a) + Len(b) + Len(c)
         /\ \A i \in 1..Len(a) : abc[i] = a[i]
         /\ \A i \in (Len(a) + 1)..(Len(a) + Len(b)) : abc[i] = b[i - Len(a)]
         /\ \A i \in (Len(a) + Len(b) + 1)..Len(abc) : abc[i] = c[i - Len(a) - Len(b)]
  <1> SUFFICES ASSUME NEW ab, ab = a \o b, abc = ab \o c
               PROVE  /\ abc \in Seq(S) /\ Len(abc) = Len(a) + Len(b) + Len(c)
                      /\ \A i \in 1..Len(a) : abc[i] = a[i]
                      /\ \A i \in (Len(a) + 1)..(Len(a) + Len(b)) : abc[i] = b[i - Len(a)]
                      /\ \A i \in (Len(a) + Len(b) + 1)..Len(abc) : abc[i] = c[i - Len(a) - Len(b)]
    OBVIOUS
  <1>1. /\ ab \in Seq(S) /\ Len(ab) = Len(a) + Len(b)
        /\ \A i \in 1..(Len(a) + Len(b)) : ab[i] = IF i <= Len(a) THEN a[i] ELSE b[i - Len(a)]
    BY ConcatProperties
  <1>2. Len(a) \in Nat /\ Len(b) \in Nat /\ Len(c) \in Nat
    BY LenProperties
  <1>3. /\ abc \in Seq(S) /\ Len(abc) = Len(ab) + Len(c)
        /\ \A i \in 1..(Len(ab) + Len(c)) : abc[i] = IF i <= Len(ab) THEN ab[i] ELSE c[i - Len(ab)]
    BY <1>1, ConcatProperties
  <1> QED
    BY <1>1, <1>2, <1>3

\* What the commit of a run's observations changes.
LEMMA StoreEffect ==
  ASSUME HistoryTypeOK, NEW r \in Runs, StoreObservations(r)
  PROVE  /\ run[r].ports = "unknown"
         /\ \E ports \in {"checked", "unchecked"} :
              /\ run' = [run EXCEPT ![r].ports = ports]
              /\ \A i \in (Len(observed) + 1)..Len(observed') :
                   /\ observed'[i].run = r
                   /\ observed'[i].present => (observed'[i].ports # NotChecked <=> ports = "checked")
         /\ observed' \in Seq(Observation) /\ Len(observed') \in Nat /\ Len(observed') >= Len(observed)
         /\ \A i \in 1..Len(observed) : observed'[i] = observed[i]
         /\ address' \in [Devices -> Addresses \union {NoAddress}]
         /\ UNCHANGED <<pruned, compared>>
  <1>1. PICK checked \in BOOLEAN, up \in SUBSET run[r].range :
          \E host \in [up -> Devices], open \in [up -> IF checked THEN SUBSET Ports ELSE {{}}] :
          \E answering \in Orderings(up),
             absent \in Orderings({d \in Devices : (\A a \in up : host[a] # d) /\ address[d] \in run[r].range}) :
            CommitObservations(r, checked, host, open, answering, absent)
    BY DEF StoreObservations
  <1>2. PICK host \in [up -> Devices], open \in [up -> IF checked THEN SUBSET Ports ELSE {{}}] :
          \E answering \in Orderings(up),
             absent \in Orderings({d \in Devices : (\A a \in up : host[a] # d) /\ address[d] \in run[r].range}) :
            CommitObservations(r, checked, host, open, answering, absent)
    BY <1>1
  <1> DEFINE silent == {d \in Devices : (\A a \in up : host[a] # d) /\ address[d] \in run[r].range}
  <1>3. PICK answering \in Orderings(up), absent \in Orderings(silent) :
          CommitObservations(r, checked, host, open, answering, absent)
    BY <1>2
  <1>4. /\ up \subseteq Addresses /\ run[r].range \subseteq Addresses /\ IsFiniteSet(up)
        /\ silent \subseteq Devices /\ IsFiniteSet(silent)
    <2>1. run[r].range \subseteq Addresses
      BY HistoryAssumption DEF HistoryTypeOK, Run
    <2>2. silent \subseteq Devices
      OBVIOUS
    <2> QED
      BY <2>1, <2>2, FS_Subset, HistoryAssumption
  <1>5. /\ answering \in Seq(up) /\ Len(answering) \in Nat /\ DOMAIN answering = 1..Len(answering)
        /\ absent \in Seq(silent) /\ Len(absent) \in Nat /\ DOMAIN absent = 1..Len(absent)
    BY <1>4, OrderingOf
  <1>6. /\ \A i \in 1..Len(answering) : answering[i] \in up
        /\ \A i \in 1..Len(absent) : absent[i] \in silent
    BY <1>5, ElementOfSeq
  <1>7. \A a \in up : /\ open[a] \in SUBSET Ports
                      /\ PortsRecorded(checked, open[a]) \in (SUBSET Ports) \union {NotChecked}
                      /\ PortsRecorded(checked, open[a]) # NotChecked <=> checked
    BY HistoryAssumption DEF PortsRecorded
  <1>8. PICK answers \in Seq(Observation) :
          /\ answers = Answers(r, answering, host, checked, open)
          /\ \A i \in 1..Len(answers) : answers[i].run = r /\ (answers[i].ports # NotChecked <=> checked)
    <2> DEFINE answers == Answers(r, answering, host, checked, open)
    <2>1. \A i \in 1..Len(answering) : answers[i] \in Observation
      BY <1>4, <1>5, <1>6, <1>7 DEF Observation, Answers
    <2>2. answers \in Seq(Observation) /\ Len(answers) = Len(answering)
      BY <1>5, <2>1 DEF Answers
    <2>3. \A i \in 1..Len(answers) : answers[i].run = r /\ (answers[i].ports # NotChecked <=> checked)
      BY <1>5, <1>6, <1>7, <2>2 DEF Answers
    <2> QED
      BY <2>2, <2>3
  <1>9. PICK silences \in Seq(Observation) :
          /\ silences = Silences(r, absent)
          /\ \A i \in 1..Len(silences) : silences[i].run = r /\ ~silences[i].present
    <2> DEFINE silences == Silences(r, absent)
    <2>1. \A i \in 1..Len(absent) : silences[i] \in Observation
      <3>1. \A d \in silent : d \in Devices /\ address[d] \in Addresses
        BY <1>4
      <3> QED
        BY <1>5, <1>6, <3>1 DEF Observation, Silences
    <2>2. silences \in Seq(Observation) /\ Len(silences) = Len(absent)
      BY <1>5, <2>1 DEF Silences
    <2>3. \A i \in 1..Len(silences) : silences[i].run = r /\ ~silences[i].present
      BY <1>5, <1>6, <2>2 DEF Silences
    <2> QED
      BY <2>2, <2>3
  <1>10. observed \in Seq(Observation) /\ observed' = observed \o answers \o silences
    BY <1>3, <1>8, <1>9 DEF HistoryTypeOK, CommitObservations
  <1>11. /\ observed' \in Seq(Observation)
         /\ Len(observed') = Len(observed) + Len(answers) + Len(silences)
         /\ \A i \in 1..Len(observed) : observed'[i] = observed[i]
         /\ \A i \in (Len(observed) + 1)..(Len(observed) + Len(answers)) :
              observed'[i] = answers[i - Len(observed)]
         /\ \A i \in (Len(observed) + Len(answers) + 1)..Len(observed') :
              observed'[i] = silences[i - Len(observed) - Len(answers)]
    BY <1>10, Appended
  <1>12. Len(observed) \in Nat /\ Len(answers) \in Nat /\ Len(silences) \in Nat
    BY <1>10, LenProperties
  <1>13. address' \in [Devices -> Addresses \union {NoAddress}]
    <2> SUFFICES ASSUME NEW d \in Devices
                 PROVE  AddressAfter(d, answering, host) \in Addresses \union {NoAddress}
      BY <1>3 DEF CommitObservations
    <2> DEFINE at == {i \in DOMAIN answering : host[answering[i]] = d}
    <2>1. CASE at = {}
      BY <2>1 DEF HistoryTypeOK, AddressAfter
    <2>2. CASE at # {}
      <3>1. Latest(at) \in at
        BY <1>5, <2>2, LatestOf
      <3>2. answering[Latest(at)] \in Addresses
        BY <1>4, <1>5, <1>6, <3>1
      <3> QED
        BY <2>2, <3>2 DEF AddressAfter
    <2> QED
      BY <2>1, <2>2
  <1>14. \A i \in (Len(observed) + 1)..Len(observed') :
           /\ observed'[i].run = r
           /\ observed'[i].present => (observed'[i].ports # NotChecked <=> checked)
    <2> SUFFICES ASSUME NEW i \in (Len(observed) + 1)..Len(observed')
                 PROVE  /\ observed'[i].run = r
                        /\ observed'[i].present => (observed'[i].ports # NotChecked <=> checked)
      OBVIOUS
    <2>1. CASE i <= Len(observed) + Len(answers)
      <3>1. i - Len(observed) \in 1..Len(answers) /\ observed'[i] = answers[i - Len(observed)]
        BY <1>11, <1>12, <2>1
      <3> QED
        BY <1>8, <3>1
    <2>2. CASE ~(i <= Len(observed) + Len(answers))
      <3>1. /\ i - Len(observed) - Len(answers) \in 1..Len(silences)
            /\ observed'[i] = silences[i - Len(observed) - Len(answers)]
        BY <1>11, <1>12, <2>2
      <3> QED
        BY <1>9, <3>1
    <2> QED
      BY <2>1, <2>2
  <1>15. \E ports \in {"checked", "unchecked"} :
           /\ run' = [run EXCEPT ![r].ports = ports]
           /\ \A i \in (Len(observed) + 1)..Len(observed') :
                /\ observed'[i].run = r
                /\ observed'[i].present => (observed'[i].ports # NotChecked <=> ports = "checked")
    <2>1. CASE checked
      BY <1>3, <1>14, <2>1 DEF CommitObservations
    <2>2. CASE ~checked
      BY <1>3, <1>14, <2>2 DEF CommitObservations
    <2> QED
      BY <2>1, <2>2
  <1>16. run[r].ports = "unknown" /\ UNCHANGED <<pruned, compared>>
    BY <1>3 DEF StoreObservations, CommitObservations
  <1>17. Len(observed') \in Nat /\ Len(observed') >= Len(observed)
    BY <1>11, <1>12
  <1> QED
    BY <1>11, <1>13, <1>15, <1>16, <1>17

\* The table as sequences go.
LEMMA TableType ==
  ASSUME HistoryTypeOK
  PROVE  /\ Len(observed) \in Nat /\ DOMAIN observed = 1..Len(observed)
         /\ pruned \in 0..Len(observed)
         /\ \A i \in DOMAIN observed : observed[i] \in Observation /\ observed[i].run \in Runs
         /\ Stock \subseteq DOMAIN observed
  <1>1. observed \in Seq(Observation) /\ pruned \in 0..Len(observed)
    BY DEF HistoryTypeOK
  <1>2. Len(observed) \in Nat /\ DOMAIN observed = 1..Len(observed)
    BY <1>1, LenProperties
  <1>3. \A i \in DOMAIN observed : observed[i] \in Observation
    BY <1>1, <1>2, ElementOfSeq
  <1>4. \A o \in Observation : o.run \in Runs
    BY DEF Observation
  <1> QED
    BY <1>1, <1>2, <1>3, <1>4 DEF Stock

\* The first state is one of the invariant.
LEMMA HistoryStarts == HistoryInit => HistoryInv
  <1> SUFFICES ASSUME HistoryInit
               PROVE  HistoryInv
    OBVIOUS
  <1>1. PICK first \in {NoRun} \union [status : {"success"}, range : Ranges, ports : {"unknown"}] :
          run = [r \in Runs |-> IF r = 1 THEN first ELSE NoRun]
    BY DEF HistoryInit
  <1>2. run \in [Runs -> Run] /\ \A r \in Runs : run[r].status = "none" => run[r].ports = "unknown"
    BY <1>1 DEF NoRun, Run
  <1>3. observed = <<>> /\ pruned = 0 /\ observed \in Seq(Observation) /\ Len(observed) = 0 /\ DOMAIN observed = {}
    BY DEF HistoryInit
  <1>4. compared = Closed /\ compared \in Comparison
    BY HistoryAssumption DEF HistoryInit, Closed, Comparison, Sides
  <1>5. HistoryTypeOK
    BY <1>2, <1>3, <1>4 DEF HistoryInit, HistoryTypeOK
  <1>6. ObservedInv /\ StockInv
    BY <1>2, <1>3 DEF ObservedInv, StockInv, Stock
  <1>7. LoadedInv
    BY <1>4 DEF LoadedInv, Closed, Sides
  <1> QED
    BY <1>5, <1>6, <1>7 DEF HistoryInv

\* What was loaded stays true: scanned_ports is set once, and observations are
\* added to no run but one that has none.
LEMMA LoadedKept ==
  ASSUME HistoryInv, UNCHANGED compared,
         \A r \in Runs : run[r].ports # "unknown" => run'[r].ports = run[r].ports,
         DOMAIN observed \subseteq DOMAIN observed',
         \A i \in DOMAIN observed : observed'[i] = observed[i],
         \A i \in DOMAIN observed' \ DOMAIN observed : run[observed'[i].run].ports = "unknown"
  PROVE  LoadedInv'
  <1>1. ASSUME NEW s \in Sides, compared.ports[s] # "unknown"
        PROVE  compared.ports[s] = run'[compared[s]].ports
    BY <1>1 DEF HistoryInv, LoadedInv
  <1>2. ASSUME NEW s \in Sides, compared.rows[s] # {}
        PROVE  compared.rows[s] = {i \in DOMAIN observed' : observed'[i].run = compared[s]}
    <2>1. compared.rows[s] = {i \in DOMAIN observed : observed[i].run = compared[s]}
      BY <1>2 DEF HistoryInv, LoadedInv
    <2>2. run[compared[s]].ports # "unknown"
      BY <1>2, <2>1 DEF HistoryInv, ObservedInv
    <2> QED
      BY <2>1, <2>2
  <1> QED
    BY <1>1, <1>2 DEF HistoryInv, LoadedInv

\* A run starts or ends: its observations and scanned_ports are left alone.
LEMMA RunStep ==
  ASSUME HistoryInv, NEW r \in Runs, StartRun(r) \/ FinishRun(r)
  PROVE  HistoryInv'
  <1>1. run \in [Runs -> Run] /\ UNCHANGED <<observed, pruned, address, compared>>
    BY DEF HistoryInv, HistoryTypeOK, StartRun, FinishRun
  <1>2. PICK row \in Run :
          /\ run' = [run EXCEPT ![r] = row]
          /\ row.status # "none"
          /\ run[r].ports # "unknown" => row.ports = run[r].ports
    <2>1. CASE StartRun(r)
      <3>1. run[r].status = "none" /\ run[r].ports = "unknown"
        BY <2>1 DEF StartRun, HistoryInv, ObservedInv
      <3>2. PICK range \in Ranges :
              run' = [run EXCEPT ![r] = [NoRun EXCEPT !.status = "running", !.range = range]]
        BY <2>1 DEF StartRun
      <3>3. [NoRun EXCEPT !.status = "running", !.range = range] \in Run
        BY DEF NoRun, Run
      <3>4. [NoRun EXCEPT !.status = "running", !.range = range].status # "none"
        BY DEF NoRun
      <3> QED
        BY <3>1, <3>2, <3>3, <3>4
    <2>2. CASE FinishRun(r)
      <3>1. PICK status \in {"success", "failed"} : run' = [run EXCEPT ![r].status = status]
        BY <2>2 DEF FinishRun
      <3>2. run[r] \in Run
        BY <1>1
      <3>3. /\ [run[r] EXCEPT !.status = status] \in Run
            /\ [run[r] EXCEPT !.status = status].status # "none"
            /\ [run[r] EXCEPT !.status = status].ports = run[r].ports
        BY <3>2 DEF Run
      <3> QED
        BY <3>1, <3>3
    <2> QED
      BY <2>1, <2>2
  <1>3. /\ HistoryTypeOK'
        /\ \A q \in Runs : run[q].ports # "unknown" => run'[q].ports = run[q].ports
        /\ \A q \in Runs : run'[q].status = "none" => run'[q].ports = "unknown"
    BY <1>1, <1>2 DEF HistoryInv, HistoryTypeOK, ObservedInv
  <1>4. \A i \in DOMAIN observed : observed[i].run \in Runs
    BY TableType DEF HistoryInv
  <1>5. ObservedInv'
    BY <1>1, <1>3, <1>4 DEF HistoryInv, ObservedInv
  <1>6. StockInv'
    BY <1>1 DEF HistoryInv, StockInv, Stock
  <1>7. LoadedInv'
    BY <1>1, <1>3, LoadedKept
  <1> QED
    BY <1>3, <1>5, <1>6, <1>7 DEF HistoryInv

\* A run's observations are committed, all at once and once.
LEMMA StoreStep ==
  ASSUME HistoryInv, NEW r \in Runs, StoreObservations(r)
  PROVE  HistoryInv'
  <1>1. HistoryTypeOK
    BY DEF HistoryInv
  <1>2. PICK ports \in {"checked", "unchecked"} :
          /\ run' = [run EXCEPT ![r].ports = ports]
          /\ \A i \in (Len(observed) + 1)..Len(observed') :
               /\ observed'[i].run = r
               /\ observed'[i].present => (observed'[i].ports # NotChecked <=> ports = "checked")
    BY <1>1, StoreEffect
  <1>3. /\ run[r].ports = "unknown"
        /\ observed' \in Seq(Observation) /\ Len(observed') \in Nat /\ Len(observed') >= Len(observed)
        /\ \A i \in 1..Len(observed) : observed'[i] = observed[i]
        /\ address' \in [Devices -> Addresses \union {NoAddress}]
        /\ UNCHANGED <<pruned, compared>>
    BY <1>1, StoreEffect
  <1>4. /\ run \in [Runs -> Run] /\ pruned \in 0..Len(observed) /\ Len(observed) \in Nat
        /\ DOMAIN observed = 1..Len(observed) /\ DOMAIN observed' = 1..Len(observed')
        /\ \A i \in 1..Len(observed) : observed[i].run \in Runs
    BY <1>1, <1>3, TableType, LenProperties DEF HistoryTypeOK
  <1>5. \A q \in Runs : run'[q] = IF q = r THEN [run[r] EXCEPT !.ports = ports] ELSE run[q]
    BY <1>2, <1>4
  <1>6. HistoryTypeOK'
    <2>1. run' \in [Runs -> Run]
      BY <1>2, <1>4 DEF Run
    <2>2. pruned' \in 0..Len(observed')
      BY <1>3, <1>4
    <2> QED
      BY <1>1, <1>3, <2>1, <2>2 DEF HistoryTypeOK
  <1>7. run'[r].ports = ports /\ run[r].status = "running" /\ run'[r].status = "running"
    BY <1>4, <1>5 DEF StoreObservations, Run
  <1>8. ObservedInv'
    <2>1. \A q \in Runs : run'[q].status = "none" => run'[q].ports = "unknown"
      BY <1>5, <1>7 DEF HistoryInv, ObservedInv
    <2>2. ASSUME NEW i \in 1..Len(observed')
          PROVE  /\ run'[observed'[i].run].ports # "unknown"
                 /\ observed'[i].present =>
                      (observed'[i].ports # NotChecked <=> run'[observed'[i].run].ports = "checked")
      <3>1. CASE i \in 1..Len(observed)
        <4>1. run[observed[i].run].ports # "unknown" /\ observed[i].run # r
          BY <1>3, <1>4, <3>1 DEF HistoryInv, ObservedInv
        <4>2. run'[observed[i].run] = run[observed[i].run]
          BY <1>4, <1>5, <3>1, <4>1
        <4> QED
          BY <1>3, <1>4, <3>1, <4>1, <4>2 DEF HistoryInv, ObservedInv
      <3>2. CASE i \in (Len(observed) + 1)..Len(observed')
        BY <1>2, <1>7, <3>2
      <3> QED
        BY <1>3, <1>4, <3>1, <3>2
    <2> QED
      BY <1>4, <2>1, <2>2 DEF ObservedInv
  <1>9. StockInv'
    <2> SUFFICES ASSUME NEW i \in 1..pruned, NEW j \in (pruned + 1)..Len(observed')
                 PROVE  observed'[i].run # observed'[j].run
      BY <1>3 DEF StockInv, Stock
    <2>1. i \in 1..Len(observed) /\ observed'[i] = observed[i]
      BY <1>3, <1>4
    <2>2. CASE j \in 1..Len(observed)
      BY <1>3, <1>4, <2>1, <2>2 DEF HistoryInv, StockInv, Stock
    <2>3. CASE j \in (Len(observed) + 1)..Len(observed')
      <3>1. observed[i].run # r
        BY <1>3, <1>4, <2>1 DEF HistoryInv, ObservedInv
      <3> QED
        BY <1>2, <2>1, <2>3, <3>1
    <2> QED
      BY <1>3, <1>4, <2>2, <2>3
  <1>10. LoadedInv'
    <2>1. \A q \in Runs : run[q].ports # "unknown" => run'[q].ports = run[q].ports
      BY <1>3, <1>5
    <2>2. /\ DOMAIN observed \subseteq DOMAIN observed'
          /\ \A i \in DOMAIN observed : observed'[i] = observed[i]
          /\ \A i \in DOMAIN observed' \ DOMAIN observed : i \in (Len(observed) + 1)..Len(observed')
      BY <1>3, <1>4
    <2>3. \A i \in DOMAIN observed' \ DOMAIN observed : run[observed'[i].run].ports = "unknown"
      BY <1>2, <1>3, <2>2
    <2> QED
      BY <1>3, <2>1, <2>2, <2>3, LoadedKept
  <1> QED
    BY <1>6, <1>8, <1>9, <1>10 DEF HistoryInv

\* Retention deletes whole runs.
LEMMA PruneStep ==
  ASSUME HistoryInv, NEW n \in DOMAIN observed, PruneObservations(n)
  PROVE  HistoryInv'
  <1>1. /\ observed \in Seq(Observation) /\ Len(observed) \in Nat
        /\ pruned \in 0..Len(observed) /\ n \in (pruned + 1)..Len(observed)
        /\ pruned' = n /\ UNCHANGED <<run, observed, address, compared>>
    BY LenProperties DEF HistoryInv, HistoryTypeOK, PruneObservations, Stock
  <1>2. HistoryTypeOK'
    BY <1>1 DEF HistoryInv, HistoryTypeOK
  <1>3. ObservedInv'
    BY <1>1 DEF HistoryInv, ObservedInv
  <1>4. StockInv'
    BY <1>1 DEF StockInv, Stock, PruneObservations
  <1>5. LoadedInv'
    BY <1>1, LoadedKept
  <1> QED
    BY <1>2, <1>3, <1>4, <1>5 DEF HistoryInv

\* The comparison changes nothing but itself.
LEMMA CompareStep ==
  ASSUME HistoryInv,
         \/ CompareLatest \/ ComparePrevious \/ (\E b, t \in Runs : CompareChosen(b, t)) \/ CompareLoad
         \/ CompareRows("base", "target") \/ CompareRows("target", "done")
         \/ CompareClose
  PROVE  HistoryInv'
  <1>1. compared \in Comparison /\ UNCHANGED <<run, observed, pruned, address>>
    BY DEF HistoryInv, HistoryTypeOK, CompareLatest, ComparePrevious, CompareChosen, CompareLoad,
           CompareRows, CompareClose
  <1>2. ObservedInv' /\ StockInv'
    BY <1>1 DEF HistoryInv, ObservedInv, StockInv, Stock
  <1>3. Closed \in Comparison /\ WithResults \subseteq Runs /\ Runs \subseteq 0..MaxRun
    <2>1. MaxRun \in Nat
      BY HistoryAssumption
    <2>2. /\ [s \in Sides |-> "none"] \in [Sides -> {"none", "running", "success", "failed"}]
          /\ [s \in Sides |-> "unknown"] \in [Sides -> {"unknown", "checked", "unchecked"}]
          /\ [s \in Sides |-> {}] \in [Sides -> SUBSET Nat]
          /\ 0 \in 0..MaxRun
      BY <2>1
    <2>3. Closed \in Comparison
      BY <2>2, Zenon DEF Closed, Comparison
    <2>4. \A r \in Runs : r \in 0..MaxRun
      BY <2>1 DEF Runs
    <2> QED
      BY <2>3, <2>4 DEF WithResults
  <1>4. /\ Len(observed) \in Nat /\ DOMAIN observed = 1..Len(observed)
        /\ pruned \in 0..Len(observed) /\ Stock \subseteq DOMAIN observed
    BY TableType DEF HistoryInv
  <1>5. compared' \in Comparison /\ LoadedInv'
    <2>1. CASE CompareLatest
      <3>1. PICK r \in Runs : compared' = [Closed EXCEPT !.phase = "latest", !.target = r]
        BY <1>3, <2>1 DEF CompareLatest
      <3> QED
        BY <1>3, <3>1 DEF LoadedInv, Closed, Comparison, Sides
    <2>2. CASE ComparePrevious
      <3>1. CASE compared' = Closed
        BY <1>3, <3>1 DEF LoadedInv, Closed, Sides
      <3>2. CASE compared' # Closed
        <4>1. PICK q \in Runs : compared' = [compared EXCEPT !.phase = "runs", !.base = q]
          BY <1>3, <2>2, <3>2 DEF ComparePrevious
        <4>2. compared.phase = "latest" /\ compared.target \in Runs
          BY <2>2 DEF HistoryInv, LoadedInv, ComparePrevious
        <4> QED
          BY <1>1, <1>3, <4>1, <4>2 DEF HistoryInv, LoadedInv, Comparison, Sides
      <3> QED
        BY <3>1, <3>2
    <2>3. CASE \E b, t \in Runs : CompareChosen(b, t)
      <3>1. PICK b \in Runs, t \in Runs : compared' = [Closed EXCEPT !.phase = "runs", !.base = b, !.target = t]
        BY <2>3 DEF CompareChosen
      <3> QED
        BY <1>3, <3>1 DEF LoadedInv, Closed, Comparison, Sides
    <2>4. CASE CompareLoad
      <3>1. \A s \in Sides : compared[s] \in Runs
        BY <2>4 DEF CompareLoad, HistoryInv, LoadedInv
      <3>2. \A s \in Sides : run[compared[s]] \in Run
        BY <3>1 DEF HistoryInv, HistoryTypeOK
      <3>3. compared' = [compared EXCEPT !.phase = "base",
              !.status = [s \in Sides |-> run[compared[s]].status],
              !.ports = [s \in Sides |-> run[compared[s]].ports]]
        BY <2>4 DEF CompareLoad
      <3>4. compared' \in Comparison
        BY <1>1, <3>2, <3>3 DEF Comparison, Run
      <3>5. \A s \in Sides : compared'[s] = compared[s] /\ compared'.rows[s] = compared.rows[s]
        BY <1>1, <3>3 DEF Comparison, Sides
      <3>6. compared'.phase = "base" /\ \A s \in Sides : compared'.ports[s] = run[compared[s]].ports
        BY <1>1, <3>3 DEF Comparison
      <3>7. LoadedInv'
        <4>1. \A s \in Sides : compared'.rows[s] # {} =>
                compared'.rows[s] = {i \in DOMAIN observed' : observed'[i].run = compared'[s]}
          BY <1>1, <3>5 DEF HistoryInv, LoadedInv
        <4>2. \A s \in Sides : compared'[s] \in Runs /\ compared'.ports[s] = run'[compared'[s]].ports
          BY <1>1, <3>1, <3>5, <3>6
        <4> QED
          BY <3>6, <4>1, <4>2 DEF LoadedInv
      <3> QED
        BY <3>4, <3>7
    <2>5. ASSUME NEW side \in Sides, NEW next \in {"target", "done"}, CompareRows(side, next)
          PROVE  compared' \in Comparison /\ LoadedInv'
      <3>1. compared' = [compared EXCEPT !.phase = next, !.rows[side] = Observations(compared[side])]
        BY <2>5 DEF CompareRows
      <3>2. Observations(compared[side]) \subseteq Nat
        BY <1>4 DEF Observations
      <3>3. compared' \in Comparison
        BY <1>1, <3>1, <3>2 DEF Comparison
      <3>4. compared'.phase = next /\ \A s \in Sides : compared'[s] = compared[s] /\ compared'.ports[s] = compared.ports[s]
        BY <1>1, <3>1 DEF Comparison, Sides
      <3>5. \A s \in Sides : compared'.rows[s] = IF s = side THEN Observations(compared[side]) ELSE compared.rows[s]
        BY <1>1, <3>1 DEF Comparison
      <3>6. \A s \in Sides : compared[s] \in Runs
        BY <2>5 DEF CompareRows, HistoryInv, LoadedInv, Sides
      <3>7. Observations(compared[side]) # {} =>
              Observations(compared[side]) = {i \in DOMAIN observed : observed[i].run = compared[side]}
        <4> SUFFICES ASSUME NEW j \in Stock, observed[j].run = compared[side],
                            NEW i \in DOMAIN observed, observed[i].run = compared[side]
                     PROVE  i \in Stock
          BY <1>4 DEF Observations
        <4>1. i \notin 1..pruned
          BY DEF HistoryInv, StockInv
        <4> QED
          BY <4>1, <1>4 DEF Stock
      <3>8. LoadedInv'
        <4>1. ASSUME NEW s \in Sides, compared'.rows[s] # {}
              PROVE  compared'.rows[s] = {i \in DOMAIN observed' : observed'[i].run = compared'[s]}
          <5>1. compared'.rows[s] = {i \in DOMAIN observed : observed[i].run = compared[s]}
            BY <3>5, <3>7, <4>1 DEF HistoryInv, LoadedInv
          <5> QED
            BY <1>1, <3>4, <5>1
        <4>2. \A s \in Sides : compared'.ports[s] # "unknown" => compared'.ports[s] = run'[compared'[s]].ports
          BY <1>1, <3>4 DEF HistoryInv, LoadedInv
        <4> QED
          BY <3>4, <3>6, <4>1, <4>2 DEF LoadedInv
      <3> QED
        BY <3>3, <3>8
    <2>6. CASE CompareClose
      BY <1>3, <2>6 DEF CompareClose, LoadedInv, Closed, Sides
    <2> QED
      BY <2>1, <2>2, <2>3, <2>4, <2>5, <2>6 DEF Sides
  <1>6. HistoryTypeOK'
    BY <1>1, <1>5 DEF HistoryInv, HistoryTypeOK
  <1> QED
    BY <1>2, <1>5, <1>6 DEF HistoryInv

\* Every step keeps the invariant.
LEMMA HistoryStep == HistoryInv /\ [HistoryNext]_historyVars => HistoryInv'
  <1> SUFFICES ASSUME HistoryInv, [HistoryNext]_historyVars
               PROVE  HistoryInv'
    OBVIOUS
  <1>1. CASE UNCHANGED historyVars
    BY <1>1 DEF historyVars, HistoryInv, HistoryTypeOK, ObservedInv, StockInv, Stock, LoadedInv
  <1> QED
    BY <1>1, RunStep, StoreStep, PruneStep, CompareStep DEF HistoryNext

\* What runs recorded, what is stored of it and what was loaded of it agree, in
\* whatever order runs, retention and the queries of a comparison come.
THEOREM HistoryInvariant == HistorySpec => []HistoryInv
  BY HistoryStarts, HistoryStep, PTL DEF HistorySpec

-----------------------------------------------------------------------------
(* Comparisons.                                                            *)

\* A device among the last sightings of what was loaded is one that answered.
LEMMA SightingsAreAnswers ==
  ASSUME HistoryInv, NEW side \in Sides, compared.rows[side] # {}, NEW d \in Devices
  PROVE  /\ Sightings(side)[d].present <=> Answered(compared[side], d)
         /\ Sightings(side)[d].present =>
              \E i \in DOMAIN observed : /\ Sightings(side)[d] = observed[i]
                                         /\ observed[i].run = compared[side]
  <1> DEFINE rows == compared.rows[side]
             seen == {i \in rows : observed[i].device = d /\ observed[i].present}
  <1>1. rows = {i \in DOMAIN observed : observed[i].run = compared[side]}
    BY DEF HistoryInv, LoadedInv
  <1>2. Len(observed) \in Nat /\ DOMAIN observed = 1..Len(observed)
    BY TableType DEF HistoryInv
  <1>3. Sightings(side)[d] = IF seen = {} THEN Missed ELSE observed[Latest(seen)]
    BY DEF Sightings
  <1>4. seen # {} <=> Answered(compared[side], d)
    BY <1>1 DEF Answered
  <1>5. CASE seen = {}
    BY <1>3, <1>4, <1>5 DEF Missed
  <1>6. CASE seen # {}
    <2>1. seen \subseteq 1..Len(observed)
      BY <1>1, <1>2
    <2>2. Latest(seen) \in seen
      BY <1>2, <1>6, <2>1, LatestOf
    <2> QED
      BY <1>1, <1>3, <1>4, <1>6, <2>2
  <1> QED
    BY <1>5, <1>6

\* What the report lists is what its two lists of sightings hold.
LEMMA ComparisonFollows == HistoryInv => ComparisonIsTrue
  <1> SUFFICES ASSUME HistoryInv, compared.phase = "done"
               PROVE  LET report == Report
                      IN  IF report.comparable
                          THEN \A d \in Devices :
                                 /\ d \in report.added <=> Answered(compared.target, d) /\ ~Answered(compared.base, d)
                                 /\ d \in report.missing \union report.outside <=>
                                      Answered(compared.base, d) /\ ~Answered(compared.target, d)
                                 /\ d \in report.changed \union report.unchanged <=>
                                      Answered(compared.base, d) /\ Answered(compared.target, d)
                                 /\ d \in report.changed /\ report.closed[d] # {} =>
                                      run[compared.base].ports = "checked" /\ run[compared.target].ports = "checked"
                          ELSE \A list \in {report.added, report.missing, report.outside,
                                            report.changed, report.unchanged} : list = {}
    BY DEF ComparisonIsTrue
  <1> DEFINE report == Report
             before == Sightings("base")
             after == Sightings("target")
             comparable == HasHostResults("base") /\ HasHostResults("target")
             portsCompared == compared.ports = [s \in Sides |-> "checked"]
             listed == {d \in Devices : comparable /\ (before[d].present \/ after[d].present)}
             gone == {d \in listed : ~after[d].present}
             both == {d \in listed : before[d].present /\ after[d].present}
             diff == [d \in both |-> IF portsCompared THEN Diff(before[d], after[d])
                                     ELSE [Same EXCEPT !.moved = before[d].ip # after[d].ip]]
             missing == {d \in gone : before[d].ip \in run[compared.target].range}
  <1> HIDE DEF diff, before, after, comparable
  <1>1. /\ report.comparable = comparable
        /\ report.added = {d \in listed : ~before[d].present}
        /\ report.missing \union report.outside = gone
        /\ report.missing \subseteq gone /\ report.outside \subseteq gone
        /\ report.changed = {d \in both : diff[d] # Same}
        /\ report.unchanged = {d \in both : diff[d] = Same}
        /\ report.closed = [d \in both |-> diff[d].closed]
    BY DEF Report, diff, before, after, comparable
  <1>2. CASE ~comparable
    <2>1. listed = {}
      BY <1>2
    <2> QED
      BY <1>1, <1>2, <2>1
  <1>3. CASE comparable
    <2>1. compared.rows["base"] # {} /\ compared.rows["target"] # {}
      BY <1>3 DEF HasHostResults, comparable
    <2>2. ASSUME NEW d \in Devices
          PROVE  /\ before[d].present <=> Answered(compared.base, d)
                 /\ after[d].present <=> Answered(compared.target, d)
      BY <2>1, SightingsAreAnswers DEF before, after, Sides
    <2>3. ASSUME NEW d \in both, report.closed[d] # {}
          PROVE  run[compared.base].ports = "checked" /\ run[compared.target].ports = "checked"
      <3>1. diff[d].closed # {}
        BY <1>1, <2>3
      <3>2. CASE ~portsCompared
        BY <3>1, <3>2 DEF diff, Same
      <3>3. CASE portsCompared
        <4>1. \A s \in Sides : compared.ports[s] = run[compared[s]].ports
          BY <3>3 DEF HistoryInv, LoadedInv
        <4> QED
          BY <3>3, <4>1 DEF Sides
      <3> QED
        BY <3>2, <3>3
    <2> QED
      BY <1>1, <1>3, <2>2, <2>3
  <1> QED
    BY <1>2, <1>3

\* A comparison says of every device what its two scans found, or nothing of any,
\* whatever finishes or is deleted between its queries.
THEOREM ComparisonsAreTrue == HistorySpec => []ComparisonIsTrue
  BY HistoryInvariant, ComparisonFollows, PTL

-----------------------------------------------------------------------------
(* The timeline.                                                           *)

\* What the loop has read of the observations shown, and their sightings.
Read(shown, n) == {i \in shown : i <= n}
Seen(shown, n) == {i \in shown : i <= n /\ observed[i].present}
LastOf(rows) == IF rows = {} THEN Missed ELSE observed[Latest(rows)]

\* The loop's variables stand for what it has read.
Summary(shown, state, n) ==
  /\ state.first <=> Read(shown, n) = {}
  /\ state.previous = LastOf(Read(shown, n))
  /\ state.known <=> Seen(shown, n) # {}
  /\ state.sighting = LastOf(Seen(shown, n))

\* The loop has a state after each turn, whatever the observations are: a
\* shortest prefix without one would follow from a shorter prefix with one.
LEMMA TimelineTurns ==
  ASSUME Len(observed) \in Nat, NEW d \in Devices
  PROVE  /\ Timeline(d)[0] = Start
         /\ \A i \in 1..Len(observed) :
              Timeline(d)[i] = IF i \in Visible(d) THEN Told(Timeline(d)[i - 1], observed[i])
                                                   ELSE Timeline(d)[i - 1]
  <1> DEFINE Turn(state, i) == IF i \in Visible(d) THEN Told(state, observed[i]) ELSE state
             Turns(f, n) == [i \in 0..n |-> IF i = 0 THEN Start ELSE Turn(f[i - 1], i)]
             without == {n \in Nat : ~\E f : f = Turns(f, n)}
  <1>1. ASSUME without # {}
        PROVE  FALSE
    <2>1. PICK n \in without : \A m \in without : n <= m
      BY <1>1, LeastNumber
    <2>2. CASE n = 0
      <3> DEFINE f == [i \in 0..0 |-> Start]
      <3>1. f = Turns(f, 0)
        OBVIOUS
      <3> QED
        BY <2>1, <2>2, <3>1
    <2>3. CASE n # 0
      <3>1. n - 1 \in Nat /\ n - 1 \notin without
        BY <2>1, <2>3
      <3>2. PICK f : f = Turns(f, n - 1)
        BY <3>1
      <3> DEFINE g == [i \in 0..n |-> IF i = n THEN Turn(f[n - 1], n) ELSE f[i]]
      <3>3. \A i \in 0..(n - 1) : f[i] = IF i = 0 THEN Start ELSE Turn(f[i - 1], i)
        BY <3>2, Zenon
      <3> HIDE DEF Turn
      <3>4. ASSUME NEW i \in 0..n
            PROVE  g[i] = IF i = 0 THEN Start ELSE Turn(g[i - 1], i)
        BY <2>1, <2>3, <3>1, <3>3
      <3>5. g = Turns(g, n)
        BY <3>4
      <3> QED
        BY <2>1, <3>5
    <2> QED
      BY <2>2, <2>3
  <1> DEFINE T == Timeline(d)
  <1>2. T = Turns(T, Len(observed))
    <2>1. \E f : f = Turns(f, Len(observed))
      BY <1>1
    <2> QED
      BY <2>1, Zenon DEF Timeline
  <1> HIDE DEF T, Turn
  <1>3. \A i \in 0..Len(observed) : T[i] = IF i = 0 THEN Start ELSE Turn(T[i - 1], i)
    BY <1>2, Zenon
  <1>4. T[0] = Start /\ \A i \in 1..Len(observed) : T[i] = Turn(T[i - 1], i)
    BY <1>3
  <1> QED
    BY <1>4 DEF T, Turn

\* The last of some numbers is the one the others do not pass.
LEMMA LatestIs ==
  ASSUME NEW top \in Nat, NEW S \in SUBSET (1..top), NEW n \in S, \A j \in S : j <= n
  PROVE  Latest(S) = n
  <1>1. Latest(S) \in S /\ n <= Latest(S)
    BY LatestOf
  <1>2. Latest(S) \in 1..top /\ n \in 1..top /\ Latest(S) <= n
    BY <1>1
  <1> QED
    BY <1>1, <1>2

\* What an observation makes of the loop's variables.
LEMMA ToldState ==
  ASSUME NEW state, NEW o
  PROVE  /\ ~Told(state, o).first /\ Told(state, o).previous = o
         /\ Told(state, o).known <=> state.known \/ o.present
         /\ Told(state, o).sighting = IF o.present THEN o ELSE state.sighting
  BY DEF Told

\* An observation that is not shown leaves the loop's variables what they were.
LEMMA SkippedTurn ==
  ASSUME NEW top \in Nat, NEW shown \in SUBSET (1..top), NEW n \in 1..top, n \notin shown
  PROVE  Read(shown, n) = Read(shown, n - 1) /\ Seen(shown, n) = Seen(shown, n - 1)
  <1>1. \A i \in shown : i <= n <=> i <= n - 1
    OBVIOUS
  <1> QED
    BY <1>1 DEF Read, Seen

\* The last one read is this one.
LEMMA ShownTurn ==
  ASSUME NEW top \in Nat, NEW shown \in SUBSET (1..top), NEW n \in shown
  PROVE  /\ Read(shown, n) # {} /\ Latest(Read(shown, n)) = n
         /\ observed[n].present => Seen(shown, n) # {} /\ Latest(Seen(shown, n)) = n
         /\ ~observed[n].present => Seen(shown, n) = Seen(shown, n - 1)
  <1>0. n \in 1..top /\ n <= n /\ \A i \in shown : i \in 1..top
    OBVIOUS
  <1>1. Read(shown, n) \in SUBSET (1..top) /\ n \in Read(shown, n) /\ \A j \in Read(shown, n) : j <= n
    BY <1>0 DEF Read
  <1>2. Latest(Read(shown, n)) = n
    BY <1>1, LatestIs
  <1>3. CASE observed[n].present
    <2>1. Seen(shown, n) \in SUBSET (1..top) /\ n \in Seen(shown, n) /\ \A j \in Seen(shown, n) : j <= n
      BY <1>0, <1>3 DEF Seen
    <2>2. Latest(Seen(shown, n)) = n
      BY <2>1, LatestIs
    <2> QED
      BY <1>1, <1>2, <1>3, <2>1, <2>2
  <1>4. CASE ~observed[n].present
    <2>1. \A i \in shown : i <= n /\ observed[i].present <=> i <= n - 1 /\ observed[i].present
      BY <1>4
    <2> QED
      BY <1>1, <1>2, <1>4, <2>1 DEF Seen
  <1> QED
    BY <1>3, <1>4

\* What the loop's variables hold at every turn.
LEMMA TimelineState ==
  ASSUME NEW top \in Nat, NEW shown \in SUBSET (1..top), NEW T,
         T[0] = Start,
         \A i \in 1..top : T[i] = IF i \in shown THEN Told(T[i - 1], observed[i]) ELSE T[i - 1]
  PROVE  \A n \in 0..top : Summary(shown, T[n], n)
  <1> DEFINE wrong == {n \in 0..top : ~Summary(shown, T[n], n)}
  <1>1. ASSUME wrong # {}
        PROVE  FALSE
    <2>1. wrong \subseteq Nat
      OBVIOUS
    <2>2. PICK n \in wrong : \A m \in wrong : n <= m
      BY <1>1, <2>1, LeastNumber
    <2>3. n \in 0..top
      OBVIOUS
    <2>4. CASE n = 0
      <3>1. \A i \in shown : ~(i <= 0)
        OBVIOUS
      <3>2. Read(shown, 0) = {} /\ Seen(shown, 0) = {}
        BY <3>1 DEF Read, Seen
      <3>3. Summary(shown, Start, 0)
        BY <3>2 DEF Summary, Start, LastOf
      <3> QED
        BY <2>4, <3>3
    <2>5. CASE n # 0
      <3>1. n \in 1..top /\ n - 1 \in 0..top /\ n - 1 \notin wrong
        BY <2>2, <2>3, <2>5
      <3>2. Summary(shown, T[n - 1], n - 1)
        BY <3>1
      <3>3. CASE n \notin shown
        <4>1. T[n] = T[n - 1]
          BY <3>1, <3>3
        <4> QED
          BY <3>1, <3>2, <3>3, <4>1, SkippedTurn DEF Summary
      <3>4. CASE n \in shown
        <4>1. T[n] = Told(T[n - 1], observed[n])
          BY <3>1, <3>4
        <4>2. /\ ~T[n].first /\ T[n].previous = observed[n]
              /\ T[n].known <=> T[n - 1].known \/ observed[n].present
              /\ T[n].sighting = IF observed[n].present THEN observed[n] ELSE T[n - 1].sighting
          BY <4>1, ToldState
        <4>3. /\ Read(shown, n) # {} /\ Latest(Read(shown, n)) = n
              /\ observed[n].present => Seen(shown, n) # {} /\ Latest(Seen(shown, n)) = n
              /\ ~observed[n].present => Seen(shown, n) = Seen(shown, n - 1)
          BY <3>4, ShownTurn
        <4> QED
          BY <3>2, <4>2, <4>3 DEF Summary, LastOf
      <3> QED
        BY <3>3, <3>4
    <2> QED
      BY <2>4, <2>5
  <1> QED
    BY <1>1

\* The title of a silent scan, and of a sighting of a device seen before.
LEMMA TitlesOfSilence ==
  ASSUME NEW state, NEW o, ~o.present
  PROVE  Told(state, o).titles = IF state.first \/ state.previous.present THEN {"silent"} ELSE {}
  <1>1. Titles(state, o) = IF state.first \/ state.previous.present THEN {"silent"} ELSE {}
    BY Zenon DEF Titles
  <1> QED
    BY <1>1 DEF Told

LEMMA TitlesOfSighting ==
  ASSUME NEW state, NEW o, o.present, state.known
  PROVE  /\ Told(state, o).diff = Diff(state.sighting, o)
         /\ Told(state, o).titles = IF ~state.previous.present THEN {"returned"}
                                    ELSE IF Diff(state.sighting, o) # Same THEN {"changed"} ELSE {}
  <1>1. Titles(state, o) = IF ~state.previous.present THEN {"returned"}
                           ELSE IF Diff(state.sighting, o) # Same THEN {"changed"} ELSE {}
    BY Zenon DEF Titles, Reference
  <1>2. Told(state, o).titles = Titles(state, o)
    BY DEF Told
  <1>3. Told(state, o).diff = Diff(state.sighting, o)
    BY DEF Told, Reference
  <1> QED
    BY <1>1, <1>2, <1>3

\* A silent spell is told at its first scan, and at no other of them.
LEMMA SpellsAreTold ==
  ASSUME NEW top \in Nat, NEW shown \in SUBSET (1..top), NEW T,
         \A n \in shown : T[n] = Told(T[n - 1], observed[n]) /\ Summary(shown, T[n - 1], n - 1)
  PROVE  SilenceToldOnce(shown, T)
  <1> SUFFICES ASSUME NEW i \in shown, ~observed[i].present
               PROVE  \E first \in shown :
                        {j \in shown : /\ j <= i /\ T[j].titles = {"silent"}
                                       /\ \A m \in shown : j <= m /\ m <= i => ~observed[m].present} = {first}
    BY DEF SilenceToldOnce
  <1> DEFINE spell == {j \in shown : j <= i /\ \A m \in shown : j <= m /\ m <= i => ~observed[m].present}
             tellers == {j \in shown : /\ j <= i /\ T[j].titles = {"silent"}
                                       /\ \A m \in shown : j <= m /\ m <= i => ~observed[m].present}
  <1>1. \A j \in shown : j \in 1..top
    OBVIOUS
  <1>2. i \in spell /\ spell \subseteq shown /\ spell \in SUBSET Nat
    <2>1. i \in 1..top /\ i <= i /\ \A m \in shown : i <= m /\ m <= i => m = i
      BY <1>1
    <2>2. i \in spell
      BY <2>1
    <2>3. spell \subseteq shown /\ shown \subseteq Nat
      BY <1>1
    <2> QED
      BY <2>2, <2>3
  <1>3. PICK first \in spell : \A j \in spell : first <= j
    BY <1>2, LeastNumber
  <1>4. ASSUME NEW j \in spell
        PROVE  T[j].titles = IF Read(shown, j - 1) = {} \/ observed[Latest(Read(shown, j - 1))].present
                             THEN {"silent"} ELSE {}
    <2>1. j \in shown /\ j \in 1..top /\ ~observed[j].present
      BY <1>1
    <2>2. T[j].titles = IF T[j - 1].first \/ T[j - 1].previous.present THEN {"silent"} ELSE {}
      BY <2>1, TitlesOfSilence
    <2>3. (T[j - 1].first <=> Read(shown, j - 1) = {}) /\ T[j - 1].previous = LastOf(Read(shown, j - 1))
      BY <2>1 DEF Summary
    <2>4. CASE Read(shown, j - 1) = {}
      BY <2>2, <2>3, <2>4
    <2>5. CASE Read(shown, j - 1) # {}
      BY <2>2, <2>3, <2>5 DEF LastOf
    <2> QED
      BY <2>4, <2>5
  <1>5. ASSUME NEW j \in spell, Read(shown, j - 1) # {}
        PROVE  LET k == Latest(Read(shown, j - 1))
               IN  k \in shown /\ k <= j - 1 /\ \A m \in shown : m <= j - 1 => m <= k
    <2>1. Read(shown, j - 1) \in SUBSET (1..top)
      BY <1>1 DEF Read
    <2>2. LET k == Latest(Read(shown, j - 1))
          IN  k \in Read(shown, j - 1) /\ \A m \in Read(shown, j - 1) : m <= k
      BY <1>5, <2>1, LatestOf
    <2> QED
      BY <2>2 DEF Read
  <1>6. first \in tellers
    <2>1. CASE Read(shown, first - 1) = {}
      BY <1>2, <1>3, <1>4, <2>1
    <2>2. CASE Read(shown, first - 1) # {}
      <3> DEFINE k == Latest(Read(shown, first - 1))
      <3>1. k \in shown /\ k <= first - 1 /\ \A m \in shown : m <= first - 1 => m <= k
        BY <1>3, <1>5, <2>2
      <3>2. k \in 1..top /\ first \in 1..top /\ i \in 1..top /\ first \in shown /\ first <= i
        BY <1>1, <1>2, <1>3, <3>1
      <3> HIDE DEF k
      <3>3. k \notin spell /\ k < first /\ k <= i
        BY <1>3, <3>1, <3>2
      <3>4. PICK m \in shown : k <= m /\ m <= i /\ observed[m].present
        BY <3>1, <3>3
      <3>5. m \in 1..top /\ ~(first <= m)
        BY <1>1, <1>3, <3>4
      <3>6. m = k
        BY <3>1, <3>2, <3>4, <3>5
      <3>7. T[first].titles = {"silent"}
        BY <1>3, <1>4, <3>4, <3>6 DEF k
      <3> QED
        BY <1>2, <1>3, <3>7
    <2> QED
      BY <2>1, <2>2
  <1>7. ASSUME NEW j \in tellers
        PROVE  j = first
    <2>1. j \in spell /\ T[j].titles = {"silent"}
      OBVIOUS
    <2>2. j \in 1..top /\ first \in 1..top /\ first \in shown /\ first <= j /\ j <= i /\ i \in 1..top
      BY <1>1, <1>2, <1>3, <2>1
    <2>3. CASE first < j
      <3>1. first \in Read(shown, j - 1)
        BY <2>2, <2>3 DEF Read
      <3> DEFINE k == Latest(Read(shown, j - 1))
      <3>2. k \in shown /\ k <= j - 1 /\ first <= k
        BY <1>5, <2>1, <2>2, <2>3, <3>1
      <3>3. k \in 1..top
        BY <1>1, <3>2
      <3>4. observed[k].present
        BY <1>4, <2>1, <3>1
      <3> HIDE DEF k
      <3>5. k <= i
        BY <2>2, <3>2, <3>3
      <3>6. ~observed[k].present
        BY <1>3, <3>2, <3>5
      <3> QED
        BY <3>4, <3>6
    <2> QED
      BY <2>2, <2>3
  <1>8. tellers = {first}
    BY <1>6, <1>7
  <1> QED
    BY <1>2, <1>3, <1>8

\* How two sightings differ, member by member.
LEMMA DiffMembers ==
  ASSUME NEW before, NEW after
  PROVE  LET looked == NotChecked \notin {before.ports, after.ports}
         IN  /\ Diff(before, after).moved <=> before.ip # after.ip
             /\ Diff(before, after).opened = IF looked THEN after.ports \ before.ports ELSE {}
             /\ Diff(before, after).closed = IF looked THEN before.ports \ after.ports ELSE {}
  <1>1. Diff(before, after).moved <=> before.ip # after.ip
    BY DEF Diff
  <1>2. Diff(before, after).opened =
          IF NotChecked \notin {before.ports, after.ports} THEN after.ports \ before.ports ELSE {}
    BY DEF Diff
  <1>3. Diff(before, after).closed =
          IF NotChecked \notin {before.ports, after.ports} THEN before.ports \ after.ports ELSE {}
    BY DEF Diff
  <1> QED
    BY <1>1, <1>2, <1>3

\* A sighting is compared with the one before it, whose ports count only if
\* both runs looked at them.
LEMMA ChangesAreTold ==
  ASSUME HistoryInv, NEW shown \in SUBSET (1..Len(observed)), NEW T,
         \A n \in shown : T[n] = Told(T[n - 1], observed[n]) /\ Summary(shown, T[n - 1], n - 1)
  PROVE  ChangesTold(shown, T)
  <1> SUFFICES ASSUME NEW p \in shown, NEW n \in shown, Consecutive(shown, p, n)
               PROVE  LET before == observed[p]
                          after == observed[n]
                          looked == run[before.run].ports = "checked" /\ run[after.run].ports = "checked"
                          event == T[n]
                      IN  /\ event.diff.moved <=> before.ip # after.ip
                          /\ event.diff.closed = {q \in Ports : looked /\ q \in before.ports /\ q \notin after.ports}
                          /\ event.diff.opened = {q \in Ports : looked /\ q \notin before.ports /\ q \in after.ports}
                          /\ event.titles = IF \E i \in shown : p < i /\ i < n THEN {"returned"}
                                            ELSE IF event.diff # Same THEN {"changed"} ELSE {}
    BY DEF ChangesTold
  <1> DEFINE top == Len(observed)
  <1>1. /\ top \in Nat /\ p \in 1..top /\ n \in 1..top /\ p < n /\ p <= n - 1
        /\ \A i \in shown : i \in 1..top
        /\ observed[p].present /\ observed[n].present
        /\ \A i \in shown : p < i /\ i < n => ~observed[i].present
    <2>1. /\ p < n /\ observed[p].present /\ observed[n].present
          /\ \A i \in shown : p < i /\ i < n => ~observed[i].present
      BY DEF Consecutive
    <2>2. top \in Nat /\ p \in 1..top /\ n \in 1..top /\ \A i \in shown : i \in 1..top
      BY TableType DEF HistoryInv
    <2>3. p <= n - 1
      BY <2>1, <2>2
    <2> QED
      BY <2>1, <2>2, <2>3
  <1>2. Seen(shown, n - 1) # {} /\ Latest(Seen(shown, n - 1)) = p
    <2>1. p \in Seen(shown, n - 1) /\ Seen(shown, n - 1) \in SUBSET (1..top)
      BY <1>1 DEF Seen
    <2>2. \A i \in Seen(shown, n - 1) : i <= p
      <3> SUFFICES ASSUME NEW i \in shown, i <= n - 1, observed[i].present
                   PROVE  i <= p
        BY DEF Seen
      <3>1. i \in 1..top /\ i < n
        BY <1>1
      <3> QED
        BY <1>1, <3>1
    <2> QED
      BY <1>1, <2>1, <2>2, LatestIs
  <1> DEFINE k == Latest(Read(shown, n - 1))
  <1>3. /\ Read(shown, n - 1) # {}
        /\ k \in shown /\ k <= n - 1 /\ \A i \in shown : i <= n - 1 => i <= k
    <2>1. p \in Read(shown, n - 1) /\ Read(shown, n - 1) \in SUBSET (1..top)
      BY <1>1 DEF Read
    <2>2. k \in Read(shown, n - 1) /\ \A i \in Read(shown, n - 1) : i <= k
      BY <1>1, <2>1, LatestOf
    <2> QED
      BY <2>1, <2>2 DEF Read
  <1>4. T[n] = Told(T[n - 1], observed[n]) /\ T[n - 1].known
        /\ T[n - 1].sighting = observed[p] /\ T[n - 1].previous = observed[k]
    BY <1>2, <1>3 DEF Summary, LastOf
  <1> HIDE DEF k
  <1>5. /\ T[n].diff = Diff(observed[p], observed[n])
        /\ T[n].titles = IF ~observed[k].present THEN {"returned"}
                         ELSE IF Diff(observed[p], observed[n]) # Same THEN {"changed"} ELSE {}
    BY <1>1, <1>4, TitlesOfSighting
  <1>6. observed[k].present <=> ~\E i \in shown : p < i /\ i < n
    <2>1. k \in 1..top /\ p <= k /\ k < n
      BY <1>1, <1>3
    <2>2. CASE k = p
      <3>1. \A i \in shown : ~(p < i /\ i < n)
        BY <1>1, <1>3, <2>2
      <3> QED
        BY <1>1, <2>2, <3>1
    <2>3. CASE k # p
      BY <1>1, <1>3, <2>1, <2>3
    <2> QED
      BY <2>2, <2>3
  <1>7. /\ observed[p].ports # NotChecked <=> run[observed[p].run].ports = "checked"
        /\ observed[n].ports # NotChecked <=> run[observed[n].run].ports = "checked"
        /\ observed[p].ports \in (SUBSET Ports) \union {NotChecked}
        /\ observed[n].ports \in (SUBSET Ports) \union {NotChecked}
    <2>1. p \in DOMAIN observed /\ n \in DOMAIN observed
      BY <1>1, TableType DEF HistoryInv
    <2>2. observed[p] \in Observation /\ observed[n] \in Observation
      BY <2>1, TableType DEF HistoryInv
    <2>3. \A o \in Observation : o.ports \in (SUBSET Ports) \union {NotChecked}
      BY DEF Observation
    <2> QED
      BY <1>1, <2>1, <2>2, <2>3 DEF HistoryInv, ObservedInv
  <1> DEFINE looked == run[observed[p].run].ports = "checked" /\ run[observed[n].run].ports = "checked"
  <1>8. looked <=> NotChecked \notin {observed[p].ports, observed[n].ports}
    BY <1>7
  <1>9. looked => observed[p].ports \subseteq Ports /\ observed[n].ports \subseteq Ports
    BY <1>7, <1>8
  <1> HIDE DEF looked
  <1>10. /\ T[n].diff.moved <=> observed[p].ip # observed[n].ip
         /\ T[n].diff.opened = IF looked THEN observed[n].ports \ observed[p].ports ELSE {}
         /\ T[n].diff.closed = IF looked THEN observed[p].ports \ observed[n].ports ELSE {}
    <2> DEFINE diff == Diff(observed[p], observed[n])
    <2>1. diff.moved <=> observed[p].ip # observed[n].ip
      BY DiffMembers
    <2>2. /\ diff.opened = IF looked THEN observed[n].ports \ observed[p].ports ELSE {}
          /\ diff.closed = IF looked THEN observed[p].ports \ observed[n].ports ELSE {}
      <3>1. CASE looked
        BY <1>8, <3>1, DiffMembers
      <3>2. CASE ~looked
        BY <1>8, <3>2, DiffMembers
      <3> QED
        BY <3>1, <3>2
    <2> HIDE DEF diff
    <2> QED
      BY <1>5, <2>1, <2>2 DEF diff
  <1>11. /\ T[n].diff.closed = {q \in Ports : looked /\ q \in observed[p].ports /\ q \notin observed[n].ports}
         /\ T[n].diff.opened = {q \in Ports : looked /\ q \notin observed[p].ports /\ q \in observed[n].ports}
    BY <1>9, <1>10
  <1>12. T[n].titles = IF \E i \in shown : p < i /\ i < n THEN {"returned"}
                       ELSE IF T[n].diff # Same THEN {"changed"} ELSE {}
    BY <1>5, <1>6
  <1> QED
    BY <1>10, <1>11, <1>12 DEF looked

\* The timeline of any observations, read through any window, is true.
LEMMA TimelineFollows == HistoryInv => TimelineIsTrue
  <1> SUFFICES ASSUME HistoryInv, NEW d \in Devices
               PROVE  SilenceToldOnce(Visible(d), Timeline(d)) /\ ChangesTold(Visible(d), Timeline(d))
    BY DEF TimelineIsTrue
  <1> DEFINE shown == Visible(d)
             T == Timeline(d)
             top == Len(observed)
  <1>1. top \in Nat /\ shown \in SUBSET (1..top)
    BY TableType DEF HistoryInv, Visible
  <1>2. /\ T[0] = Start
        /\ \A i \in 1..top : T[i] = IF i \in shown THEN Told(T[i - 1], observed[i]) ELSE T[i - 1]
    BY <1>1, TimelineTurns
  <1> HIDE DEF shown, T
  <1>3. \A n \in 0..top : Summary(shown, T[n], n)
    BY <1>1, <1>2, TimelineState
  <1>4. \A n \in shown : T[n] = Told(T[n - 1], observed[n]) /\ Summary(shown, T[n - 1], n - 1)
    <2> SUFFICES ASSUME NEW n \in shown
                 PROVE  T[n] = Told(T[n - 1], observed[n]) /\ Summary(shown, T[n - 1], n - 1)
      OBVIOUS
    <2>1. n \in 1..top /\ n - 1 \in 0..top
      BY <1>1
    <2> QED
      BY <1>2, <1>3, <2>1
  <1>5. SilenceToldOnce(shown, T)
    BY <1>1, <1>4, SpellsAreTold
  <1>6. ChangesTold(shown, T)
    BY <1>1, <1>4, ChangesAreTold
  <1> QED
    BY <1>5, <1>6 DEF shown, T

\* Every timeline tells each silence once and exactly the changes between
\* consecutive sightings, of any number of scans.
THEOREM TimelinesAreTrue == HistorySpec => []TimelineIsTrue
  BY HistoryInvariant, TimelineFollows, PTL

\* The runs, their observations and the comparison keep their types.
THEOREM HistoryTypeCorrect == HistorySpec => []HistoryTypeOK
  <1>1. HistoryInv => HistoryTypeOK
    BY DEF HistoryInv
  <1> QED
    BY <1>1, HistoryInvariant, PTL
=============================================================================
