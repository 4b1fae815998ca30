------------------------ MODULE ExecutionEngineProofs ------------------------
(***************************************************************************)
(* Theorems of ExecutionEngine, for every finite set of calls and every    *)
(* pool size.  The argument: the permits out of the pool are exactly the   *)
(* calls inside run() (PermitsConserved), and a live, unkilled program     *)
(* belongs to such a call or to one the shutdown cancelled (CallHistory);  *)
(* so live programs are at most permits out, hence at most the pool.       *)
(***************************************************************************)
EXTENDS ExecutionEngine, FiniteSetTheorems, TLAPS

\* What a call's program point says of its outcome and of its child.
CallHistory == \A c \in Calls :
  /\ pc[c] # "done" => outcome[c] = "none"
  /\ pc[c] \in {"idle", "spawning"} => leader[c] = "none"
  /\ pc[c] = "killing" => signal[c] = "KILL"
  /\ signal[c] = "KILL" => pc[c] \in {"killing", "done"}
  /\ leader[c] = "alive" /\ signal[c] # "KILL" =>
       pc[c] \in {"running", "terming"} \/ outcome[c] = "cancelled"
  /\ outcome[c] \in {"success", "failed"} => Drained(c)

IInv == TypeOK /\ PermitsConserved /\ CallHistory

-----------------------------------------------------------------------------
LEMMA CapacityType == Capacity \in [Kinds -> Nat] /\ \A c \in Calls : Kind(c) \in Kinds
  BY EngineAssumption DEF Capacity, Kinds, Kind

\* The holders of a kind are a finite set: they are calls.
LEMMA HoldersFinite ==
  ASSUME NEW k \in Kinds
  PROVE  IsFiniteSet(Holders(k)) /\ Cardinality(Holders(k)) \in Nat
  <1>1. Holders(k) \in SUBSET Calls
    BY DEF Holders
  <1>2. IsFiniteSet(Holders(k))
    BY <1>1, EngineAssumption, FS_Subset
  <1> QED
    BY <1>2, FS_CardinalityType

-----------------------------------------------------------------------------
(* How a step moves the permits: it leaves holders and permits alone, or   *)
(* one call takes a permit of its kind, or one call gives it back.         *)

Keeps == /\ UNCHANGED free
         /\ \A d \in Calls : pc'[d] \in Holding <=> pc[d] \in Holding

Takes(c) == /\ free[Kind(c)] > 0
            /\ free' = [free EXCEPT ![Kind(c)] = @ - 1]
            /\ pc[c] \notin Holding
            /\ pc'[c] \in Holding
            /\ \A d \in Calls \ {c} : pc'[d] = pc[d]

Gives(c) == /\ free' = [free EXCEPT ![Kind(c)] = @ + 1]
            /\ pc[c] \in Holding
            /\ pc'[c] \notin Holding
            /\ \A d \in Calls \ {c} : pc'[d] = pc[d]

LEMMA PermitMoves ==
  ASSUME TypeOK, [Next]_vars
  PROVE  Keeps \/ \E c \in Calls : Takes(c) \/ Gives(c)
  <1> USE DEF TypeOK, Keeps, Holding
  <1>1. CASE Shutdown
    BY <1>1 DEF Shutdown
  <1>2. CASE UNCHANGED vars
    BY <1>2 DEF vars
  <1>3. ASSUME NEW c \in Calls, System(c)
        PROVE  Keeps
    BY <1>3 DEF System, Fork, LeaderExits, HelperExits
  <1>4. ASSUME NEW c \in Calls, Engine(c)
        PROVE  Keeps \/ Takes(c) \/ Gives(c)
    <2>1. CASE Reject(c) \/ Busy(c)
      BY <2>1 DEF Reject, Busy, Refuse
    <2>2. CASE Admit(c)
      BY <2>2 DEF Admit, Takes
    <2>3. CASE Spawn(c) \/ ExpireAlive(c) \/ GraceExpires(c)
      BY <2>3 DEF Spawn, ExpireAlive, GraceExpires
    <2>4. CASE SpawnFails(c) \/ Complete(c) \/ ExpireReaped(c) \/ GraceEnds(c)
               \/ KillEnds(c) \/ Cancel(c)
      BY <2>4 DEF SpawnFails, Complete, ExpireReaped, GraceEnds, KillEnds, Cancel,
                  Release, Gives
    <2> QED
      BY <1>4, <2>1, <2>2, <2>3, <2>4 DEF Engine, Timer
  <1> QED
    BY <1>1, <1>2, <1>3, <1>4 DEF Next

LEMMA PermitsStep ==
  ASSUME TypeOK, TypeOK', PermitsConserved, [Next]_vars
  PROVE  PermitsConserved'
  <1> SUFFICES ASSUME NEW k \in Kinds
               PROVE  free'[k] + Cardinality(Holders(k)') = Capacity[k]
    BY DEF PermitsConserved
  <1>0. /\ free[k] + Cardinality(Holders(k)) = Capacity[k]
        /\ free[k] \in Nat /\ Cardinality(Holders(k)) \in Nat
        /\ IsFiniteSet(Holders(k)) /\ Capacity[k] \in Nat
    BY HoldersFinite, CapacityType DEF PermitsConserved, TypeOK
  <1>1. CASE Keeps
    <2>1. Holders(k)' = Holders(k)
      BY <1>1 DEF Keeps, Holders
    <2> QED
      BY <1>0, <1>1, <2>1 DEF Keeps
  <1>2. ASSUME NEW c \in Calls, Takes(c)
        PROVE  free'[k] + Cardinality(Holders(k)') = Capacity[k]
    <2>1. CASE Kind(c) = k
      <3>1. Holders(k)' = Holders(k) \union {c} /\ c \notin Holders(k)
        BY <1>2, <2>1 DEF Takes, Holders
      <3>2. Cardinality(Holders(k)') = Cardinality(Holders(k)) + 1
        BY <3>1, <1>0, FS_AddElement
      <3>3. free'[k] = free[k] - 1
        BY <1>2, <2>1 DEF Takes, TypeOK
      <3> QED
        BY <1>0, <3>2, <3>3
    <2>2. CASE Kind(c) # k
      <3>1. Holders(k)' = Holders(k)
        BY <1>2, <2>2 DEF Takes, Holders
      <3>2. free'[k] = free[k]
        BY <1>2, <2>2, CapacityType DEF Takes, TypeOK
      <3> QED
        BY <1>0, <3>1, <3>2
    <2> QED
      BY <2>1, <2>2
  <1>3. ASSUME NEW c \in Calls, Gives(c)
        PROVE  free'[k] + Cardinality(Holders(k)') = Capacity[k]
    <2>1. CASE Kind(c) = k
      <3>1. Holders(k)' = Holders(k) \ {c} /\ c \in Holders(k)
        BY <1>3, <2>1 DEF Gives, Holders
      <3>2. Cardinality(Holders(k)') = Cardinality(Holders(k)) - 1
        BY <3>1, <1>0, FS_RemoveElement
      <3>3. free'[k] = free[k] + 1
        BY <1>3, <2>1 DEF Gives, TypeOK
      <3> QED
        BY <1>0, <3>2, <3>3
    <2>2. CASE Kind(c) # k
      <3>1. Holders(k)' = Holders(k)
        BY <1>3, <2>2 DEF Gives, Holders
      <3>2. free'[k] = free[k]
        BY <1>3, <2>2, CapacityType DEF Gives, TypeOK
      <3> QED
        BY <1>0, <3>1, <3>2
    <2> QED
      BY <2>1, <2>2
  <1> QED
    BY <1>1, <1>2, <1>3, PermitMoves

-----------------------------------------------------------------------------
LEMMA InitIInv == Init => IInv
  <1> SUFFICES ASSUME Init PROVE IInv
    OBVIOUS
  <1>1. TypeOK
    BY CapacityType DEF Init, TypeOK, Outcomes
  <1>2. CallHistory
    BY DEF Init, CallHistory
  <1>3. PermitsConserved
    <2> SUFFICES ASSUME NEW k \in Kinds
                 PROVE  free[k] + Cardinality(Holders(k)) = Capacity[k]
      BY DEF PermitsConserved
    <2>1. Holders(k) = {}
      BY DEF Init, Holders, Holding
    <2>2. Cardinality(Holders(k)) = 0
      BY <2>1, FS_EmptySet
    <2>3. free[k] = Capacity[k] /\ Capacity[k] \in Nat
      BY CapacityType DEF Init
    <2> QED
      BY <2>2, <2>3
  <1> QED
    BY <1>1, <1>2, <1>3 DEF IInv

\* A permit is taken only where one is free, so the counters stay naturals.
LEMMA TypeStep ==
  ASSUME TypeOK, [Next]_vars
  PROVE  TypeOK'
  <1> USE CapacityType DEF TypeOK, Holding, Outcomes
  <1>1. CASE Shutdown
    BY <1>1 DEF Shutdown, procVars
  <1>2. CASE UNCHANGED vars
    BY <1>2 DEF vars
  <1>3. ASSUME NEW c \in Calls, System(c)
        PROVE  TypeOK'
    BY <1>3 DEF System, Fork, LeaderExits, HelperExits
  <1>4. ASSUME NEW c \in Calls, Engine(c)
        PROVE  TypeOK'
    <2>1. CASE Reject(c) \/ Busy(c)
      BY <2>1 DEF Reject, Busy, Refuse, procVars
    <2>2. CASE Admit(c)
      BY <2>2 DEF Admit, procVars
    <2>3. CASE Spawn(c)
      BY <2>3 DEF Spawn
    <2>4. CASE ExpireAlive(c) \/ GraceExpires(c)
      BY <2>4 DEF ExpireAlive, GraceExpires
    <2>5. CASE Complete(c)
      BY <2>5 DEF Complete, Release, procVars
    <2>6. CASE SpawnFails(c) \/ ExpireReaped(c) \/ GraceEnds(c) \/ KillEnds(c) \/ Cancel(c)
      BY <2>6 DEF SpawnFails, ExpireReaped, GraceEnds, KillEnds, Cancel, Release, procVars
    <2> QED
      BY <1>4, <2>1, <2>2, <2>3, <2>4, <2>5, <2>6 DEF Engine, Timer
  <1> QED
    BY <1>1, <1>2, <1>3, <1>4 DEF Next

LEMMA HistoryStep ==
  ASSUME TypeOK, CallHistory, [Next]_vars
  PROVE  CallHistory'
  <1> USE DEF TypeOK, CallHistory, Drained
  <1>1. CASE Shutdown
    BY <1>1 DEF Shutdown, procVars
  <1>2. CASE UNCHANGED vars
    BY <1>2 DEF vars
  <1>3. ASSUME NEW c \in Calls, System(c)
        PROVE  CallHistory'
    <2>1. CASE Fork(c)
      BY <2>1 DEF Fork
    <2>2. CASE LeaderExits(c)
      BY <2>2 DEF LeaderExits
    <2>3. CASE HelperExits(c)
      BY <2>3 DEF HelperExits
    <2> QED
      BY <1>3, <2>1, <2>2, <2>3 DEF System
  <1>4. ASSUME NEW c \in Calls, Engine(c)
        PROVE  CallHistory'
    <2>1. CASE Reject(c) \/ Busy(c)
      BY <2>1 DEF Reject, Busy, Refuse, procVars
    <2>2. CASE Admit(c)
      BY <2>2 DEF Admit, procVars
    <2>3. CASE Spawn(c)
      BY <2>3 DEF Spawn
    <2>4. CASE ExpireAlive(c) \/ GraceExpires(c)
      BY <2>4 DEF ExpireAlive, GraceExpires
    <2>5. CASE Complete(c) \/ GraceEnds(c)
      BY <2>5 DEF Complete, GraceEnds, Release, procVars
    <2>6. CASE SpawnFails(c)
      BY <2>6 DEF SpawnFails, Release, procVars
    <2>7. CASE ExpireReaped(c)
      BY <2>7 DEF ExpireReaped, Release, procVars
    <2>8. CASE KillEnds(c)
      BY <2>8 DEF KillEnds, Release, procVars
    <2>9. CASE Cancel(c)
      BY <2>9 DEF Cancel, Holding, Release, procVars
    <2> QED
      BY <1>4, <2>1, <2>2, <2>3, <2>4, <2>5, <2>6, <2>7, <2>8, <2>9 DEF Engine, Timer
  <1> QED
    BY <1>1, <1>2, <1>3, <1>4 DEF Next

\* The inductive invariant of the engine: types, the permit accounting and
\* what each program point implies hold in every reachable state.
THEOREM EngineInvariant == Spec => []IInv
  <1>1. Init => IInv
    BY InitIInv
  <1>2. IInv /\ [Next]_vars => IInv'
    BY TypeStep, PermitsStep, HistoryStep DEF IInv
  <1> QED
    BY <1>1, <1>2, PTL DEF Spec

-----------------------------------------------------------------------------
\* run() and _spawn() keep every variable in its type; in particular no
\* semaphore ever goes below zero.
THEOREM TypeCorrect == Spec => []TypeOK
  BY EngineInvariant, PTL DEF IInv

\* The permit is always returned (the `finally` of run()): free permits and
\* calls inside run() add up to the pool, whatever the number of calls.
THEOREM PermitsAlwaysReturned == Spec => []PermitsConserved
  BY EngineInvariant, PTL DEF IInv

\* A result reported as success or failed was built after end-of-file.
THEOREM ResultsComplete == Spec => []ResultIsComplete
  <1>1. IInv => ResultIsComplete
    BY DEF IInv, CallHistory, ResultIsComplete
  <1> QED
    BY <1>1, EngineInvariant, PTL

\* However many timeouts happen, the live programs nobody killed never
\* outnumber the pool: _terminate() does not give a permit back while its
\* direct child runs unkilled.
THEOREM ProgramsAreBounded == Spec => []ProgramsBounded
  <1>1. IInv => ProgramsBounded
    <2> SUFFICES ASSUME IInv, NEW k \in Kinds
                 PROVE  Cardinality(Unchecked(k)) <= Capacity[k]
      BY DEF ProgramsBounded
    <2>1. Unchecked(k) \in SUBSET Holders(k)
      BY DEF IInv, CallHistory, Unchecked, Unpunished, Holders, Holding
    <2>2. IsFiniteSet(Unchecked(k)) /\ Cardinality(Unchecked(k)) <= Cardinality(Holders(k))
      BY <2>1, HoldersFinite, FS_Subset
    <2>3. /\ free[k] + Cardinality(Holders(k)) = Capacity[k]
          /\ free[k] \in Nat /\ Cardinality(Holders(k)) \in Nat
          /\ Cardinality(Unchecked(k)) \in Nat
      BY <2>2, HoldersFinite, FS_CardinalityType DEF IInv, PermitsConserved, TypeOK
    <2> QED
      BY <2>2, <2>3, CapacityType
  <1> QED
    BY <1>1, EngineInvariant, PTL

-----------------------------------------------------------------------------
(* The engine implements AdmissionGate. *)

LEMMA GateInit == Init => Gate!Init
  BY DEF Init, Gate!Init, Place, Unpunished, Holding

\* A call is inside the gate while it holds a permit.
LEMMA GateInside ==
  ASSUME NEW k \in Kinds
  PROVE  Gate!Inside(k) = Holders(k)
  BY DEF Gate!Inside, Holders, Place

\* Where a call is, as its program point and its outcome tell.
LEMMA PlaceOf ==
  ASSUME NEW c \in Calls
  PROVE  /\ pc[c] \in Holding => Place(c) = "inside"
         /\ pc[c] = "idle" /\ outcome[c] = "none" => Place(c) = "outside"
         /\ pc[c] = "done" /\ outcome[c] = "busy" => Place(c) = "busy"
         /\ pc[c] = "done" /\ outcome[c] = "rejected" => Place(c) = "refused"
         /\ pc[c] = "done" /\ outcome[c] = "cancelled" => Place(c) = "torn down"
         /\ pc[c] = "done" /\ outcome[c] \in {"spawn_error", "success", "failed", "timeout"}
              => Place(c) = "served"
  BY DEF Place, Holding

\* The place of one call changes, and that of no other.
LEMMA GateGoes ==
  ASSUME NEW c \in Calls, NEW p, Place(c)' = p,
         \A d \in Calls \ {c} : Place(d)' = Place(d)
  PROVE  Gate!Goes(c, p)
  BY DEF Gate!Goes

\* The gate counts with its own instance of FiniteSets.
LEMMA GateCounts == \A S : Gate!Cardinality(S) = Cardinality(S)
  BY DEF Gate!Cardinality, Cardinality

\* A call that holds no permit knows whether its pool has room.
LEMMA GateRoom ==
  ASSUME IInv, NEW c \in Calls
  PROVE  /\ free[Kind(c)] > 0 => Gate!Cardinality(Gate!Inside(Kind(c))) < Capacity[Kind(c)]
         /\ free[Kind(c)] = 0 => Gate!Cardinality(Gate!Inside(Kind(c))) = Capacity[Kind(c)]
  <1>1. Kind(c) \in Kinds /\ Capacity[Kind(c)] \in Nat
    BY CapacityType
  <1>2. Gate!Cardinality(Gate!Inside(Kind(c))) = Cardinality(Holders(Kind(c)))
    BY <1>1, GateInside, GateCounts
  <1>3. Cardinality(Holders(Kind(c))) \in Nat /\ free[Kind(c)] \in Nat
    BY <1>1, HoldersFinite DEF IInv, TypeOK
  <1>4. free[Kind(c)] + Cardinality(Holders(Kind(c))) = Capacity[Kind(c)]
    BY <1>1 DEF IInv, PermitsConserved
  <1> QED
    BY <1>1, <1>2, <1>3, <1>4

\* A call gives its permit back with result o.
LEMMA GateLeaves ==
  ASSUME IInv, NEW c \in Calls, pc[c] \in Holding, NEW o, Release(c, o),
         UNCHANGED procVars,
         \/ o = "cancelled"
         \/ ~Unpunished(c) /\ o \in {"spawn_error", "success", "failed", "timeout"}
  PROVE  Gate!Next
  <1> DEFINE torn == o = "cancelled"
             p == IF torn THEN "torn down" ELSE "served"
  <1>1. /\ pc'[c] = "done" /\ outcome'[c] = o
        /\ \A d \in Calls \ {c} : pc'[d] = pc[d] /\ outcome'[d] = outcome[d]
    BY DEF Release, IInv, TypeOK
  <1>2. leader' = leader /\ signal' = signal
    BY DEF procVars
  <1>3. Place(c) = "inside"
    BY PlaceOf
  <1>4. Place(c)' = p
    BY <1>1 DEF Place, Holding
  <1>5. \A d \in Calls \ {c} : Place(d)' = Place(d)
    BY <1>1 DEF Place
  <1>6. Gate!Goes(c, p)
    BY <1>4, <1>5, GateGoes
  <1>7. {d \in Calls : Unpunished(d)}' = {d \in Calls : Unpunished(d)} \ {c}
    <2>1. outcome[c] # "cancelled"
      BY DEF IInv, CallHistory, Holding
    <2>2. ~Unpunished(c)'
      BY <1>1, <1>2, <2>1 DEF Unpunished
    <2>3. \A d \in Calls \ {c} : Unpunished(d)' <=> Unpunished(d)
      BY <1>1, <1>2 DEF Unpunished
    <2> QED
      BY <2>2, <2>3
  <1>8. torn \in BOOLEAN /\ (torn \/ ~Unpunished(c))
    OBVIOUS
  <1>9. Gate!Leave(c, torn)
    BY <1>3, <1>6, <1>7, <1>8 DEF Gate!Leave
  <1> QED
    BY <1>8, <1>9 DEF Gate!Next

\* A call that never held a permit ends.
LEMMA GateRefuses ==
  ASSUME IInv, NEW c \in Calls, pc[c] = "idle", NEW o \in {"busy", "rejected"}, Refuse(c, o)
  PROVE  /\ Place(c) = "outside"
         /\ Gate!Goes(c, IF o = "busy" THEN "busy" ELSE "refused")
         /\ {d \in Calls : Unpunished(d)}' = {d \in Calls : Unpunished(d)}
  <1>1. /\ pc'[c] = "done" /\ outcome'[c] = o
        /\ \A d \in Calls \ {c} : pc'[d] = pc[d] /\ outcome'[d] = outcome[d]
        /\ leader' = leader /\ signal' = signal
    BY DEF Refuse, procVars, IInv, TypeOK
  <1>2. Place(c) = "outside"
    BY PlaceOf DEF IInv, CallHistory
  <1>3. Place(c)' = IF o = "busy" THEN "busy" ELSE "refused"
    BY <1>1 DEF Place, Holding
  <1>4. \A d \in Calls \ {c} : Place(d)' = Place(d)
    BY <1>1 DEF Place
  <1>5. leader[c] = "none"
    BY DEF IInv, CallHistory
  <1>6. \A d \in Calls : Unpunished(d)' <=> Unpunished(d)
    BY <1>1, <1>5 DEF Unpunished
  <1> QED
    BY <1>2, <1>3, <1>4, <1>6, GateGoes

\* A step that leaves every call in its place and every program running or
\* not is no step of the gate.
LEMMA GateStutters ==
  ASSUME \A c \in Calls : Place(c)' = Place(c) /\ (Unpunished(c)' <=> Unpunished(c))
  PROVE  UNCHANGED Gate!vars
  BY DEF Gate!vars

\* A program exits by itself or is killed.
LEMMA GateStops ==
  ASSUME NEW c \in Calls, UNCHANGED <<pc, outcome>>, ~Unpunished(c)',
         \A d \in Calls \ {c} : Unpunished(d)' <=> Unpunished(d)
  PROVE  [Gate!Next]_(Gate!vars)
  <1>1. \A d \in Calls : Place(d)' = Place(d)
    BY DEF Place
  <1>2. CASE Unpunished(c)
    <2>1. Gate!Stop(c)
      BY <1>1, <1>2 DEF Gate!Stop
    <2> QED
      BY <2>1 DEF Gate!Next
  <1>3. CASE ~Unpunished(c)
    BY <1>1, <1>3, GateStutters
  <1> QED
    BY <1>2, <1>3

\* The steps of the operating system and of _terminate() that end no call.
LEMMA GateSignals ==
  ASSUME IInv, NEW c \in Calls, ExpireAlive(c) \/ GraceExpires(c)
  PROVE  [Gate!Next]_(Gate!vars)
  <1> USE DEF IInv, TypeOK
  <1>1. /\ pc[c] \in {"running", "terming"} /\ pc'[c] \in {"terming", "killing"}
        /\ outcome' = outcome /\ leader' = leader
        /\ \A d \in Calls \ {c} : pc'[d] = pc[d] /\ signal'[d] = signal[d]
    BY DEF ExpireAlive, GraceExpires
  <1>2. \A d \in Calls : Place(d)' = Place(d)
    BY <1>1 DEF Place, Holding
  <1>3. \A d \in Calls \ {c} : Unpunished(d)' <=> Unpunished(d)
    BY <1>1 DEF Unpunished
  <1>4. CASE ~Unpunished(c)' /\ Unpunished(c)
    <2>1. Gate!Stop(c)
      BY <1>2, <1>3, <1>4 DEF Gate!Stop
    <2> QED
      BY <2>1 DEF Gate!Next
  <1>5. CASE Unpunished(c)' <=> Unpunished(c)
    BY <1>2, <1>3, <1>5, GateStutters
  <1>6. Unpunished(c)' => Unpunished(c)
    <2>1. CASE ExpireAlive(c)
      BY <2>1 DEF ExpireAlive, Unpunished, CallHistory
    <2>2. CASE GraceExpires(c)
      BY <2>2 DEF GraceExpires, Unpunished
    <2> QED
      BY <2>1, <2>2
  <1> QED
    BY <1>4, <1>5, <1>6

LEMMA GateProcesses ==
  ASSUME IInv, NEW c \in Calls, System(c)
  PROVE  [Gate!Next]_(Gate!vars)
  <1>1. CASE Fork(c) \/ HelperExits(c)
    <2>1. UNCHANGED <<pc, outcome, leader, signal>>
      BY <1>1 DEF Fork, HelperExits
    <2> QED
      BY <2>1, GateStutters DEF Place, Unpunished
  <1>2. CASE LeaderExits(c)
    <2>1. UNCHANGED <<pc, outcome, signal>>
      BY <1>2 DEF LeaderExits
    <2>2. leader'[c] = "exited" /\ \A d \in Calls \ {c} : leader'[d] = leader[d]
      BY <1>2 DEF LeaderExits, IInv, TypeOK
    <2> QED
      BY <2>1, <2>2, GateStops DEF Unpunished
  <1> QED
    BY <1>1, <1>2 DEF System

\* The child of a call that was just spawned.
LEMMA GateStarts ==
  ASSUME IInv, NEW c \in Calls, Spawn(c)
  PROVE  [Gate!Next]_(Gate!vars)
  <1> USE DEF IInv, TypeOK
  <1>1. /\ pc[c] = "spawning" /\ pc'[c] = "running" /\ leader'[c] = "alive"
        /\ outcome' = outcome /\ signal' = signal
        /\ \A d \in Calls \ {c} : pc'[d] = pc[d] /\ leader'[d] = leader[d]
    BY DEF Spawn
  <1>2. /\ Place(c) = "inside"
        /\ \A d \in Calls : Place(d)' = Place(d)
    BY <1>1 DEF Place, Holding
  <1>3. leader[c] = "none" /\ outcome[c] = "none"
    BY <1>1 DEF CallHistory
  <1>4. ~Unpunished(c) /\ \A d \in Calls \ {c} : Unpunished(d)' <=> Unpunished(d)
    BY <1>1, <1>3 DEF Unpunished
  <1>5. CASE Unpunished(c)'
    <2>1. Gate!Start(c)
      BY <1>2, <1>4, <1>5 DEF Gate!Start
    <2> QED
      BY <2>1 DEF Gate!Next
  <1>6. CASE ~Unpunished(c)'
    BY <1>2, <1>4, <1>6, GateStutters
  <1> QED
    BY <1>5, <1>6

\* The ways out that return a permit.
LEMMA GateReleases ==
  ASSUME IInv, NEW c \in Calls,
         \/ SpawnFails(c) \/ Complete(c) \/ ExpireReaped(c)
         \/ GraceEnds(c) \/ KillEnds(c) \/ Cancel(c)
  PROVE  Gate!Next
  <1> USE DEF IInv, CallHistory, Unpunished, Holding
  <1>1. CASE SpawnFails(c)
    BY <1>1, GateLeaves DEF SpawnFails
  <1>2. CASE Complete(c)
    <2>1. PICK o \in {"success", "failed"} : Release(c, o)
      BY <1>2 DEF Complete
    <2> QED
      BY <1>2, <2>1, GateLeaves DEF Complete, Drained
  <1>3. CASE ExpireReaped(c)
    BY <1>3, GateLeaves DEF ExpireReaped
  <1>4. CASE GraceEnds(c)
    BY <1>4, GateLeaves DEF GraceEnds, Drained
  <1>5. CASE KillEnds(c)
    BY <1>5, GateLeaves DEF KillEnds
  <1>6. CASE Cancel(c)
    BY <1>6, GateLeaves DEF Cancel
  <1> QED
    BY <1>1, <1>2, <1>3, <1>4, <1>5, <1>6

LEMMA GateStep ==
  ASSUME IInv, [Next]_vars
  PROVE  [Gate!Next]_(Gate!vars)
  <1>1. CASE Shutdown \/ UNCHANGED vars
    <2>1. UNCHANGED <<pc, outcome, leader, signal>>
      BY <1>1 DEF Shutdown, vars, procVars
    <2> QED
      BY <2>1, GateStutters DEF Place, Unpunished
  <1>2. ASSUME NEW c \in Calls, Engine(c) \/ System(c)
        PROVE  [Gate!Next]_(Gate!vars)
    <2>1. CASE Reject(c)
      <3>1. Gate!Refuse(c)
        BY <2>1, GateRefuses DEF Reject, Gate!Refuse
      <3> QED
        BY <3>1 DEF Gate!Next
    <2>2. CASE Busy(c)
      <3>1. Gate!TurnBusy(c)
        BY <2>2, GateRefuses, GateRoom DEF Busy, Gate!TurnBusy
      <3> QED
        BY <3>1 DEF Gate!Next
    <2>3. CASE Admit(c)
      <3>1. /\ pc[c] = "idle" /\ pc'[c] = "spawning" /\ outcome' = outcome
            /\ \A d \in Calls \ {c} : pc'[d] = pc[d]
            /\ leader' = leader /\ signal' = signal
        BY <2>3 DEF Admit, procVars, IInv, TypeOK
      <3>2. Place(c) = "outside" /\ Place(c)' = "inside"
        BY <3>1, PlaceOf DEF Place, Holding, IInv, CallHistory
      <3>3. Gate!Goes(c, "inside")
        BY <3>1, <3>2, GateGoes DEF Place
      <3>4. {d \in Calls : Unpunished(d)}' = {d \in Calls : Unpunished(d)}
        BY <3>1 DEF Unpunished
      <3>5. Gate!Enter(c)
        BY <2>3, <3>2, <3>3, <3>4, GateRoom DEF Admit, Gate!Enter
      <3> QED
        BY <3>5 DEF Gate!Next
    <2>4. CASE Spawn(c)
      BY <2>4, GateStarts
    <2>5. CASE ExpireAlive(c) \/ GraceExpires(c)
      BY <2>5, GateSignals
    <2>6. CASE \/ SpawnFails(c) \/ Complete(c) \/ ExpireReaped(c)
               \/ GraceEnds(c) \/ KillEnds(c) \/ Cancel(c)
      BY <2>6, GateReleases
    <2>7. CASE System(c)
      BY <2>7, GateProcesses
    <2> QED
      BY <1>2, <2>1, <2>2, <2>3, <2>4, <2>5, <2>6, <2>7 DEF Engine, Timer
  <1> QED
    BY <1>1, <1>2 DEF Next

\* run() implements AdmissionGate: whatever the timeouts, cancellations and
\* processes do, a caller is refused as busy only while its own pool is full,
\* enters only while that pool has room, and never leaves a live program that
\* was not killed, unless the event loop was torn down.
THEOREM EngineImplementsGate == Spec => GateSpec
  <1>1. Init => Gate!Init
    BY GateInit
  <1>2. IInv /\ [Next]_vars => [Gate!Next]_(Gate!vars)
    BY GateStep
  <1> QED
    BY <1>1, <1>2, EngineInvariant, PTL DEF Spec, GateSpec, Gate!Spec

\* What the gate promises says enough: any engine that keeps it, not only this
\* one, bounds the programs of each pool.
THEOREM GateBoundsPrograms == GateSpec => []ProgramsBounded
  <1> DEFINE place == [c \in Calls |-> Place(c)]
             programs == {c \in Calls : Unpunished(c)}
             In(k) == {c \in Calls : Kind(c) = k /\ place[c] = "inside"}
             Bounded(k) == Cardinality(In(k)) <= Capacity[k]
             GInv == (\A c \in programs : place[c] = "inside") /\ \A k \in Kinds : Bounded(k)
  <1>1. \A k \in Kinds : Gate!Inside(k) = In(k) /\ IsFiniteSet(In(k)) /\ Cardinality(In(k)) \in Nat
    <2> SUFFICES ASSUME NEW k \in Kinds
                 PROVE  Gate!Inside(k) = In(k) /\ IsFiniteSet(In(k)) /\ Cardinality(In(k)) \in Nat
      OBVIOUS
    <2>1. IsFiniteSet(In(k))
      <3>1. In(k) \in SUBSET Calls
        OBVIOUS
      <3> QED
        BY <3>1, EngineAssumption, FS_Subset
    <2>2. Gate!Inside(k) = In(k)
      BY DEF Gate!Inside
    <2> QED
      BY <2>1, <2>2, FS_CardinalityType
  <1>2. Gate!Init => GInv
    <2> SUFFICES ASSUME Gate!Init
                 PROVE  GInv
      OBVIOUS
    <2>1. programs = {} /\ \A c \in Calls : place[c] = "outside"
      BY DEF Gate!Init
    <2>2. \A k \in Kinds : In(k) = {}
      BY <2>1
    <2>3. ASSUME NEW k \in Kinds
          PROVE  Bounded(k)
      <3>1. In(k) = {} /\ Capacity[k] \in Nat
        BY <2>2, CapacityType
      <3>2. Cardinality(In(k)) = 0
        BY <3>1, FS_EmptySet
      <3> HIDE DEF In
      <3> QED
        BY <3>1, <3>2
    <2>4. \A c \in programs : place[c] = "inside"
      BY <2>1
    <2> QED
      BY <2>3, <2>4
  <1>3. GInv /\ [Gate!Next]_(Gate!vars) => GInv'
    <2> SUFFICES ASSUME GInv, [Gate!Next]_(Gate!vars)
                 PROVE  GInv'
      OBVIOUS
    <2> DEFINE Shrinks == \A k \in Kinds : In(k)' \in SUBSET In(k)
    <2>0. /\ DOMAIN place = Calls
          /\ \A k \in Kinds : In(k)' = {c \in Calls : Kind(c) = k /\ place'[c] = "inside"}
      OBVIOUS
    <2>1. ASSUME Shrinks
          PROVE  (\A k \in Kinds : Bounded(k))'
      <3> SUFFICES ASSUME NEW k \in Kinds
                   PROVE  Cardinality(In(k)') <= Capacity[k]
        OBVIOUS
      <3>1. Cardinality(In(k)') <= Cardinality(In(k)) /\ Cardinality(In(k)') \in Nat
        <4>1. In(k)' \in SUBSET In(k) /\ IsFiniteSet(In(k)) /\ IsFiniteSet(In(k)')
          BY <1>1, <2>1, FS_Subset
        <4> HIDE DEF In
        <4> QED
          BY <4>1, FS_Subset, FS_CardinalityType
      <3>2. Cardinality(In(k)) \in Nat /\ Capacity[k] \in Nat /\ Cardinality(In(k)) <= Capacity[k]
        BY <1>1, CapacityType
      <3> HIDE DEF In
      <3> QED
        BY <3>1, <3>2
    <2>2. CASE UNCHANGED <<place, programs>>
      BY <2>2
    <2>3. ASSUME NEW c \in Calls, Gate!Start(c) \/ Gate!Stop(c)
          PROVE  GInv'
      <3>1. /\ place' = place
            /\ programs' = programs \ {c} \/ (place[c] = "inside" /\ programs' = programs \union {c})
        BY <2>3 DEF Gate!Start, Gate!Stop
      <3>2. Shrinks
        BY <2>0, <3>1
      <3> HIDE DEF place, programs
      <3> QED
        BY <2>1, <3>1, <3>2
    <2>4. ASSUME NEW c \in Calls, NEW p \in {"busy", "refused", "served", "torn down"},
                 Gate!Goes(c, p), programs' \in SUBSET programs, place[c] = "outside" \/ c \notin programs'
          PROVE  GInv'
      <3>1. place' = [place EXCEPT ![c] = p]
        BY <2>4 DEF Gate!Goes
      <3>2. \A d \in Calls : place'[d] = IF d = c THEN p ELSE place[d]
        <4> HIDE DEF place
        <4> QED
          BY <2>0, <3>1
      <3>3. Shrinks
        BY <2>0, <3>2
      <3>4. \A d \in programs' : place'[d] = "inside"
        BY <2>4, <3>2
      <3> QED
        BY <2>1, <3>3, <3>4
    <2>5. ASSUME NEW c \in Calls, Gate!Enter(c)
          PROVE  GInv'
      <3> DEFINE k == Kind(c)
      <3>1. /\ place[c] = "outside" /\ place' = [place EXCEPT ![c] = "inside"]
            /\ Gate!Cardinality(Gate!Inside(k)) < Capacity[k]
            /\ programs' = programs
        BY <2>5 DEF Gate!Enter, Gate!Goes
      <3>2. \A d \in Calls : place'[d] = IF d = c THEN "inside" ELSE place[d]
        <4> HIDE DEF place
        <4> QED
          BY <2>0, <3>1
      <3>3. k \in Kinds /\ Cardinality(In(k)) < Capacity[k] /\ c \notin In(k)
        BY <1>1, <3>1, CapacityType, GateCounts
      <3>4. In(k)' = In(k) \union {c}
        BY <2>0, <3>2, <3>3
      <3>5. Cardinality(In(k)') <= Capacity[k]
        <4>1. Cardinality(In(k)') = Cardinality(In(k)) + 1
          BY <1>1, <3>3, <3>4, FS_AddElement
        <4>2. Cardinality(In(k)) \in Nat /\ Capacity[k] \in Nat
          BY <1>1, <3>3, CapacityType
        <4> HIDE DEF In, k
        <4> QED
          BY <3>3, <4>1, <4>2
      <3>6. \A j \in Kinds \ {k} : In(j)' = In(j)
        BY <2>0, <3>2
      <3>7. (\A j \in Kinds : Bounded(j))'
        BY <3>5, <3>6
      <3>8. \A d \in programs' : place'[d] = "inside"
        BY <3>1, <3>2
      <3> QED
        BY <3>7, <3>8
    <2>6. ASSUME NEW c \in Calls, Gate!TurnBusy(c) \/ Gate!Refuse(c)
          PROVE  GInv'
      BY <2>4, <2>6 DEF Gate!TurnBusy, Gate!Refuse
    <2>7. ASSUME NEW c \in Calls, NEW torn \in BOOLEAN, Gate!Leave(c, torn)
          PROVE  GInv'
      BY <2>4, <2>7 DEF Gate!Leave
    <2> QED
      BY <2>2, <2>3, <2>5, <2>6, <2>7 DEF Gate!Next, Gate!vars
  <1>4. GInv => ProgramsBounded
    <2> SUFFICES ASSUME GInv, NEW k \in Kinds
                 PROVE  Cardinality(Unchecked(k)) <= Capacity[k]
      BY DEF ProgramsBounded
    <2>1. Unchecked(k) \in SUBSET In(k)
      BY DEF Unchecked
    <2>2. /\ Cardinality(Unchecked(k)) <= Cardinality(In(k))
          /\ Cardinality(Unchecked(k)) \in Nat
      BY <1>1, <2>1, FS_Subset, FS_CardinalityType
    <2>3. Cardinality(In(k)) \in Nat /\ Capacity[k] \in Nat /\ Cardinality(In(k)) <= Capacity[k]
      BY <1>1, CapacityType
    <2> HIDE DEF In
    <2> QED
      BY <2>2, <2>3
  <1> QED
    BY <1>2, <1>3, <1>4, PTL DEF GateSpec, Gate!Spec
=============================================================================
