--------------------------- MODULE ExecutionEngine ---------------------------
(***************************************************************************)
(* app/core/execution.py: the single path through which every command of   *)
(* the application runs.  Two pools of permits bound the concurrency, a    *)
(* call that finds its pool empty is refused instead of queued, and a call *)
(* that outlives its timeout has its process group signalled, politely     *)
(* (SIGTERM), then not (SIGKILL), each signal followed by one grace wait.  *)
(*                                                                         *)
(* A call is one invocation of ExecutionEngine.run().  Each call that      *)
(* spawns owns one process group: the leader (the program itself) and at   *)
(* most one helper it forks.  The helper either holds the leader's output  *)
(* pipes ("attached", so communicate() cannot see end-of-file) or has      *)
(* closed them ("detached").  Time is abstracted: a timer may fire         *)
(* whenever it is armed.                                                   *)
(***************************************************************************)
EXTENDS Integers, FiniteSets

CONSTANTS
  Calls,          \* invocations of run()
  Discovery,      \* the ones made with discovery=True (nmap scans)
  MaxConcurrent,  \* settings.max_concurrent_executions
  MaxDiscovery    \* settings.max_concurrent_scans

ASSUME EngineAssumption ==
  /\ IsFiniteSet(Calls)
  /\ Discovery \subseteq Calls
  /\ MaxConcurrent \in Nat \ {0}
  /\ MaxDiscovery \in Nat \ {0}

VARIABLES
  pc,        \* where each call stands inside run(), _spawn() and _terminate()
  outcome,   \* what it returned or raised
  free,      \* free permits of each semaphore
  leader,    \* the direct child
  helper,    \* a process the child forked
  signal,    \* the strongest signal killpg() sent to the group
  serving    \* FALSE once the event loop is being torn down

vars == <<pc, outcome, free, leader, helper, signal, serving>>
procVars == <<leader, helper, signal>>

Kinds == {"general", "discovery"}
Kind(c) == IF c \in Discovery THEN "discovery" ELSE "general"
Capacity == [k \in Kinds |-> IF k = "discovery" THEN MaxDiscovery ELSE MaxConcurrent]

Holding == {"spawning", "running", "terming", "killing"}
Outcomes == {"none", "rejected", "busy", "spawn_error",
             "success", "failed", "timeout", "cancelled"}

TypeOK ==
  /\ pc \in [Calls -> {"idle", "done"} \union Holding]
  /\ outcome \in [Calls -> Outcomes]
  /\ free \in [Kinds -> Nat]
  /\ leader \in [Calls -> {"none", "alive", "exited"}]
  /\ helper \in [Calls -> {"none", "attached", "detached", "exited"}]
  /\ signal \in [Calls -> {"none", "TERM", "KILL"}]
  /\ serving \in BOOLEAN

Init ==
  /\ pc = [c \in Calls |-> "idle"]
  /\ outcome = [c \in Calls |-> "none"]
  /\ free = Capacity
  /\ leader = [c \in Calls |-> "none"]
  /\ helper = [c \in Calls |-> "none"]
  /\ signal = [c \in Calls |-> "none"]
  /\ serving = TRUE

-----------------------------------------------------------------------------
(* run(): the checks before the permit, and its return in `finally`. *)

\* The call ends without ever holding a permit.
Refuse(c, o) ==
  /\ pc' = [pc EXCEPT ![c] = "done"]
  /\ outcome' = [outcome EXCEPT ![c] = o]
  /\ UNCHANGED <<free, procVars, serving>>

\* The permit returned by the `finally` of run(), whatever ended _spawn().
Release(c, o) ==
  /\ pc' = [pc EXCEPT ![c] = "done"]
  /\ outcome' = [outcome EXCEPT ![c] = o]
  /\ free' = [free EXCEPT ![Kind(c)] = @ + 1]

\* build_argv() or the timeout bounds raise ExecutionRejected.
Reject(c) == /\ serving
             /\ pc[c] = "idle"
             /\ Refuse(c, "rejected")

\* Mutant: one full pool refuses the calls of both.
BusyEither(c) == /\ serving
                 /\ pc[c] = "idle"
                 /\ \E k \in Kinds : free[k] = 0
                 /\ Refuse(c, "busy")

\* semaphore.locked(): ExecutionBusy is raised rather than queueing.
Busy(c) == /\ serving
           /\ pc[c] = "idle"
           /\ free[Kind(c)] = 0
           /\ Refuse(c, "busy")

\* acquire() of a semaphore just seen unlocked does not suspend.
Admit(c) == /\ serving
            /\ pc[c] = "idle"
            /\ free[Kind(c)] > 0
            /\ pc' = [pc EXCEPT ![c] = "spawning"]
            /\ free' = [free EXCEPT ![Kind(c)] = @ - 1]
            /\ UNCHANGED <<outcome, procVars, serving>>

-----------------------------------------------------------------------------
(* _spawn() and _terminate(). *)

\* communicate() returns: the child was reaped and both pipes reached EOF.
Drained(c) == leader[c] = "exited" /\ helper[c] # "attached"

Spawn(c) == /\ pc[c] = "spawning"
            /\ pc' = [pc EXCEPT ![c] = "running"]
            /\ leader' = [leader EXCEPT ![c] = "alive"]
            /\ UNCHANGED <<outcome, free, helper, signal, serving>>

\* Mutant: the release is skipped on the error path.
SpawnFailsLeaking(c) == /\ pc[c] = "spawning"
                        /\ Refuse(c, "spawn_error")

\* create_subprocess_exec raises (ENOMEM, EMFILE, a removed binary).
SpawnFails(c) == /\ pc[c] = "spawning"
                 /\ Release(c, "spawn_error")
                 /\ UNCHANGED <<procVars, serving>>

\* Mutant: waiting for the child alone, as process.wait() would.
CompleteOnExit(c) == /\ pc[c] = "running"
                     /\ leader[c] = "exited"
                     /\ \E o \in {"success", "failed"} : Release(c, o)
                     /\ UNCHANGED <<procVars, serving>>

\* communicate() within the timeout; the exit code decides the status.
Complete(c) == /\ pc[c] = "running"
               /\ Drained(c)
               /\ \E o \in {"success", "failed"} : Release(c, o)
               /\ UNCHANGED <<procVars, serving>>

\* wait_for() times out with the child already reaped: _terminate() sees a
\* returncode and returns at once, without signalling the group.
ExpireReaped(c) == /\ pc[c] = "running"
                   /\ leader[c] = "exited"
                   /\ Release(c, "timeout")
                   /\ UNCHANGED <<procVars, serving>>

\* wait_for() times out with the child alive: killpg(group, SIGTERM).
ExpireAlive(c) == /\ pc[c] = "running"
                  /\ leader[c] = "alive"
                  /\ pc' = [pc EXCEPT ![c] = "terming"]
                  /\ signal' = [signal EXCEPT ![c] = "TERM"]
                  /\ UNCHANGED <<outcome, free, leader, helper, serving>>

\* The second communicate() returns within the grace period.
GraceEnds(c) == /\ pc[c] = "terming"
                /\ Drained(c)
                /\ Release(c, "timeout")
                /\ UNCHANGED <<procVars, serving>>

\* Mutant: giving up after the polite signal.
GraceGivesUp(c) == /\ pc[c] = "terming"
                   /\ Release(c, "timeout")
                   /\ UNCHANGED <<procVars, serving>>

\* The grace period runs out: killpg(group, SIGKILL).
GraceExpires(c) == /\ pc[c] = "terming"
                   /\ pc' = [pc EXCEPT ![c] = "killing"]
                   /\ signal' = [signal EXCEPT ![c] = "KILL"]
                   /\ UNCHANGED <<outcome, free, leader, helper, serving>>

\* Mutant: the last wait has no timeout.
KillWaitsForEver(c) == /\ pc[c] = "killing"
                       /\ Drained(c)
                       /\ Release(c, "timeout")
                       /\ UNCHANGED <<procVars, serving>>

\* The last wait returns, or its TimeoutError is suppressed.
KillEnds(c) == /\ pc[c] = "killing"
               /\ Release(c, "timeout")
               /\ UNCHANGED <<procVars, serving>>

-----------------------------------------------------------------------------
(* Shutdown: the server waits for its requests but not for the background  *)
(* scans; the loop's teardown cancels them.  CancelledError releases the   *)
(* permit and abandons the child.                                          *)

Shutdown == /\ serving
            /\ serving' = FALSE
            /\ UNCHANGED <<pc, outcome, free, procVars>>

Cancel(c) == /\ ~serving
             /\ c \in Discovery
             /\ pc[c] \in Holding
             /\ Release(c, "cancelled")
             /\ UNCHANGED <<procVars, serving>>

-----------------------------------------------------------------------------
(* The operating system: what the processes of a group do by themselves,   *)
(* and when a signal takes effect.  SIGTERM may be ignored and even        *)
(* SIGKILL may be late (an uninterruptible wait).                          *)

Fork(c) == /\ leader[c] = "alive"
           /\ helper[c] = "none"
           /\ \E h \in {"attached", "detached"} : helper' = [helper EXCEPT ![c] = h]
           /\ UNCHANGED <<pc, outcome, free, leader, signal, serving>>

LeaderExits(c) == /\ leader[c] = "alive"
                  /\ leader' = [leader EXCEPT ![c] = "exited"]
                  /\ UNCHANGED <<pc, outcome, free, helper, signal, serving>>

HelperExits(c) == /\ helper[c] \in {"attached", "detached"}
                  /\ helper' = [helper EXCEPT ![c] = "exited"]
                  /\ UNCHANGED <<pc, outcome, free, leader, signal, serving>>

-----------------------------------------------------------------------------
Timer(c) == ExpireReaped(c) \/ ExpireAlive(c) \/ GraceExpires(c) \/ KillEnds(c)

Engine(c) ==
  \/ Reject(c) \/ Busy(c) \/ Admit(c) \/ Spawn(c) \/ SpawnFails(c)
  \/ Complete(c) \/ GraceEnds(c) \/ Timer(c) \/ Cancel(c)

System(c) == Fork(c) \/ LeaderExits(c) \/ HelperExits(c)

Next == Shutdown \/ \E c \in Calls : Engine(c) \/ System(c)

\* asyncio runs what it has accepted and fires armed timers; nothing is
\* assumed of the processes themselves.
Fairness == \A c \in Calls :
  /\ WF_vars(Spawn(c) \/ SpawnFails(c))
  /\ WF_vars(Timer(c))

Spec == Init /\ [][Next]_vars
FairSpec == Spec /\ Fairness

-----------------------------------------------------------------------------
(* Properties. *)

Holders(k) == {c \in Calls : Kind(c) = k /\ pc[c] \in Holding}

\* "Concurrency is bounded, and the permit is always returned": the free
\* permits and the calls between acquire() and the `finally` always add up
\* to the pool, through refusals, spawn errors, timeouts and cancellation.
PermitsConserved ==
  \A k \in Kinds : free[k] + Cardinality(Holders(k)) = Capacity[k]

\* A command still runs unpunished: the direct child is alive, nobody sent it
\* SIGKILL, and its call was not torn down with the event loop.
Unpunished(c) == leader[c] = "alive" /\ signal[c] # "KILL" /\ outcome[c] # "cancelled"
Unchecked(k) == {c \in Calls : Kind(c) = k /\ Unpunished(c)}

\* The bound is on programs and not only on coroutines: a returned permit
\* never leaves behind a live program that was not killed, so no history of
\* timeouts lets more programs of a kind run than the pool allows.
ProgramsBounded == \A k \in Kinds : Cardinality(Unchecked(k)) <= Capacity[k]

\* A result reported as success or failed is built from complete output: by
\* then nothing holds the pipes, and the child's exit code is known.
ResultIsComplete == \A c \in Calls :
  outcome[c] \in {"success", "failed"} => Drained(c)

\* Where the caller sees its call.
Place(c) == IF pc[c] \in Holding THEN "inside"
            ELSE IF outcome[c] = "none" THEN "outside"
            ELSE IF outcome[c] = "busy" THEN "busy"
            ELSE IF outcome[c] = "rejected" THEN "refused"
            ELSE IF outcome[c] = "cancelled" THEN "torn down"
            ELSE "served"

\* The engine implements AdmissionGate: a call is refused as busy only while
\* its own pool is full, goes in only while that pool has room, and leaves
\* no live program it has not killed, unless the event loop was torn down.
Gate == INSTANCE AdmissionGate WITH
  Pool <- [c \in Calls |-> Kind(c)],
  place <- [c \in Calls |-> Place(c)],
  programs <- {c \in Calls : Unpunished(c)}
GateSpec == Gate!Spec

\* A call that got a permit returns, even if no process of its group ever
\* reacts to a signal: every wait of _spawn() and _terminate() is bounded.
AcceptedCallReturns == \A c \in Calls : pc[c] = "spawning" ~> pc[c] = "done"
=============================================================================
