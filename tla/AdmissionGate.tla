----------------------------- MODULE AdmissionGate -----------------------------
(***************************************************************************)
(* What the execution engine promises its callers, without processes,      *)
(* pipes, signals or timers: a call goes in only while its pool has room,  *)
(* is called busy only while its pool is full, and leaves no program       *)
(* running unpunished behind it.                                           *)
(***************************************************************************)
EXTENDS Integers, FiniteSets

CONSTANTS
  Calls,    \* invocations of run()
  Pool,     \* the pool each belongs to
  Capacity  \* how many calls of each pool may be inside

VARIABLES
  place,    \* of each call: "outside", "inside", or how it went away
  programs  \* calls whose program runs, without a kill sent to it

vars == <<place, programs>>

Inside(k) == {c \in Calls : Pool[c] = k /\ place[c] = "inside"}
Goes(c, p) == place' = [place EXCEPT ![c] = p]

Init == /\ place = [c \in Calls |-> "outside"]
        /\ programs = {}

Enter(c) == /\ place[c] = "outside"
            /\ Cardinality(Inside(Pool[c])) < Capacity[Pool[c]]
            /\ Goes(c, "inside")
            /\ UNCHANGED programs

TurnBusy(c) == /\ place[c] = "outside"
               /\ Cardinality(Inside(Pool[c])) = Capacity[Pool[c]]
               /\ Goes(c, "busy")
               /\ UNCHANGED programs

Refuse(c) == /\ place[c] = "outside"
             /\ Goes(c, "refused")
             /\ UNCHANGED programs

Start(c) == /\ place[c] = "inside" /\ c \notin programs
            /\ programs' = programs \union {c}
            /\ UNCHANGED place

\* It exits by itself, or is sent SIGKILL.
Stop(c) == /\ c \in programs
           /\ programs' = programs \ {c}
           /\ UNCHANGED place

\* With a result; a call torn down with the event loop abandons its program.
Leave(c, torn) == /\ place[c] = "inside"
                  /\ torn \/ c \notin programs
                  /\ Goes(c, IF torn THEN "torn down" ELSE "served")
                  /\ programs' = programs \ {c}

Next == \E c \in Calls :
  \/ Enter(c) \/ TurnBusy(c) \/ Refuse(c) \/ Start(c) \/ Stop(c)
  \/ \E torn \in BOOLEAN : Leave(c, torn)

Spec == Init /\ [][Next]_vars
=============================================================================
