------------------------------ MODULE Coalescer ------------------------------
(***************************************************************************)
(* The single-flight gate in front of every forge read                     *)
(* (internal/dashboard/coalesce.go).  A caller of do either leads, running *)
(* fn until nobody asked for another run, or waits on a condition variable *)
(* for a run that began after it arrived.                                  *)
(*                                                                         *)
(* The mutex sections of do are the atomic steps.  Everything between two  *)
(* of them (the call itself, fn, the wake-up after a Broadcast) is open to *)
(* the other goroutines, so each is a step of its own.                     *)
(***************************************************************************)
EXTENDS Naturals

CONSTANTS
  Callers,    \* goroutines that call do
  MaxCalls    \* bound: calls made in one behaviour

ASSUME MaxCallsAssumption == MaxCalls \in Nat

VARIABLES
  running,         \* c.running: a leader is inside its loop
  pending,         \* c.pending: one more run was asked for
  startedEpoch,    \* c.startedEpoch: runs begun
  completedEpoch,  \* c.completedEpoch: runs finished
  pc,              \* where each caller stands
  arrivedAfter,    \* the local arrivedAfter of a waiting caller
  calledAt,        \* history: runs begun when the caller called do
  calls            \* history: calls made so far

vars == <<running, pending, startedEpoch, completedEpoch,
          pc, arrivedAfter, calledAt, calls>>

\* "entering" has called do and wants the mutex; "asleep" is inside cond.Wait;
\* "woken" saw a Broadcast and re-checks the loop condition; "fn" leads a run.
Places == {"idle", "entering", "asleep", "woken", "fn"}

TypeOK ==
  /\ running \in BOOLEAN
  /\ pending \in BOOLEAN
  /\ startedEpoch \in Nat
  /\ completedEpoch \in 0..startedEpoch
  /\ pc \in [Callers -> Places]
  /\ arrivedAfter \in [Callers -> Nat]
  /\ calledAt \in [Callers -> Nat]
  /\ calls \in 0..MaxCalls

Init ==
  /\ running = FALSE
  /\ pending = FALSE
  /\ startedEpoch = 0
  /\ completedEpoch = 0
  /\ pc = [c \in Callers |-> "idle"]
  /\ arrivedAfter = [c \in Callers |-> 0]
  /\ calledAt = [c \in Callers |-> 0]
  /\ calls = 0

-----------------------------------------------------------------------------

Call(c) ==
  /\ pc[c] = "idle"
  /\ calls < MaxCalls
  /\ calls' = calls + 1
  /\ pc' = [pc EXCEPT ![c] = "entering"]
  /\ calledAt' = [calledAt EXCEPT ![c] = startedEpoch]
  /\ UNCHANGED <<running, pending, startedEpoch, completedEpoch, arrivedAfter>>

\* Slip: lead without looking at running.
Lead_Overlap(c) ==
  /\ pc[c] = "entering"
  /\ running' = TRUE
  /\ startedEpoch' = startedEpoch + 1
  /\ pc' = [pc EXCEPT ![c] = "fn"]
  /\ UNCHANGED <<pending, completedEpoch, arrivedAfter, calledAt, calls>>

\* No run in flight: the caller leads one.
Lead(c) ==
  /\ pc[c] = "entering"
  /\ ~running
  /\ running' = TRUE
  /\ startedEpoch' = startedEpoch + 1
  /\ pc' = [pc EXCEPT ![c] = "fn"]
  /\ UNCHANGED <<pending, completedEpoch, arrivedAfter, calledAt, calls>>

\* Slip: settle for the run in flight, which may have read before the call.
Join_InFlight(c) ==
  /\ pc[c] = "entering"
  /\ running
  /\ pending' = TRUE
  /\ arrivedAfter' = [arrivedAfter EXCEPT ![c] = startedEpoch - 1]
  /\ pc' = [pc EXCEPT ![c] = "asleep"]
  /\ UNCHANGED <<running, startedEpoch, completedEpoch, calledAt, calls>>

\* Slip: wait without asking for another run.
Join_NotPending(c) ==
  /\ pc[c] = "entering"
  /\ running
  /\ arrivedAfter' = [arrivedAfter EXCEPT ![c] = startedEpoch]
  /\ pc' = [pc EXCEPT ![c] = "asleep"]
  /\ UNCHANGED <<running, pending, startedEpoch, completedEpoch, calledAt, calls>>

\* A run is in flight: ask for one more and wait past the one in flight.  The
\* loop condition is false on the first look, since the epoch just recorded is
\* that of an unfinished run, so the caller always sleeps at least once.
Join(c) ==
  /\ pc[c] = "entering"
  /\ running
  /\ pending' = TRUE
  /\ arrivedAfter' = [arrivedAfter EXCEPT ![c] = startedEpoch]
  /\ pc' = [pc EXCEPT ![c] = "asleep"]
  /\ UNCHANGED <<running, startedEpoch, completedEpoch, calledAt, calls>>

\* A woken waiter takes the mutex and looks at the loop condition again: it
\* returns when a later run has finished and goes back to sleep otherwise.
Recheck(c) ==
  /\ pc[c] = "woken"
  /\ pc' = [pc EXCEPT ![c] =
              IF completedEpoch <= arrivedAfter[c] THEN "asleep" ELSE "idle"]
  /\ UNCHANGED <<running, pending, startedEpoch, completedEpoch,
                 arrivedAfter, calledAt, calls>>

\* Slip: Signal in place of Broadcast, which wakes one sleeper only.
Broadcast_Signal(places) ==
  LET asleep == {c \in Callers : places[c] = "asleep"}
  IN  IF asleep = {} THEN places
      ELSE [places EXCEPT ![CHOOSE c \in asleep : TRUE] = "woken"]

\* What Broadcast does to the callers' places.
Broadcast(places) ==
  [c \in Callers |-> IF places[c] = "asleep" THEN "woken" ELSE places[c]]

\* fn returned and nobody asked for more: the leader returns.
FinishLast(c) ==
  /\ pc[c] = "fn"
  /\ ~pending
  /\ completedEpoch' = startedEpoch
  /\ running' = FALSE
  /\ pc' = [Broadcast(pc) EXCEPT ![c] = "idle"]
  /\ UNCHANGED <<pending, startedEpoch, arrivedAfter, calledAt, calls>>

\* Slip: forget to clear pending, so the leader runs once more for nobody.
FinishAndRunAgain_StillPending(c) ==
  /\ pc[c] = "fn"
  /\ pending
  /\ completedEpoch' = startedEpoch
  /\ startedEpoch' = startedEpoch + 1
  /\ pc' = Broadcast(pc)
  /\ UNCHANGED <<pending, running, arrivedAfter, calledAt, calls>>

\* fn returned and a caller asked for more: the leader starts the trailing run
\* in the same mutex section.
FinishAndRunAgain(c) ==
  /\ pc[c] = "fn"
  /\ pending
  /\ completedEpoch' = startedEpoch
  /\ pending' = FALSE
  /\ startedEpoch' = startedEpoch + 1
  /\ pc' = Broadcast(pc)
  /\ UNCHANGED <<running, arrivedAfter, calledAt, calls>>

Step(c) ==
  \/ Lead(c)
  \/ Join(c)
  \/ Recheck(c)
  \/ FinishLast(c)
  \/ FinishAndRunAgain(c)

Next == \E c \in Callers : Call(c) \/ Step(c)

Spec == Init /\ [][Next]_vars

\* A goroutine that holds or wants the mutex is scheduled, and fn returns: a
\* refresh bounds its fetches by a deadline and its writes by a budget.
FairSpec == Spec /\ \A c \in Callers : WF_vars(Step(c))

-----------------------------------------------------------------------------
(* Properties *)

\* One run at a time: at most one caller is inside fn, and running says so.
\* (coalesce.go: "coalescer runs one fn at a time".)
SingleFlight ==
  /\ \A c, d \in Callers : pc[c] = "fn" /\ pc[d] = "fn" => c = d
  /\ running <=> \E c \in Callers : pc[c] = "fn"

\* A caller of do returns only after a run that began at or after its own call
\* has finished, whichever caller led that run.
EveryCallSeesALaterRun ==
  [][\A c \in Callers :
        pc[c] # "idle" /\ pc'[c] = "idle" => completedEpoch' > calledAt[c]]_vars

\* The trailing run is never wasted: while one is owed, some caller waits for
\* exactly that run, so calls that arrive during one run share one more run.
TrailingRunIsAwaited ==
  pending => \E c \in Callers :
               /\ pc[c] \in {"asleep", "woken"}
               /\ arrivedAfter[c] = startedEpoch

\* No lost wake-up: a caller asleep in cond.Wait still has a Broadcast coming,
\* because the run in flight or the trailing one it asked for ends after it.
NoLostWakeup ==
  \A c \in Callers :
    pc[c] = "asleep" =>
      /\ running
      /\ completedEpoch <= arrivedAfter[c]
      /\ arrivedAfter[c] < startedEpoch \/ pending

\* The inductive strengthening behind the four safety properties.  Waiting is
\* the loop condition of do as the waiter will find it; Owed says what a waiter
\* whose run has not finished can count on.
Waiting(c) == pc[c] \in {"asleep", "woken"} /\ completedEpoch <= arrivedAfter[c]

Owed(c) == running /\ (arrivedAfter[c] < startedEpoch \/ pending)

EpochsInStep ==
  /\ running => startedEpoch = completedEpoch + 1
  /\ ~running => startedEpoch = completedEpoch /\ ~pending

CallsBeforeRuns ==
  \A c \in Callers :
    /\ pc[c] # "idle" => calledAt[c] <= startedEpoch
    /\ pc[c] = "fn" => calledAt[c] < startedEpoch
    /\ pc[c] \in {"asleep", "woken"} => calledAt[c] <= arrivedAfter[c]
    /\ pc[c] \in {"asleep", "woken"} => arrivedAfter[c] <= startedEpoch
    /\ pc[c] = "asleep" => Waiting(c)
    /\ Waiting(c) => Owed(c)

CoalescerInv ==
  TypeOK /\ SingleFlight /\ EpochsInStep /\ CallsBeforeRuns /\ TrailingRunIsAwaited

\* The three together: one run at a time, no run for nobody, no sleeper that
\* nobody will wake.
GateIsSound == SingleFlight /\ TrailingRunIsAwaited /\ NoLostWakeup

\* Every call of do returns.
EveryCallReturns ==
  \A c \in Callers : (pc[c] # "idle") ~> (pc[c] = "idle")

\* The gate as its callers know it: a goroutine that is inside do asks, and the
\* epochs count the runs.
G == INSTANCE Gate WITH Askers <- Callers,
                        asking <- {c \in Callers : pc[c] # "idle"},
                        since <- calledAt,
                        begun <- startedEpoch,
                        finished <- completedEpoch

\* do, with its flags, epochs and condition variable, implements that gate.
ImplementsGate == G!GateSpec
=============================================================================
