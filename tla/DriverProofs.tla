---------------------------- MODULE DriverProofs ----------------------------
(***************************************************************************)
(* What the runtime of a node guarantees for any number of concurrent      *)
(* calls, cancellations, failures and restarts.                            *)
(***************************************************************************)
EXTENDS Driver, TLAPS

\* The strengthening: a runtime that has not failed holds nothing in memory
\* that is not on disk, because the call that changes the state saves it
\* before it gives up the mutex or lets anything else happen.
DriverInv ==
    /\ memory \in Nat /\ stored \in Nat /\ commit \in Nat /\ applied \in Nat
    /\ applied <= commit
    /\ failed \in BOOLEAN
    /\ ~failed => stored = memory
    /\ AppliedInOrder

\* A state machine to which nothing has been applied is in order.
LEMMA NothingApplied == <<>> = [i \in 1..0 |-> i]
<1>1. <<>> \in Seq(Nat) /\ Len(<<>>) = 0 /\ DOMAIN <<>> = 1..0
  OBVIOUS
<1>2. [i \in 1..0 |-> i] \in Seq(Nat) /\ Len([i \in 1..0 |-> i]) = 0
  OBVIOUS
<1> QED
  BY <1>1, <1>2

\* The strengthening holds of a runtime that has just been opened.
LEMMA DriverInit == Init => DriverInv
<1> SUFFICES ASSUME Init PROVE DriverInv
  OBVIOUS
<1>1. AppliedInOrder
  <2>1. state = <<>> /\ applied = 0
    BY DEF Init
  <2> QED
    BY <2>1, NothingApplied, Zenon DEF AppliedInOrder
<1>2. /\ memory \in Nat /\ stored \in Nat /\ commit \in Nat /\ applied \in Nat
      /\ applied <= commit
  BY DEF Init
<1>3. failed \in BOOLEAN /\ stored = memory
  BY Zenon DEF Init
<1> QED
  BY <1>1, <1>2, <1>3, Zenon DEF DriverInv

\* A step of any call, a failure, a cancellation or a restart preserves it.
LEMMA DriverStep == DriverInv /\ [Next]_vars => DriverInv'
<1> SUFFICES ASSUME DriverInv, [Next]_vars PROVE DriverInv'
  OBVIOUS
<1> USE DriverAssumption
<1>1. ASSUME NEW c \in Caller, Enter(c) PROVE DriverInv'
  BY <1>1 DEF Enter, DriverInv, AppliedInOrder
<1>2. ASSUME NEW c \in Caller, Step(c) PROVE DriverInv'
  BY <1>2 DEF Step, Advance, DriverInv, AppliedInOrder
<1>3. ASSUME NEW c \in Caller, SaveFails(c) PROVE DriverInv'
  BY <1>3 DEF SaveFails, Advance, DriverInv, AppliedInOrder
<1>4. ASSUME NEW c \in Caller, Apply(c) PROVE DriverInv'
  <2>1. applied \in Nat /\ commit \in Nat /\ applied < commit
    BY <1>4 DEF Apply, DriverInv
  <2>2. state' = [i \in 1..applied + 1 |-> i]
    <3>1. state = [i \in 1..applied |-> i] /\ state' = Append(state, applied + 1)
      BY <1>4 DEF Apply, DriverInv, AppliedInOrder
    <3>2. state \in Seq(Nat) /\ Len(state) = applied
      BY <2>1, <3>1
    <3> QED
      BY <2>1, <3>1, <3>2
  <2> QED
    BY <1>4, <2>1, <2>2 DEF Apply, DriverInv, AppliedInOrder
<1>5. ASSUME NEW c \in Caller, Release(c) PROVE DriverInv'
  BY <1>5 DEF Release, DriverInv, AppliedInOrder
<1>6. ASSUME NEW c \in Caller, Cancel(c) PROVE DriverInv'
  BY <1>6 DEF Cancel, DriverInv, AppliedInOrder
<1>7. CASE Stop
  BY <1>7 DEF Stop, DriverInv, AppliedInOrder
<1>8. CASE Restart
  <2>1. state' = <<>> /\ applied' = 0
    BY <1>8 DEF Restart
  <2>2. AppliedInOrder'
    BY <2>1, NothingApplied, Zenon DEF AppliedInOrder
  <2>3. /\ memory' \in Nat /\ stored' \in Nat /\ commit' \in Nat /\ applied' \in Nat
        /\ applied' <= commit'
    BY <1>8 DEF Restart, DriverInv
  <2>4. failed' \in BOOLEAN /\ stored' = memory'
    BY <1>8, Zenon DEF Restart
  <2> QED
    BY <2>2, <2>3, <2>4, Zenon DEF DriverInv
<1>9. CASE UNCHANGED vars
  BY <1>9 DEF vars, DriverInv, AppliedInOrder
<1> QED
  BY <1>1, <1>2, <1>3, <1>4, <1>5, <1>6, <1>7, <1>8, <1>9 DEF Next

\* Every committed entry is applied once and in order, for any number of
\* concurrent calls and whichever of them are cancelled (apply_committed).
THEOREM DriverAppliesInOrder == Spec => []AppliedInOrder
<1>1. DriverInv => AppliedInOrder
  BY DEF DriverInv
<1> QED
  BY <1>1, DriverInit, DriverStep, PTL DEF Spec

\* Until a save fails, every message is based on state that is on disk
\* (handle_effects saves before it sends, under the mutex).
THEOREM DriverSavesFirst == Spec => SavedWhileHealthy
<1>1. DriverInv /\ [Next]_vars => [~failed /\ sent' # sent => sent' <= stored']_vars
  <2> SUFFICES ASSUME DriverInv, Next, ~failed, sent' # sent
               PROVE  sent' <= stored'
    BY DEF vars
  <2>1. PICK c \in Caller : Step(c)
    BY Zenon DEF Next, Enter, SaveFails, Apply, Release, Cancel, Stop, Restart
  <2> QED
    BY <2>1 DEF Step, Advance, DriverInv
<1> QED
  BY <1>1, DriverInit, DriverStep, PTL DEF Spec, SavedWhileHealthy
=============================================================================
