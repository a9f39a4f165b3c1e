------------------------ MODULE NodeLifecycleProofs ------------------------
(***************************************************************************)
(* Proofs about the Linux node's start and stop.  The module has no        *)
(* constants: the point of the proof is the argument, which is that the    *)
(* REPL cannot have come to its prompt before the listener set running,    *)
(* and that the listener sets it once.                                     *)
(***************************************************************************)
EXTENDS NodeLifecycle, TLAPS

(* The listener has not set running yet. *)
Starting == lpc \in {"none", "start", "run"}

(* Before running is set the REPL can only have looked at it and left.     *)
Unprompted ==
    /\ mpc = "questions" => lpc = "none" /\ ~handler
    /\ Starting => ~running /\ ~prompted /\ rpc \in {"none", "test", "gone"}

Inv == TypeOK /\ Unprompted /\ DeafFromTheStart

(* The invariant holds when main starts. *)
LEMMA InitInv == Init => Inv
  BY DEF Init, Inv, TypeOK, Unprompted, Starting, DeafFromTheStart

(* Every step of any thread, and SIGINT in any of them, keeps it. *)
LEMMA NextInv == Inv /\ [Next]_vars => Inv'
<1> SUFFICES ASSUME Inv, [Next]_vars PROVE Inv'
    OBVIOUS
<1> USE DEF Inv, TypeOK, Unprompted, Starting, DeafFromTheStart
<1>1. CASE CreateListener
      BY <1>1 DEF CreateListener, MainFrame
<1>2. CASE CreateRepl
      BY <1>2 DEF CreateRepl, MainFrame
<1>3. CASE MainReturns
      BY <1>3 DEF MainReturns, MainFrame
<1>4. CASE LastThreadEnds
      BY <1>4 DEF LastThreadEnds, MainFrame
<1>5. CASE InstallHandler
      BY <1>5 DEF InstallHandler, ListenerFrame
<1>6. CASE SetRunning
      BY <1>6 DEF SetRunning, ListenerFrame
<1>7. CASE CreateSyncer
      BY <1>7 DEF CreateSyncer, ListenerFrame
<1>8. CASE ListenerStops
      BY <1>8 DEF ListenerStops, ListenerFrame
<1>9. CASE SyncerStops
      BY <1>9 DEF SyncerStops, ListenerFrame
<1>10. CASE ReplTests
      BY <1>10 DEF ReplTests, ReplFrame, leftOver
<1>11. CASE ReplCompares
      BY <1>11 DEF ReplCompares, ReplFrame, gently_shitdown
<1>12. CASE ReplReads
      BY <1>12 DEF ReplReads, ReplFrame, words
<1>13. CASE Sigint
      <2>1. CASE ~handler
            <3>1. /\ UNCHANGED <<handler, running, mpc, lpc, spc, rpc, command, prompted>>
                  /\ process' = "exited"
                  BY ONLY <1>13, <2>1 DEF Sigint, threads
            <3>2. QED
                  BY <3>1
      <2>2. CASE handler
            <3>1. /\ running' \in BOOLEAN /\ ~running'
                  /\ UNCHANGED <<process, handler, command, prompted>>
                  /\ mpc' \in {mpc, "gone"} /\ lpc' \in {lpc, "gone"}
                  /\ spc' \in {spc, "gone"} /\ rpc' \in {rpc, "gone"}
                  BY ONLY <1>13, <2>2 DEF Sigint, gently_shitdown
            <3>2. handler' \in BOOLEAN /\ prompted' \in BOOLEAN /\ process' \in {"alive", "exited"}
                  BY <3>1, Zenon
            <3>3. TypeOK'
                  BY <3>1, <3>2
            <3>4. Unprompted' /\ DeafFromTheStart'
                  BY <2>2, <3>1
            <3>5. QED
                  BY <3>3, <3>4
      <2>3. QED
            BY ONLY <2>1, <2>2
<1>14. CASE UNCHANGED vars
      <2>1. UNCHANGED <<process, handler, running, mpc, lpc, spc, rpc, command, prompted>>
            BY ONLY <1>14 DEF vars, threads
      <2>2. handler' \in BOOLEAN /\ running' \in BOOLEAN /\ prompted' \in BOOLEAN
            BY <2>1, Zenon
      <2>3. UNCHANGED <<process, mpc, lpc, spc, rpc, command>>
            BY <2>1
      <2>4. TypeOK'
            BY ONLY Inv, <2>2, <2>3
      <2>5. Unprompted' /\ DeafFromTheStart'
            BY <2>1, Zenon
      <2>6. QED
            BY <2>4, <2>5
<1>15. QED
      BY <1>1, <1>2, <1>3, <1>4, <1>5, <1>6, <1>7, <1>8, <1>9, <1>10, <1>11, <1>12, <1>13, <1>14
         DEF Next, Main, Listener, Repl

LEMMA Invariance == Spec => []Inv
  BY InitInv, NextInv, PTL DEF Spec

(* The variables keep their types. *)
THEOREM Typing == Spec => []TypeOK
<1>1. Inv => TypeOK
      BY DEF Inv
<1>2. QED
      BY <1>1, Invariance, PTL

(* A node that runs and takes no commands has never taken one: the REPL    *)
(* looked at running too early, or a stop was undone (node.c lines 294     *)
(* and 405).                                                               *)
THEOREM DeafSinceItsStart == Spec => []DeafFromTheStart
<1>1. Inv => DeafFromTheStart
      BY DEF Inv
<1>2. QED
      BY <1>1, Invariance, PTL

-----------------------------------------------------------------------------
(* What a stop and an exit rest on, besides the threads' being run.        *)

(* The word "exit" is kept, as long as the REPL lives, for the comparison  *)
(* of its next turn; a REPL that is gone has left running cleared.         *)
ExitKept == command = "exit" => ~Starting /\ (rpc \in {"test", "compare"} \/ (rpc = "gone" /\ ~running))

(* No step of any thread loses the word. *)
LEMMA ExitKeptStep == Inv /\ ExitKept /\ [Next]_vars => ExitKept'
<1> SUFFICES ASSUME Inv, ExitKept, [Next]_vars PROVE ExitKept'
    OBVIOUS
<1> USE DEF ExitKept, Inv, Unprompted, Starting
<1>1. CASE Main
      BY <1>1 DEF Main, CreateListener, CreateRepl, MainReturns, LastThreadEnds, MainFrame, TypeOK
<1>2. CASE Listener \/ SyncerStops
      BY <1>2 DEF Listener, InstallHandler, SetRunning, CreateSyncer, ListenerStops, SyncerStops, ListenerFrame
<1>3. CASE ReplTests
      BY <1>3 DEF ReplTests, ReplFrame, leftOver
<1>4. CASE ReplCompares
  <2>1. UNCHANGED <<lpc, command>> /\ rpc = "compare"
        BY ONLY <1>4 DEF ReplCompares, ReplFrame
  <2>2. command = "exit" => rpc' = "gone" /\ ~running'
        BY ONLY <1>4 DEF ReplCompares, gently_shitdown
  <2>3. QED
        BY ONLY ExitKept, <2>1, <2>2 DEF ExitKept, Starting
<1>5. CASE ReplReads
  <2>1. UNCHANGED lpc /\ rpc = "scanf" /\ rpc' = "test"
        BY ONLY <1>5 DEF ReplReads, ReplFrame
  <2>2. QED
        BY <2>1
<1>6. CASE Sigint
  <2>1. /\ command' = command /\ lpc' \in {lpc, "gone"} /\ rpc' \in {rpc, "gone"}
        /\ UNCHANGED <<running, rpc>> \/ ~running'
        BY ONLY <1>6 DEF Sigint, gently_shitdown, threads
  <2>2. QED
        BY ONLY ExitKept, <2>1 DEF ExitKept, Starting
<1>7. CASE UNCHANGED vars
      BY <1>7 DEF vars, threads
<1>8. QED
      BY <1>1, <1>2, <1>3, <1>4, <1>5, <1>6, <1>7 DEF Next, Repl

(* An "exit" is never lost on the way from scanf to the comparison one turn *)
(* later, not even to a SIGINT in between: the REPL is still to compare it, *)
(* or has ended with running cleared (user_repl lines 407-414).            *)
THEOREM ExitIsNeverLost ==
    Spec => [](command = "exit" => rpc \in {"test", "compare"} \/ (rpc = "gone" /\ ~running))
<1>1. Init => ExitKept
      BY DEF Init, ExitKept
<1>2. ExitKept => (command = "exit" => rpc \in {"test", "compare"} \/ (rpc = "gone" /\ ~running))
      BY DEF ExitKept
<1>3. QED
      BY <1>1, <1>2, ExitKeptStep, Invariance, PTL DEF Spec

(* Once the listener has set running, a stop is for good: the flag is not   *)
(* set again, whatever thread took the signal (incoming_handler line 294). *)
THEOREM StopIsForGood == Spec => [][Started /\ ~running => Started' /\ ~running']_vars
<1>1. Inv /\ [Next]_vars => [Started /\ ~running => Started' /\ ~running']_vars
  <2> SUFFICES ASSUME Inv, Next, Started, ~running PROVE Started' /\ ~running'
      OBVIOUS
  <2>1. ASSUME lpc' = lpc \/ lpc' \in {"loop", "gone"}, ~running'
        PROVE  Started' /\ ~running'
        BY <2>1 DEF Started
  <2>2. CASE Main
    <3>1. mpc # "questions" \/ lpc = "none"
          BY DEF Inv, Unprompted
    <3>2. UNCHANGED <<lpc, running>>
          BY <2>2, <3>1 DEF Started, Main, CreateListener, CreateRepl, MainReturns, LastThreadEnds, MainFrame
    <3>3. ~running'
          BY <3>2, Zenon
    <3>4. QED
          BY <2>1, <3>2, <3>3
  <2>3. CASE Listener \/ SyncerStops
    <3>1. ~InstallHandler /\ ~SetRunning
          BY DEF InstallHandler, SetRunning, Started
    <3>2. lpc' = lpc \/ lpc' \in {"loop", "gone"}
          BY <2>3, <3>1 DEF Listener, CreateSyncer, ListenerStops, SyncerStops, ListenerFrame
    <3>3. running' = running
          BY <2>3, <3>1 DEF Listener, CreateSyncer, ListenerStops, SyncerStops, ListenerFrame
    <3>4. ~running'
          BY <3>3, Zenon
    <3>5. QED
          BY <2>1, <3>2, <3>4
  <2>4. CASE Repl
    <3>1. lpc' = lpc
          BY ONLY <2>4 DEF Repl, ReplTests, ReplCompares, ReplReads, ReplFrame
    <3>2. running' = running \/ ~running'
          BY ONLY <2>4 DEF Repl, ReplTests, ReplCompares, ReplReads, ReplFrame, gently_shitdown
    <3>3. ~running'
          BY <3>2, Zenon
    <3>4. QED
          BY <2>1, <3>1, <3>3
  <2>5. CASE Sigint
    <3>1. lpc' \in {lpc, "gone"}
          BY ONLY <2>5 DEF Sigint, threads
    <3>2. running' = running \/ ~running'
          BY ONLY <2>5 DEF Sigint, gently_shitdown, threads
    <3>3. ~running'
          BY <3>2, Zenon
    <3>4. QED
          BY <2>1, <3>1, <3>3
  <2>6. QED
        BY <2>2, <2>3, <2>4, <2>5, Zenon DEF Next
<1>2. QED
      BY <1>1, Invariance, PTL DEF Spec
=============================================================================
