-------------------------- MODULE CubeMXRun_proofs ---------------------------
(***************************************************************************)
(* The safety of run_cubemx for any number of extensions: its types, what  *)
(* a reported success means, that a terminated tree is gone, and that the  *)
(* script is removed.  One inductive invariant, Inv, carries all four.     *)
(***************************************************************************)
EXTENDS CubeMXRun, TLAPS

Deciding == {"poll", "kill", "settle", "done", "raised"}

\* Why a success was reported; a tree is terminated for a marker of this run only.
SuccessHasReason ==
    verdict \in {"success", "terminated"} =>
        \/ marker = "new"
        \/ marker = "old" /\ exit = "zero" /\ launcher = "exited" /\ at \notin {"poll", "kill"}

\* A termination is decided once, at the end of the loop, and carried out.
TerminationCarriedOut ==
    verdict \in {"timed_out", "terminated"} =>
        /\ at \in Deciding
        /\ at \in {"settle", "done"} /\ sweep = "due" => launcher # "alive" /\ jvm # "alive"

Inv ==
    /\ TypeOK
    /\ marker = "old" => existed
    /\ at = "spawn" => launcher = "none"
    /\ at \notin {"spawn", "raised"} => launcher # "none"
    /\ SuccessHasReason
    /\ TerminationCarriedOut
    /\ ScriptGone

LEMMA InitInv == Init => Inv
<1>1. Init => existed \in BOOLEAN /\ (marker = "old" => existed)
  BY Zenon DEF Init
<1>. QED
  BY <1>1, ExtensionAssumption
     DEF Init, Inv, TypeOK, SuccessHasReason, TerminationCarriedOut, ScriptGone

\* Steps of the loop.
LEMMA LoopInv ==
    ASSUME Inv, Spawn \/ RunStep \/ Raise
    PROVE  Inv'
<1>. USE ExtensionAssumption
     DEF Inv, TypeOK, SuccessHasReason, TerminationCarriedOut, ScriptGone, Deciding, tree, clocks
<1>1. CASE Spawn
  BY <1>1 DEF Spawn
<1>2. CASE LookForMarker
  BY <1>2 DEF LookForMarker, Appeared
<1>3. CASE LookAtLog
  BY <1>3 DEF LookAtLog, Sample
<1>4. CASE LookForExit
  BY <1>4 DEF LookForExit
<1>5. CASE GraceSucceeds
  BY <1>5 DEF GraceSucceeds, Appeared
<1>6. CASE GraceLooks
  BY <1>6 DEF GraceLooks, Sample
<1>7. CASE GraceEnds
  BY <1>7 DEF GraceEnds, GraceLeft
<1>8. CASE LookAtDeadline
  BY <1>8 DEF LookAtDeadline, Extends
<1>9. CASE LauncherGone
  BY <1>9 DEF LauncherGone
<1>10. CASE SigTerm
  BY <1>10 DEF SigTerm
<1>11. CASE SigKill
  BY <1>11 DEF SigKill, SweptTree
<1>12. CASE Settle
  BY <1>12 DEF Settle
<1>13. CASE Raise
  BY <1>13 DEF Raise, ScriptAfterRaise
<1>. QED
  BY <1>1, <1>2, <1>3, <1>4, <1>5, <1>6, <1>7, <1>8, <1>9, <1>10, <1>11, <1>12, <1>13 DEF RunStep

\* Steps of CubeMX and the clock.
LEMMA CubeMXInv ==
    ASSUME Inv, StartJvm \/ WriteMarker \/ WriteLog \/ JvmExits \/ LauncherExits \/ DeadlinePasses \/ Lull
    PROVE  Inv'
<1>. USE DEF Inv, TypeOK, SuccessHasReason, TerminationCarriedOut, ScriptGone, Deciding, run, tree,
             clocks
<1>1. CASE StartJvm
  BY <1>1 DEF StartJvm
<1>2. CASE WriteMarker
  BY <1>2 DEF WriteMarker
<1>3. CASE WriteLog \/ DeadlinePasses \/ Lull
  BY <1>3 DEF WriteLog, DeadlinePasses, Lull, ClockRead
<1>4. CASE JvmExits
  BY <1>4 DEF JvmExits
<1>5. CASE LauncherExits
  BY <1>5 DEF LauncherExits
<1>. QED
  BY <1>1, <1>2, <1>3, <1>4, <1>5

LEMMA Inductive == Spec => []Inv
<1>1. Inv /\ UNCHANGED vars => Inv'
  BY DEF Inv, TypeOK, SuccessHasReason, TerminationCarriedOut, ScriptGone, vars, tree, clocks
<1>2. Inv /\ [Next]_vars => Inv'
  BY <1>1, LoopInv, CubeMXInv DEF Next
<1>. QED
  BY <1>2, InitInv, PTL DEF Spec

-----------------------------------------------------------------------------
\* The types, with the number of extensions of the deadline and the grace period.
THEOREM Typed == Spec => []TypeOK
<1>1. Inv => TypeOK
  BY DEF Inv
<1>. QED
  BY <1>1, Inductive, PTL

\* A success is never owed to a marker of an earlier generation alone.
THEOREM SuccessFresh == Spec => []SuccessIsFresh
<1>1. Inv => SuccessIsFresh
  BY DEF Inv, SuccessHasReason, SuccessIsFresh
<1>. QED
  BY <1>1, Inductive, PTL

\* Whoever is told that the tree was terminated has the output to itself.
THEOREM WriterGone == Spec => []NoLateWriter
<1>1. Inv => NoLateWriter
  BY DEF Inv, TerminationCarriedOut, NoLateWriter
<1>. QED
  BY <1>1, Inductive, PTL

\* The script goes on every way out.
THEOREM NoScriptLeft == Spec => []ScriptGone
<1>1. Inv => ScriptGone
  BY DEF Inv
<1>. QED
  BY <1>1, Inductive, PTL
=============================================================================
