---------------------------- MODULE DaemonProofs ----------------------------
(***************************************************************************)
(* Proofs about module Daemon for any finite set of services, any channel  *)
(* size and any additions: the invariant IInv of module DaemonInv is        *)
(* inductive, the safety properties follow from it, and the states topic   *)
(* implements module Lifecycle.                                            *)
(***************************************************************************)
EXTENDS DaemonInv, FiniteSetTheorems, SequenceTheorems, TLAPS

\* Every step keeps the types, and the update channel within its capacity.
LEMMA TypeStep ==
    ASSUME TypeOK, LaunchInv, ManagerInv, [Next]_vars
    PROVE  TypeOK'
<1> USE DEF TypeOK, LaunchInv, ManagerInv, ManagerLocal, ManagerTypeOK, StateUpdates,
            Entering, Exited, States, Methods, Transitions, PCs, Policies, Phases, vars,
            managerVars, daemonVars
<1>1. ASSUME NEW a \in Additions, AddServiceCheck(a)
      PROVE  TypeOK'
  BY <1>1 DEF AddServiceCheck
<1>2. ASSUME NEW a \in adding, AddServiceStore(a)
      PROVE  TypeOK'
  BY <1>2, DaemonAssumption DEF AddServiceStore
<1>3. CASE Start
  BY <1>3 DEF Start
<1>4. CASE Cancel
  BY <1>4 DEF Cancel
<1>5. CASE OpenStates
  <2>. DEFINE R == {s \in Services : registered[s] # "none"}
  <2>1. Cardinality(R) \in Nat
    BY DaemonAssumption, FS_Subset, FS_CardinalityType
  <2>2. SlotsPerService * Cardinality(R) \in Nat
    BY <2>1, DaemonAssumption
  <2>3. Len(updates) = 0
    BY <1>5 DEF OpenStates
  <2>. QED  BY <1>5, <2>2, <2>3 DEF OpenStates
<1>6. CASE Launch
  BY <1>6 DEF Launch
<1>7. CASE ServicesExited
  BY <1>7 DEF ServicesExited
<1>8. CASE RPCShutdown
  BY <1>8 DEF RPCShutdown
<1>9. CASE RPCShutdownError
  BY <1>9 DEF RPCShutdownError
<1>10. CASE CloseUpdates
  BY <1>10 DEF CloseUpdates
<1>11. CASE CloseIntracom
  BY <1>11 DEF CloseIntracom
<1>12. CASE WatcherReceive
  <2>. DEFINE R == [name : Services, update : StateUpdates]
  <2>1. /\ Head(updates) \in R
        /\ Tail(updates) \in Seq(R)
        /\ Len(Tail(updates)) = Len(updates) - 1
    BY <1>12, HeadTailProperties DEF WatcherReceive
  <2>2. Len(updates) \in Nat /\ capacity \in Nat
    OBVIOUS
  <2>. QED  BY <1>12, <2>1, <2>2 DEF WatcherReceive
<1>13. CASE WatcherPublish
  BY <1>13 DEF WatcherPublish
<1>14. CASE WatcherDone
  BY <1>14 DEF WatcherDone
<1>15. ASSUME NEW s \in Services, BeginPanic(s), UNCHANGED daemonVars
      PROVE  TypeOK'
  BY <1>15 DEF BeginPanic, Goto
<1>16. ASSUME NEW s \in Services, BeginCancelled(s), UNCHANGED daemonVars
      PROVE  TypeOK'
  BY <1>16 DEF BeginCancelled, Goto, AfterLoop
<1>17. ASSUME NEW s \in Services, BeginTick(s), UNCHANGED daemonVars
      PROVE  TypeOK'
  BY <1>17 DEF BeginTick, Goto
<1>18. ASSUME NEW s \in Services, FirstInit(s), UNCHANGED daemonVars
      PROVE  TypeOK'
  BY <1>18 DEF FirstInit, Goto, Send
<1>19. ASSUME NEW s \in Services, Enter(s), UNCHANGED daemonVars
      PROVE  TypeOK'
  BY <1>19 DEF Enter, Goto, Send
<1>20. ASSUME NEW s \in Services, SelectCancelled(s), UNCHANGED daemonVars
      PROVE  TypeOK'
  BY <1>20 DEF SelectCancelled, Goto, AfterLoop
<1>21. ASSUME NEW s \in Services, SelectTick(s), UNCHANGED daemonVars
      PROVE  TypeOK'
  BY <1>21 DEF SelectTick, Goto
<1>22. ASSUME NEW s \in Services, NEW ok \in BOOLEAN,
             Return(s, ok), UNCHANGED daemonVars
      PROVE  TypeOK'
  BY <1>22 DEF Return, Goto, NextState
<1>23. ASSUME NEW s \in Services, Report(s), UNCHANGED daemonVars
      PROVE  TypeOK'
  <2>1. \E l \in {"done", "finish", "cleanup", "entering"} : pc' = [pc EXCEPT ![s] = l]
    BY <1>23 DEF Report, Goto, AfterLoop
  <2>2. pc' \in [Services -> PCs]
    BY <2>1
  <2>. QED  BY <1>23, <2>2 DEF Report, Send
<1>24. ASSUME NEW s \in Services, Cleanup(s), UNCHANGED daemonVars
      PROVE  TypeOK'
  BY <1>24 DEF Cleanup, Goto, Send
<1>25. ASSUME NEW s \in Services, CleanupReturn(s), UNCHANGED daemonVars
      PROVE  TypeOK'
  BY <1>25 DEF CleanupReturn, Goto
<1>26. ASSUME NEW s \in Services, CleanupReport(s), UNCHANGED daemonVars
      PROVE  TypeOK'
  BY <1>26 DEF CleanupReport, Goto, Send
<1>27. ASSUME NEW s \in Services, Finish(s), UNCHANGED daemonVars
      PROVE  TypeOK'
  BY <1>27 DEF Finish, Goto, Send
<1>28. ASSUME NEW s \in Services, Panic(s), UNCHANGED daemonVars
      PROVE  TypeOK'
  BY <1>28 DEF Panic, Goto
<1>29. ASSUME NEW s \in Services, Recover(s), UNCHANGED daemonVars
      PROVE  TypeOK'
  BY <1>29 DEF Recover, Goto, Send
<1>30. CASE UNCHANGED vars
  BY <1>30 DEF vars, managerVars, daemonVars
<1>. HIDE DEF TypeOK, LaunchInv, ManagerInv, ManagerLocal, ManagerTypeOK, StateUpdates,
              Entering, Exited, States, Methods, Transitions, PCs, Policies, Phases, vars,
              managerVars, daemonVars
<1>. QED
  BY <1>1, <1>2, <1>3, <1>4, <1>5, <1>6, <1>7, <1>8, <1>9, <1>10, <1>11, <1>12, <1>13,
     <1>14, <1>15, <1>16, <1>17, <1>18, <1>19, <1>20, <1>21, <1>22, <1>23, <1>24, <1>25,
     <1>26, <1>27, <1>28, <1>29, <1>30
  DEF Next, AddService, StartStep, WatcherStep, ServiceStep, ManagerStep, RunnerStep, Terminated

\* Only Launch starts goroutines, and their policies never change.
LEMMA LaunchStep ==
    ASSUME TypeOK, LaunchInv, ManagerInv, [Next]_vars
    PROVE  LaunchInv'
<1> USE DEF TypeOK, ManagerTypeOK, LaunchInv, ManagerInv, ManagerLocal, Methods, Policies,
            daemonVars, managerVars
<1>1. ASSUME NEW a \in Additions, AddServiceCheck(a)
      PROVE  LaunchInv'
  BY <1>1 DEF AddServiceCheck
<1>2. ASSUME NEW a \in adding, AddServiceStore(a)
      PROVE  LaunchInv'
  BY <1>2 DEF AddServiceStore
<1>3. CASE Start
  BY <1>3 DEF Start
<1>4. CASE Cancel
  BY <1>4 DEF Cancel
<1>5. CASE OpenStates
  BY <1>5 DEF OpenStates
<1>6. CASE Launch
  BY <1>6 DEF Launch
<1>7. CASE ServicesExited
  BY <1>7 DEF ServicesExited
<1>8. CASE RPCShutdown
  BY <1>8 DEF RPCShutdown
<1>9. CASE RPCShutdownError
  BY <1>9 DEF RPCShutdownError
<1>10. CASE CloseUpdates
  BY <1>10 DEF CloseUpdates
<1>11. CASE CloseIntracom
  BY <1>11 DEF CloseIntracom
<1>12. CASE WatcherReceive
  BY <1>12 DEF WatcherReceive
<1>13. CASE WatcherPublish
  BY <1>13 DEF WatcherPublish
<1>14. CASE WatcherDone
  BY <1>14 DEF WatcherDone
<1>15. ASSUME NEW s \in Services, BeginPanic(s), UNCHANGED daemonVars
      PROVE  LaunchInv'
  BY <1>15 DEF BeginPanic, Goto
<1>16. ASSUME NEW s \in Services, BeginCancelled(s), UNCHANGED daemonVars
      PROVE  LaunchInv'
  BY <1>16 DEF BeginCancelled, Goto, AfterLoop
<1>17. ASSUME NEW s \in Services, BeginTick(s), UNCHANGED daemonVars
      PROVE  LaunchInv'
  BY <1>17 DEF BeginTick, Goto
<1>18. ASSUME NEW s \in Services, FirstInit(s), UNCHANGED daemonVars
      PROVE  LaunchInv'
  BY <1>18 DEF FirstInit, Goto, Send
<1>19. ASSUME NEW s \in Services, Enter(s), UNCHANGED daemonVars
      PROVE  LaunchInv'
  BY <1>19 DEF Enter, Goto, Send
<1>20. ASSUME NEW s \in Services, SelectCancelled(s), UNCHANGED daemonVars
      PROVE  LaunchInv'
  BY <1>20 DEF SelectCancelled, Goto, AfterLoop
<1>21. ASSUME NEW s \in Services, SelectTick(s), UNCHANGED daemonVars
      PROVE  LaunchInv'
  BY <1>21 DEF SelectTick, Goto
<1>22. ASSUME NEW s \in Services, NEW ok \in BOOLEAN,
             Return(s, ok), UNCHANGED daemonVars
      PROVE  LaunchInv'
  BY <1>22 DEF Return, Goto, NextState
<1>23. ASSUME NEW s \in Services, Report(s), UNCHANGED daemonVars
      PROVE  LaunchInv'
  BY <1>23 DEF Report, Goto, Send, AfterLoop, InFirstInit
<1>24. ASSUME NEW s \in Services, Cleanup(s), UNCHANGED daemonVars
      PROVE  LaunchInv'
  BY <1>24 DEF Cleanup, Goto, Send
<1>25. ASSUME NEW s \in Services, CleanupReturn(s), UNCHANGED daemonVars
      PROVE  LaunchInv'
  BY <1>25 DEF CleanupReturn, Goto
<1>26. ASSUME NEW s \in Services, CleanupReport(s), UNCHANGED daemonVars
      PROVE  LaunchInv'
  BY <1>26 DEF CleanupReport, Goto, Send
<1>27. ASSUME NEW s \in Services, Finish(s), UNCHANGED daemonVars
      PROVE  LaunchInv'
  BY <1>27 DEF Finish, Goto, Send
<1>28. ASSUME NEW s \in Services, Panic(s), UNCHANGED daemonVars
      PROVE  LaunchInv'
  BY <1>28 DEF Panic, Goto
<1>29. ASSUME NEW s \in Services, Recover(s), UNCHANGED daemonVars
      PROVE  LaunchInv'
  BY <1>29 DEF Recover, Goto, Send
<1>30. CASE UNCHANGED vars
  BY <1>30 DEF vars, managerVars, daemonVars
<1>. HIDE DEF TypeOK, ManagerTypeOK, LaunchInv, ManagerInv, ManagerLocal, Methods, Policies,
              daemonVars, managerVars
<1>. QED
  BY <1>1, <1>2, <1>3, <1>4, <1>5, <1>6, <1>7, <1>8, <1>9, <1>10, <1>11, <1>12, <1>13,
     <1>14, <1>15, <1>16, <1>17, <1>18, <1>19, <1>20, <1>21, <1>22, <1>23, <1>24, <1>25,
     <1>26, <1>27, <1>28, <1>29, <1>30
  DEF Next, AddService, StartStep, WatcherStep, ServiceStep, ManagerStep, RunnerStep, Terminated

\* Start goes on only when the managers, and then the states watcher, are done.
LEMMA ShutdownStep ==
    ASSUME TypeOK, LaunchInv, ShutdownInv, [Next]_vars
    PROVE  ShutdownInv'
<1> USE DEF TypeOK, ManagerTypeOK, LaunchInv, ShutdownInv, daemonVars, managerVars
<1>1. ASSUME NEW a \in Additions, AddServiceCheck(a)
      PROVE  ShutdownInv'
  BY <1>1 DEF AddServiceCheck
<1>2. ASSUME NEW a \in adding, AddServiceStore(a)
      PROVE  ShutdownInv'
  BY <1>2 DEF AddServiceStore
<1>3. CASE Start
  BY <1>3 DEF Start
<1>4. CASE Cancel
  BY <1>4 DEF Cancel
<1>5. CASE OpenStates
  BY <1>5 DEF OpenStates
<1>6. CASE Launch
  BY <1>6 DEF Launch
<1>7. CASE ServicesExited
  BY <1>7 DEF ServicesExited
<1>8. CASE RPCShutdown
  BY <1>8 DEF RPCShutdown
<1>9. CASE RPCShutdownError
  BY <1>9 DEF RPCShutdownError
<1>10. CASE CloseUpdates
  BY <1>10 DEF CloseUpdates
<1>11. CASE CloseIntracom
  BY <1>11 DEF CloseIntracom
<1>12. CASE WatcherReceive
  BY <1>12 DEF WatcherReceive
<1>13. CASE WatcherPublish
  BY <1>13 DEF WatcherPublish
<1>14. CASE WatcherDone
  BY <1>14 DEF WatcherDone
<1>15. ASSUME NEW s \in Services, BeginPanic(s), UNCHANGED daemonVars
      PROVE  ShutdownInv'
  BY <1>15 DEF BeginPanic, Goto
<1>16. ASSUME NEW s \in Services, BeginCancelled(s), UNCHANGED daemonVars
      PROVE  ShutdownInv'
  BY <1>16 DEF BeginCancelled, Goto, AfterLoop
<1>17. ASSUME NEW s \in Services, BeginTick(s), UNCHANGED daemonVars
      PROVE  ShutdownInv'
  BY <1>17 DEF BeginTick, Goto
<1>18. ASSUME NEW s \in Services, FirstInit(s), UNCHANGED daemonVars
      PROVE  ShutdownInv'
  BY <1>18 DEF FirstInit, Goto, Send
<1>19. ASSUME NEW s \in Services, Enter(s), UNCHANGED daemonVars
      PROVE  ShutdownInv'
  BY <1>19 DEF Enter, Goto, Send
<1>20. ASSUME NEW s \in Services, SelectCancelled(s), UNCHANGED daemonVars
      PROVE  ShutdownInv'
  BY <1>20 DEF SelectCancelled, Goto, AfterLoop
<1>21. ASSUME NEW s \in Services, SelectTick(s), UNCHANGED daemonVars
      PROVE  ShutdownInv'
  BY <1>21 DEF SelectTick, Goto
<1>22. ASSUME NEW s \in Services, NEW ok \in BOOLEAN,
             Return(s, ok), UNCHANGED daemonVars
      PROVE  ShutdownInv'
  BY <1>22 DEF Return, Goto, NextState
<1>23. ASSUME NEW s \in Services, Report(s), UNCHANGED daemonVars
      PROVE  ShutdownInv'
  BY <1>23 DEF Report, Goto, Send, AfterLoop, InFirstInit
<1>24. ASSUME NEW s \in Services, Cleanup(s), UNCHANGED daemonVars
      PROVE  ShutdownInv'
  BY <1>24 DEF Cleanup, Goto, Send
<1>25. ASSUME NEW s \in Services, CleanupReturn(s), UNCHANGED daemonVars
      PROVE  ShutdownInv'
  BY <1>25 DEF CleanupReturn, Goto
<1>26. ASSUME NEW s \in Services, CleanupReport(s), UNCHANGED daemonVars
      PROVE  ShutdownInv'
  BY <1>26 DEF CleanupReport, Goto, Send
<1>27. ASSUME NEW s \in Services, Finish(s), UNCHANGED daemonVars
      PROVE  ShutdownInv'
  BY <1>27 DEF Finish, Goto, Send
<1>28. ASSUME NEW s \in Services, Panic(s), UNCHANGED daemonVars
      PROVE  ShutdownInv'
  BY <1>28 DEF Panic, Goto
<1>29. ASSUME NEW s \in Services, Recover(s), UNCHANGED daemonVars
      PROVE  ShutdownInv'
  BY <1>29 DEF Recover, Goto, Send
<1>30. CASE UNCHANGED vars
  BY <1>30 DEF vars, managerVars, daemonVars
<1>. HIDE DEF TypeOK, ManagerTypeOK, LaunchInv, ShutdownInv, daemonVars, managerVars
<1>. QED
  BY <1>1, <1>2, <1>3, <1>4, <1>5, <1>6, <1>7, <1>8, <1>9, <1>10, <1>11, <1>12, <1>13,
     <1>14, <1>15, <1>16, <1>17, <1>18, <1>19, <1>20, <1>21, <1>22, <1>23, <1>24, <1>25,
     <1>26, <1>27, <1>28, <1>29, <1>30
  DEF Next, AddService, StartStep, WatcherStep, ServiceStep, ManagerStep, RunnerStep, Terminated

\* The local variables of every manager stay consistent with the place it is at.
LEMMA ManagerLocalStep ==
    ASSUME TypeOK, LaunchInv, ManagerInv, [Next]_vars
    PROVE  ManagerInv'
<1> USE DEF TypeOK, ManagerTypeOK, LaunchInv, ManagerInv, ManagerLocal, Methods, Policies,
            daemonVars, managerVars
<1>1. ASSUME NEW a \in Additions, AddServiceCheck(a)
      PROVE  ManagerInv'
  BY <1>1 DEF AddServiceCheck
<1>2. ASSUME NEW a \in adding, AddServiceStore(a)
      PROVE  ManagerInv'
  BY <1>2 DEF AddServiceStore
<1>3. CASE Start
  BY <1>3 DEF Start
<1>4. CASE Cancel
  BY <1>4 DEF Cancel
<1>5. CASE OpenStates
  BY <1>5 DEF OpenStates
<1>6. CASE Launch
  BY <1>6 DEF Launch
<1>7. CASE ServicesExited
  BY <1>7 DEF ServicesExited
<1>8. CASE RPCShutdown
  BY <1>8 DEF RPCShutdown
<1>9. CASE RPCShutdownError
  BY <1>9 DEF RPCShutdownError
<1>10. CASE CloseUpdates
  BY <1>10 DEF CloseUpdates
<1>11. CASE CloseIntracom
  BY <1>11 DEF CloseIntracom
<1>12. CASE WatcherReceive
  BY <1>12 DEF WatcherReceive
<1>13. CASE WatcherPublish
  BY <1>13 DEF WatcherPublish
<1>14. CASE WatcherDone
  BY <1>14 DEF WatcherDone
<1>15. ASSUME NEW s \in Services, BeginPanic(s), UNCHANGED daemonVars
      PROVE  ManagerInv'
  BY <1>15 DEF BeginPanic, Goto
<1>16. ASSUME NEW s \in Services, BeginCancelled(s), UNCHANGED daemonVars
      PROVE  ManagerInv'
  BY <1>16 DEF BeginCancelled, Goto, AfterLoop
<1>17. ASSUME NEW s \in Services, BeginTick(s), UNCHANGED daemonVars
      PROVE  ManagerInv'
  BY <1>17 DEF BeginTick, Goto
<1>18. ASSUME NEW s \in Services, FirstInit(s), UNCHANGED daemonVars
      PROVE  ManagerInv'
  BY <1>18 DEF FirstInit, Goto, Send
<1>19. ASSUME NEW s \in Services, Enter(s), UNCHANGED daemonVars
      PROVE  ManagerInv'
  BY <1>19 DEF Enter, Goto, Send
<1>20. ASSUME NEW s \in Services, SelectCancelled(s), UNCHANGED daemonVars
      PROVE  ManagerInv'
  BY <1>20 DEF SelectCancelled, Goto, AfterLoop
<1>21. ASSUME NEW s \in Services, SelectTick(s), UNCHANGED daemonVars
      PROVE  ManagerInv'
  BY <1>21 DEF SelectTick, Goto
<1>22. ASSUME NEW s \in Services, NEW ok \in BOOLEAN,
             Return(s, ok), UNCHANGED daemonVars
      PROVE  ManagerInv'
  <2>1. \A t \in Services \ {s} : ManagerLocal(t)'
    BY <1>22 DEF Return, Goto
  <2>2. /\ pc'[s] = "exited" /\ policy'[s] = policy[s] /\ method'[s] = method[s]
        /\ state'[s] = NextState(policy'[s], method'[s], ok)
        /\ hasStopped'[s] = (method[s] = "stop" \/ hasStopped[s])
    BY <1>22 DEF Return, Goto
  <2>3. pc[s] = "calling"
    BY <1>22 DEF Return
  <2>4. ManagerLocal(s)'
    BY <2>2, <2>3
  <2>. QED  BY <2>1, <2>4
<1>23. ASSUME NEW s \in Services, Report(s), UNCHANGED daemonVars
      PROVE  ManagerInv'
  BY <1>23 DEF Report, Goto, Send, AfterLoop, InFirstInit
<1>24. ASSUME NEW s \in Services, Cleanup(s), UNCHANGED daemonVars
      PROVE  ManagerInv'
  BY <1>24 DEF Cleanup, Goto, Send
<1>25. ASSUME NEW s \in Services, CleanupReturn(s), UNCHANGED daemonVars
      PROVE  ManagerInv'
  BY <1>25 DEF CleanupReturn, Goto
<1>26. ASSUME NEW s \in Services, CleanupReport(s), UNCHANGED daemonVars
      PROVE  ManagerInv'
  BY <1>26 DEF CleanupReport, Goto, Send
<1>27. ASSUME NEW s \in Services, Finish(s), UNCHANGED daemonVars
      PROVE  ManagerInv'
  BY <1>27 DEF Finish, Goto, Send
<1>28. ASSUME NEW s \in Services, Panic(s), UNCHANGED daemonVars
      PROVE  ManagerInv'
  BY <1>28 DEF Panic, Goto
<1>29. ASSUME NEW s \in Services, Recover(s), UNCHANGED daemonVars
      PROVE  ManagerInv'
  BY <1>29 DEF Recover, Goto, Send
<1>30. CASE UNCHANGED vars
  BY <1>30 DEF vars, managerVars, daemonVars
<1>. HIDE DEF TypeOK, ManagerTypeOK, LaunchInv, ManagerInv, ManagerLocal, Methods, Policies,
              daemonVars, managerVars
<1>. QED
  BY <1>1, <1>2, <1>3, <1>4, <1>5, <1>6, <1>7, <1>8, <1>9, <1>10, <1>11, <1>12, <1>13,
     <1>14, <1>15, <1>16, <1>17, <1>18, <1>19, <1>20, <1>21, <1>22, <1>23, <1>24, <1>25,
     <1>26, <1>27, <1>28, <1>29, <1>30
  DEF Next, AddService, StartStep, WatcherStep, ServiceStep, ManagerStep, RunnerStep, Terminated

\* A manager leaves its loop on cancellation, or after Run.
LEMMA ExitReasonStep ==
    ASSUME TypeOK, LaunchInv, ManagerInv, ExitsForAReason, [Next]_vars
    PROVE  ExitsForAReason'
<1> USE DEF TypeOK, ManagerTypeOK, LaunchInv, ManagerInv, ManagerLocal, ExitsForAReason,
            Methods, Policies, daemonVars, managerVars
<1>1. ASSUME NEW a \in Additions, AddServiceCheck(a)
      PROVE  ExitsForAReason'
  BY <1>1 DEF AddServiceCheck
<1>2. ASSUME NEW a \in adding, AddServiceStore(a)
      PROVE  ExitsForAReason'
  BY <1>2 DEF AddServiceStore
<1>3. CASE Start
  BY <1>3 DEF Start
<1>4. CASE Cancel
  BY <1>4 DEF Cancel
<1>5. CASE OpenStates
  BY <1>5 DEF OpenStates
<1>6. CASE Launch
  BY <1>6 DEF Launch
<1>7. CASE ServicesExited
  BY <1>7 DEF ServicesExited
<1>8. CASE RPCShutdown
  BY <1>8 DEF RPCShutdown
<1>9. CASE RPCShutdownError
  BY <1>9 DEF RPCShutdownError
<1>10. CASE CloseUpdates
  BY <1>10 DEF CloseUpdates
<1>11. CASE CloseIntracom
  BY <1>11 DEF CloseIntracom
<1>12. CASE WatcherReceive
  BY <1>12 DEF WatcherReceive
<1>13. CASE WatcherPublish
  BY <1>13 DEF WatcherPublish
<1>14. CASE WatcherDone
  BY <1>14 DEF WatcherDone
<1>15. ASSUME NEW s \in Services, BeginPanic(s), UNCHANGED daemonVars
      PROVE  ExitsForAReason'
  BY <1>15 DEF BeginPanic, Goto
<1>16. ASSUME NEW s \in Services, BeginCancelled(s), UNCHANGED daemonVars
      PROVE  ExitsForAReason'
  BY <1>16 DEF BeginCancelled, Goto, AfterLoop
<1>17. ASSUME NEW s \in Services, BeginTick(s), UNCHANGED daemonVars
      PROVE  ExitsForAReason'
  BY <1>17 DEF BeginTick, Goto
<1>18. ASSUME NEW s \in Services, FirstInit(s), UNCHANGED daemonVars
      PROVE  ExitsForAReason'
  BY <1>18 DEF FirstInit, Goto, Send
<1>19. ASSUME NEW s \in Services, Enter(s), UNCHANGED daemonVars
      PROVE  ExitsForAReason'
  BY <1>19 DEF Enter, Goto, Send
<1>20. ASSUME NEW s \in Services, SelectCancelled(s), UNCHANGED daemonVars
      PROVE  ExitsForAReason'
  BY <1>20 DEF SelectCancelled, Goto, AfterLoop
<1>21. ASSUME NEW s \in Services, SelectTick(s), UNCHANGED daemonVars
      PROVE  ExitsForAReason'
  BY <1>21 DEF SelectTick, Goto
<1>22. ASSUME NEW s \in Services, NEW ok \in BOOLEAN,
             Return(s, ok), UNCHANGED daemonVars
      PROVE  ExitsForAReason'
  BY <1>22 DEF Return, Goto, NextState
<1>23. ASSUME NEW s \in Services, Report(s), UNCHANGED daemonVars
      PROVE  ExitsForAReason'
  BY <1>23 DEF Report, Goto, AfterLoop, InFirstInit, NextState
<1>24. ASSUME NEW s \in Services, Cleanup(s), UNCHANGED daemonVars
      PROVE  ExitsForAReason'
  BY <1>24 DEF Cleanup, Goto, Send
<1>25. ASSUME NEW s \in Services, CleanupReturn(s), UNCHANGED daemonVars
      PROVE  ExitsForAReason'
  BY <1>25 DEF CleanupReturn, Goto
<1>26. ASSUME NEW s \in Services, CleanupReport(s), UNCHANGED daemonVars
      PROVE  ExitsForAReason'
  BY <1>26 DEF CleanupReport, Goto, Send
<1>27. ASSUME NEW s \in Services, Finish(s), UNCHANGED daemonVars
      PROVE  ExitsForAReason'
  BY <1>27 DEF Finish, Goto, Send
<1>28. ASSUME NEW s \in Services, Panic(s), UNCHANGED daemonVars
      PROVE  ExitsForAReason'
  BY <1>28 DEF Panic, Goto
<1>29. ASSUME NEW s \in Services, Recover(s), UNCHANGED daemonVars
      PROVE  ExitsForAReason'
  BY <1>29 DEF Recover, Goto, Send
<1>30. CASE UNCHANGED vars
  BY <1>30 DEF vars, managerVars, daemonVars
<1>. HIDE DEF TypeOK, ManagerTypeOK, LaunchInv, ManagerInv, ManagerLocal, ExitsForAReason,
              Methods, Policies, daemonVars, managerVars
<1>. QED
  BY <1>1, <1>2, <1>3, <1>4, <1>5, <1>6, <1>7, <1>8, <1>9, <1>10, <1>11, <1>12, <1>13,
     <1>14, <1>15, <1>16, <1>17, <1>18, <1>19, <1>20, <1>21, <1>22, <1>23, <1>24, <1>25,
     <1>26, <1>27, <1>28, <1>29, <1>30
  DEF Next, AddService, StartStep, WatcherStep, ServiceStep, ManagerStep, RunnerStep, Terminated

-----------------------------------------------------------------------------
(* The update channel *)

UpdateType == [name : Services, update : StateUpdates]

\* What is known of every waiting update.
LEMMA WaitingUpdates ==
    ASSUME TypeOK, NEW i \in 1 .. Len(updates)
    PROVE  /\ updates[i].name \in Services
           /\ updates[i].update \in StateUpdates
           /\ updates[i] = [name |-> updates[i].name, update |-> updates[i].update]
<1>1. updates[i] \in UpdateType
  BY ElementOfSeq DEF TypeOK, ManagerTypeOK, UpdateType
<1>. QED  BY <1>1 DEF UpdateType

\* A send extends the history of its service by one update and changes nothing
\* about the other services.
LEMMA SendKeepsQueue ==
    ASSUME TypeOK, HeadInv, ChainInv,
           NEW s \in Services, NEW u \in StateUpdates,
           Send(s, u), states' = states,
           \A w \in StateUpdates : LastSent(s, w) => Follows(w, u)
    PROVE  /\ HeadInv' /\ ChainInv'
           /\ \A t \in Services, w \in StateUpdates :
                LastSent(t, w)' => \/ t = s /\ w = u
                                   \/ t # s /\ LastSent(t, w)
<1>. DEFINE n == Len(updates)
<1>1. updates \in Seq(UpdateType) /\ n \in Nat /\ states \in [Services -> StateUpdates]
  BY DEF TypeOK, ManagerTypeOK, UpdateType
<1>2. \A i \in 1 .. n : /\ updates[i].name \in Services
                        /\ updates[i].update \in StateUpdates
                        /\ updates[i] = [name |-> updates[i].name, update |-> updates[i].update]
  BY WaitingUpdates
<1>3. /\ Len(updates') = n + 1
      /\ updates'[n + 1] = [name |-> s, update |-> u]
      /\ \A i \in 1 .. n : updates'[i] = updates[i]
  BY <1>1 DEF Send
<1>4. \A t \in Services : \A i \in 1 .. n + 1, j \in 0 .. n :
        Silent(updates', t, i, j) <=> Silent(updates, t, i, j)
  BY <1>1, <1>3 DEF Silent
<1>5. \A t \in Services, i \in 1 .. n + 1 :
        Silent(updates', t, i, n + 1) <=> t # s /\ Silent(updates, t, i, n)
  BY <1>1, <1>3 DEF Silent
<1>6. HeadInv'
  <2>. SUFFICES ASSUME NEW i \in 1 .. n + 1, Silent(updates', updates'[i].name, 1, i - 1)
                PROVE  Follows(states[updates'[i].name], updates'[i].update)
    BY <1>3 DEF HeadInv
  <2>1. CASE i \in 1 .. n
    <3>1. Silent(updates, updates[i].name, 1, i - 1)
      <4>1. i - 1 \in 0 .. n /\ 1 \in 1 .. n + 1 /\ updates'[i] = updates[i]
        BY <1>1, <1>3, <2>1
      <4>. QED  BY <1>1, <1>2, <1>4, <2>1, <4>1
    <3>. QED  BY <1>3, <2>1, <3>1 DEF HeadInv
  <2>2. CASE i = n + 1
    <3>1. Silent(updates, s, 1, n)
      BY <1>1, <1>3, <1>4, <2>2
    <3>2. LastSent(s, states[s]) /\ states[s] \in StateUpdates
      BY <1>1, <3>1 DEF LastSent
    <3>. QED  BY <1>3, <2>2, <3>2
  <2>. QED  BY <1>1, <2>1, <2>2
<1>7. ChainInv'
  <2>. SUFFICES ASSUME NEW i \in 1 .. n + 1, NEW j \in 1 .. n + 1,
                       i < j, updates'[j].name = updates'[i].name,
                       Silent(updates', updates'[i].name, i + 1, j - 1)
                PROVE  Follows(updates'[i].update, updates'[j].update)
    BY <1>3 DEF ChainInv
  <2>1. i \in 1 .. n /\ updates'[i] = updates[i]
    BY <1>1, <1>3
  <2>2. Silent(updates, updates[i].name, i + 1, j - 1)
    <3>1. i + 1 \in 1 .. n + 1 /\ j - 1 \in 0 .. n
      BY <1>1, <2>1
    <3>. QED  BY <1>2, <1>4, <2>1, <3>1
  <2>3. CASE j \in 1 .. n
    BY <1>3, <2>1, <2>2, <2>3 DEF ChainInv
  <2>4. CASE j = n + 1
    <3>1. updates[i].name = s /\ Silent(updates, s, i + 1, n)
      BY <1>1, <1>3, <2>1, <2>2, <2>4
    <3>2. LastSent(s, updates[i].update)
      BY <1>2, <2>1, <3>1 DEF LastSent
    <3>3. Follows(updates[i].update, u)
      BY <1>2, <2>1, <3>2
    <3>. QED  BY <1>3, <2>1, <2>4, <3>3
  <2>. QED  BY <1>1, <2>3, <2>4
<1>8. ASSUME NEW t \in Services, NEW w \in StateUpdates, LastSent(t, w)'
      PROVE  (t = s /\ w = u) \/ (t # s /\ LastSent(t, w))
  <2>1. CASE states'[t] = w /\ Silent(updates', t, 1, n + 1)
    BY <1>1, <1>5, <2>1 DEF LastSent
  <2>2. ASSUME NEW i \in 1 .. n + 1,
               updates'[i] = [name |-> t, update |-> w], Silent(updates', t, i + 1, n + 1)
        PROVE  (t = s /\ w = u) \/ (t # s /\ LastSent(t, w))
    <3>1. CASE i = n + 1
      BY <1>3, <2>2, <3>1
    <3>2. CASE i \in 1 .. n
      BY <1>1, <1>3, <1>5, <2>2, <3>2 DEF LastSent
    <3>. QED  BY <1>1, <3>1, <3>2
  <2>. QED  BY <1>3, <1>8, <2>1, <2>2 DEF LastSent
<1>. QED  BY <1>6, <1>7, <1>8

\* Taking the oldest update moves it into the watcher's map: what each service has
\* sent last stays the same.
LEMMA ReceiveKeepsQueue ==
    ASSUME TypeOK, HeadInv, ChainInv, WatcherReceive
    PROVE  /\ HeadInv' /\ ChainInv'
           /\ \A t \in Services, w \in StateUpdates : LastSent(t, w)' => LastSent(t, w)
           /\ \E s \in Services :
                /\ states' = [states EXCEPT ![s] = states'[s]]
                /\ Follows(states[s], states'[s])
<1>. DEFINE n == Len(updates)
            h == updates[1]
<1>1. updates \in Seq(UpdateType) /\ n \in Nat /\ states \in [Services -> StateUpdates]
  BY DEF TypeOK, ManagerTypeOK, UpdateType
<1>2. \A i \in 1 .. n : /\ updates[i].name \in Services
                        /\ updates[i].update \in StateUpdates
                        /\ updates[i] = [name |-> updates[i].name, update |-> updates[i].update]
  BY WaitingUpdates
<1>3. /\ n >= 1 /\ Len(updates') = n - 1
      /\ \A i \in 1 .. n - 1 : updates'[i] = updates[i + 1]
      /\ Head(updates) = h
  BY <1>1, HeadTailProperties DEF WatcherReceive
<1>4. /\ states' = [states EXCEPT ![h.name] = h.update]
      /\ h.name \in Services /\ h.update \in StateUpdates
  BY <1>1, <1>2, <1>3 DEF WatcherReceive
<1>5. \A t \in Services : \A i \in 1 .. n, j \in 0 .. n - 1 :
        Silent(updates', t, i, j) <=> Silent(updates, t, i + 1, j + 1)
  <2>. SUFFICES ASSUME NEW t \in Services, NEW i \in 1 .. n, NEW j \in 0 .. n - 1
                PROVE  Silent(updates', t, i, j) <=> Silent(updates, t, i + 1, j + 1)
    OBVIOUS
  <2>1. ASSUME Silent(updates', t, i, j), NEW k \in i + 1 .. j + 1
        PROVE  updates[k].name # t
    <3>1. k - 1 \in i .. j /\ k - 1 \in 1 .. n - 1 /\ (k - 1) + 1 = k
      BY <1>1, <2>1
    <3>. QED  BY <1>3, <2>1, <3>1 DEF Silent
  <2>2. ASSUME Silent(updates, t, i + 1, j + 1), NEW k \in i .. j
        PROVE  updates'[k].name # t
    <3>1. k + 1 \in i + 1 .. j + 1 /\ k \in 1 .. n - 1
      BY <1>1, <2>2
    <3>. QED  BY <1>3, <2>2, <3>1 DEF Silent
  <2>. QED  BY <2>1, <2>2 DEF Silent
<1>6. \A t \in Services : \A j \in 1 .. n :
        Silent(updates, t, 1, j) <=> h.name # t /\ Silent(updates, t, 2, j)
  BY <1>1, <1>3 DEF Silent
<1>7. HeadInv'
  <2>. SUFFICES ASSUME NEW i \in 1 .. n - 1, Silent(updates', updates'[i].name, 1, i - 1)
                PROVE  Follows(states'[updates'[i].name], updates'[i].update)
    BY <1>3 DEF HeadInv
  <2>. DEFINE t == updates[i + 1].name
  <2>1. /\ i + 1 \in 1 .. n /\ updates'[i] = updates[i + 1]
        /\ t \in Services /\ Silent(updates, t, 2, i)
    <3>1. i + 1 \in 1 .. n /\ updates'[i] = updates[i + 1] /\ i - 1 \in 0 .. n - 1 /\ 1 \in 1 .. n
      BY <1>1, <1>3
    <3>2. t \in Services
      BY <1>2, <3>1
    <3>3. Silent(updates, t, 1 + 1, (i - 1) + 1)
      BY <1>5, <3>1, <3>2
    <3>. QED  BY <1>1, <3>1, <3>2, <3>3
  <2>2. CASE t = h.name
    <3>1. Follows(h.update, updates[i + 1].update)
      BY <1>1, <1>3, <2>1, <2>2 DEF ChainInv
    <3>. QED  BY <1>1, <1>4, <2>1, <2>2, <3>1
  <2>3. CASE t # h.name
    <3>1. Silent(updates, t, 1, i)
      BY <1>1, <1>6, <2>1, <2>3
    <3>2. Follows(states[t], updates[i + 1].update)
      BY <1>1, <2>1, <3>1 DEF HeadInv
    <3>. QED  BY <1>1, <1>4, <2>1, <2>3, <3>2
  <2>. QED  BY <2>2, <2>3
<1>8. ChainInv'
  <2>. SUFFICES ASSUME NEW i \in 1 .. n - 1, NEW j \in 1 .. n - 1,
                       i < j, updates'[j].name = updates'[i].name,
                       Silent(updates', updates'[i].name, i + 1, j - 1)
                PROVE  Follows(updates'[i].update, updates'[j].update)
    BY <1>3 DEF ChainInv
  <2>1. /\ i + 1 \in 1 .. n /\ j + 1 \in 1 .. n /\ i + 1 < j + 1
        /\ updates'[i] = updates[i + 1] /\ updates'[j] = updates[j + 1]
    BY <1>1, <1>3
  <2>2. Silent(updates, updates[i + 1].name, (i + 1) + 1, (j + 1) - 1)
    <3>1. i + 1 \in 1 .. n /\ j - 1 \in 0 .. n - 1 /\ (j - 1) + 1 = (j + 1) - 1
      BY <1>1, <2>1
    <3>. QED  BY <1>2, <1>5, <2>1, <3>1
  <2>. QED  BY <2>1, <2>2 DEF ChainInv
<1>9. ASSUME NEW t \in Services, NEW w \in StateUpdates, LastSent(t, w)'
      PROVE  LastSent(t, w)
  <2>1. CASE states'[t] = w /\ Silent(updates', t, 1, n - 1)
    <3>1. Silent(updates, t, 2, n)
      BY <1>1, <1>3, <1>5, <2>1
    <3>2. CASE t = h.name
      BY <1>1, <1>2, <1>3, <1>4, <2>1, <3>1, <3>2 DEF LastSent
    <3>3. CASE t # h.name
      BY <1>1, <1>3, <1>4, <1>6, <2>1, <3>1, <3>3 DEF LastSent
    <3>. QED  BY <3>2, <3>3
  <2>2. ASSUME NEW i \in 1 .. n - 1,
               updates'[i] = [name |-> t, update |-> w], Silent(updates', t, i + 1, n - 1)
        PROVE  LastSent(t, w)
    <3>1. Silent(updates, t, (i + 1) + 1, n) /\ i + 1 \in 1 .. n
      BY <1>1, <1>5, <2>2
    <3>. QED  BY <1>3, <2>2, <3>1 DEF LastSent
  <2>. QED  BY <1>3, <1>9, <2>1, <2>2 DEF LastSent
<1>10. Follows(states[h.name], h.update)
  BY <1>1, <1>3 DEF HeadInv, Silent
<1>11. states' = [states EXCEPT ![h.name] = states'[h.name]] /\ states'[h.name] = h.update
  BY <1>1, <1>4
<1>. QED  BY <1>4, <1>7, <1>8, <1>9, <1>10, <1>11

\* A step that neither sends nor receives changes nothing about the channel.
LEMMA QuietKeepsQueue ==
    ASSUME HeadInv, ChainInv, UNCHANGED <<updates, states>>
    PROVE  /\ HeadInv' /\ ChainInv'
           /\ \A t \in Services, w \in StateUpdates : LastSent(t, w)' => LastSent(t, w)
BY DEF HeadInv, ChainInv, LastSent, Silent

\* The steps of module Lifecycle that the managers' announcements take.
LEMMA Edges ==
    /\ Follows(InitialUpdate, Entering("init"))
    /\ Follows(InitialUpdate, Entering("exit"))
    /\ \A m \in Methods : /\ Follows(Entering(m), Exited(m))
                          /\ Follows(Entering(m), Entering("stop"))
                          /\ Follows(Entering(m), Entering("exit"))
    /\ \A p \in Policies, m \in Methods, ok \in BOOLEAN :
         LET st == NextState(p, m, ok) IN
         IF st = "exit" THEN m = "run" ELSE Follows(Exited(m), Entering(st))
    /\ Follows(Exited("run"), Entering("stop"))
    /\ Follows(Exited("stop"), Entering("exit"))
<1>1. \A m \in Methods : /\ Follows(Entering(m), Exited(m))
                         /\ Follows(Entering(m), Entering("stop"))
                         /\ Follows(Entering(m), Entering("exit"))
  BY DEF Follows, L!Successors, L!Entering, L!Exited, L!Methods, Entering, Exited, Methods
<1>2. ASSUME NEW p \in Policies, NEW m \in Methods, NEW ok \in BOOLEAN
      PROVE  LET st == NextState(p, m, ok) IN
             IF st = "exit" THEN m = "run" ELSE Follows(Exited(m), Entering(st))
  <2>1. CASE m = "init"
    BY <2>1 DEF Follows, L!Successors, L!Entering, L!Exited, L!Methods, NextState, Entering,
       Exited, Methods
  <2>2. CASE m = "idle"
    BY <2>2 DEF Follows, L!Successors, L!Entering, L!Exited, L!Methods, NextState, Entering,
       Exited, Methods
  <2>3. CASE m = "run"
    BY <2>3 DEF Follows, L!Successors, L!Entering, L!Exited, L!Methods, NextState, Entering,
       Exited, Methods
  <2>4. CASE m = "stop"
    BY <2>4 DEF Follows, L!Successors, L!Entering, L!Exited, L!Methods, NextState, Entering,
       Exited, Methods
  <2>. QED  BY <2>1, <2>2, <2>3, <2>4 DEF Methods
<1>3. /\ Follows(InitialUpdate, Entering("init"))
      /\ Follows(InitialUpdate, Entering("exit"))
      /\ Follows(Exited("run"), Entering("stop"))
      /\ Follows(Exited("stop"), Entering("exit"))
  BY DEF Follows, L!Successors, L!Entering, L!Exited, L!Methods, InitialUpdate, Entering,
         Exited, Methods
<1>. QED  BY <1>1, <1>2, <1>3

\* Announcements are state updates.
LEMMA UpdatesTyped ==
    /\ InitialUpdate \in StateUpdates
    /\ \A st \in States : Entering(st) \in StateUpdates /\ Exited(st) \in StateUpdates
BY DEF InitialUpdate, StateUpdates, Entering, Exited, States, Transitions, Methods

\* A send that continues what its service can have sent keeps the channel in order.
LEMMA SendKeepsOrder ==
    ASSUME TypeOK, HeadInv, ChainInv, SentInv,
           NEW s \in Services, NEW u \in StateUpdates, Send(s, u), states' = states,
           \A w \in StateUpdates : CanHaveSent(s, w) => Follows(w, u),
           CanHaveSent(s, u)',
           \A t \in Services \ {s}, w \in StateUpdates : CanHaveSent(t, w) => CanHaveSent(t, w)'
    PROVE  HeadInv' /\ ChainInv' /\ SentInv'
<1>1. \A w \in StateUpdates : LastSent(s, w) => Follows(w, u)
  BY DEF SentInv
<1>2. /\ HeadInv' /\ ChainInv'
      /\ \A t \in Services, w \in StateUpdates :
           LastSent(t, w)' => (t = s /\ w = u) \/ (t # s /\ LastSent(t, w))
  BY <1>1, SendKeepsQueue
<1>3. ASSUME NEW t \in Services, NEW w \in StateUpdates, LastSent(t, w)'
      PROVE  CanHaveSent(t, w)'
  <2>1. CASE t = s /\ w = u
    BY <2>1
  <2>2. CASE t # s /\ LastSent(t, w)
    BY <2>2 DEF SentInv
  <2>. QED  BY <1>2, <1>3, <2>1, <2>2
<1>. QED  BY <1>2, <1>3 DEF SentInv

\* A step that sends nothing keeps the channel in order if what the managers can
\* have sent does not get less.
LEMMA QuietKeepsOrder ==
    ASSUME TypeOK, HeadInv, ChainInv, SentInv,
           WatcherReceive \/ UNCHANGED <<updates, states>>,
           \A t \in Services, w \in StateUpdates : CanHaveSent(t, w) => CanHaveSent(t, w)'
    PROVE  HeadInv' /\ ChainInv' /\ SentInv'
<1>1. /\ HeadInv' /\ ChainInv'
      /\ \A t \in Services, w \in StateUpdates : LastSent(t, w)' => LastSent(t, w)
  BY ReceiveKeepsQueue, QuietKeepsQueue
<1>. QED  BY <1>1 DEF SentInv

\* Every announcement of a manager continues its last one.
LEMMA QueueStep ==
    ASSUME TypeOK, LaunchInv, ManagerInv, HeadInv, ChainInv, SentInv, [Next]_vars
    PROVE  HeadInv' /\ ChainInv' /\ SentInv'
<1>1. CASE \/ AddService \/ Start \/ Cancel \/ OpenStates \/ ServicesExited \/ RPCShutdown
          \/ RPCShutdownError \/ CloseUpdates \/ CloseIntracom \/ WatcherPublish \/ WatcherDone
          \/ UNCHANGED vars
  <2>1. UNCHANGED <<policy, pc, state, method, updates, states>>
    BY <1>1 DEF AddService, AddServiceCheck, AddServiceStore, Start, Cancel, OpenStates,
             ServicesExited, RPCShutdown, RPCShutdownError, CloseUpdates, CloseIntracom,
             WatcherPublish, WatcherDone, vars, managerVars, daemonVars
  <2>. QED  BY <2>1, QuietKeepsOrder DEF CanHaveSent
<1>2. CASE WatcherReceive
  <2>1. UNCHANGED <<policy, pc, state, method>>
    BY <1>2 DEF WatcherReceive, managerVars
  <2>. QED  BY <1>2, <2>1, QuietKeepsOrder DEF CanHaveSent
<1>3. CASE Launch
  <2>1. ASSUME NEW t \in Services, NEW w \in StateUpdates, CanHaveSent(t, w)
        PROVE  CanHaveSent(t, w)'
    <3>1. pc[t] = "off" /\ w = InitialUpdate /\ state[t] = "init" /\ state' = state
      BY <1>3, <2>1 DEF Launch, LaunchInv, CanHaveSent
    <3>2. pc'[t] \in {"off", "begin", "entering"}
      BY <1>3 DEF Launch
    <3>. QED  BY <3>1, <3>2, Edges DEF CanHaveSent
  <2>. QED  BY <1>3, <2>1, QuietKeepsOrder DEF Launch
<1>4. ASSUME NEW s \in Services, BeginPanic(s), UNCHANGED daemonVars
      PROVE  HeadInv' /\ ChainInv' /\ SentInv'
  <2>1. \A t \in Services \ {s} : /\ pc'[t] = pc[t] /\ state'[t] = state[t]
                                   /\ method'[t] = method[t] /\ policy'[t] = policy[t]
    BY <1>4 DEF BeginPanic, Goto
  <2>2. \A t \in Services \ {s}, w \in StateUpdates : CanHaveSent(t, w) => CanHaveSent(t, w)'
    BY <2>1 DEF CanHaveSent
  <2>3. \A w \in StateUpdates : CanHaveSent(s, w) => CanHaveSent(s, w)'
    BY <1>4, TypeOK DEF BeginPanic, Goto, CanHaveSent, TypeOK, ManagerTypeOK, ManagerInv,
       ManagerLocal
  <2>. QED  BY <1>4, <2>2, <2>3, QuietKeepsOrder DEF BeginPanic, daemonVars
<1>5. ASSUME NEW s \in Services, BeginCancelled(s), UNCHANGED daemonVars
      PROVE  HeadInv' /\ ChainInv' /\ SentInv'
  <2>1. \A t \in Services \ {s} : /\ pc'[t] = pc[t] /\ state'[t] = state[t]
                                   /\ method'[t] = method[t] /\ policy'[t] = policy[t]
    BY <1>5 DEF BeginCancelled, Goto
  <2>2. \A t \in Services \ {s}, w \in StateUpdates : CanHaveSent(t, w) => CanHaveSent(t, w)'
    BY <2>1 DEF CanHaveSent
  <2>3. \A w \in StateUpdates : CanHaveSent(s, w) => CanHaveSent(s, w)'
    BY <1>5, Edges, TypeOK DEF BeginCancelled, Goto, AfterLoop, CanHaveSent, TypeOK,
       ManagerTypeOK, ManagerInv, ManagerLocal
  <2>. QED  BY <1>5, <2>2, <2>3, QuietKeepsOrder DEF BeginCancelled, daemonVars
<1>6. ASSUME NEW s \in Services, BeginTick(s), UNCHANGED daemonVars
      PROVE  HeadInv' /\ ChainInv' /\ SentInv'
  <2>1. \A t \in Services \ {s} : /\ pc'[t] = pc[t] /\ state'[t] = state[t]
                                   /\ method'[t] = method[t] /\ policy'[t] = policy[t]
    BY <1>6 DEF BeginTick, Goto
  <2>2. \A t \in Services \ {s}, w \in StateUpdates : CanHaveSent(t, w) => CanHaveSent(t, w)'
    BY <2>1 DEF CanHaveSent
  <2>3. \A w \in StateUpdates : CanHaveSent(s, w) => CanHaveSent(s, w)'
    BY <1>6, TypeOK DEF BeginTick, Goto, CanHaveSent, TypeOK, ManagerTypeOK, ManagerInv,
       ManagerLocal
  <2>. QED  BY <1>6, <2>2, <2>3, QuietKeepsOrder DEF BeginTick, daemonVars
<1>7. ASSUME NEW s \in Services, FirstInit(s), UNCHANGED daemonVars
      PROVE  HeadInv' /\ ChainInv' /\ SentInv'
  <2>1. \A t \in Services \ {s} : /\ pc'[t] = pc[t] /\ state'[t] = state[t]
                                   /\ method'[t] = method[t] /\ policy'[t] = policy[t]
    BY <1>7 DEF FirstInit, Goto
  <2>2. \A t \in Services \ {s}, w \in StateUpdates : CanHaveSent(t, w) => CanHaveSent(t, w)'
    BY <2>1 DEF CanHaveSent
  <2>3. Entering("init") \in StateUpdates
    BY <1>7, UpdatesTyped DEF FirstInit, States, Methods, TypeOK, ManagerTypeOK, ManagerInv,
       ManagerLocal
  <2>4. \A w \in StateUpdates : CanHaveSent(s, w) => Follows(w, Entering("init"))
    BY <1>7, Edges DEF FirstInit, CanHaveSent, ManagerInv, ManagerLocal, Methods
  <2>5. CanHaveSent(s, Entering("init"))'
    BY <1>7, Edges DEF FirstInit, Goto, AfterLoop, CanHaveSent, ManagerInv, ManagerLocal,
       TypeOK, ManagerTypeOK
  <2>. QED  BY <1>7, <2>2, <2>3, <2>4, <2>5, SendKeepsOrder DEF FirstInit, daemonVars
<1>8. ASSUME NEW s \in Services, Enter(s), UNCHANGED daemonVars
      PROVE  HeadInv' /\ ChainInv' /\ SentInv'
  <2>1. \A t \in Services \ {s} : /\ pc'[t] = pc[t] /\ state'[t] = state[t]
                                   /\ method'[t] = method[t] /\ policy'[t] = policy[t]
    BY <1>8 DEF Enter, Goto
  <2>2. \A t \in Services \ {s}, w \in StateUpdates : CanHaveSent(t, w) => CanHaveSent(t, w)'
    BY <2>1 DEF CanHaveSent
  <2>3. Entering(state[s]) \in StateUpdates
    BY <1>8, UpdatesTyped DEF Enter, States, Methods, TypeOK, ManagerTypeOK, ManagerInv,
       ManagerLocal
  <2>4. \A w \in StateUpdates : CanHaveSent(s, w) => Follows(w, Entering(state[s]))
    BY <1>8, Edges DEF Enter, CanHaveSent, ManagerInv, ManagerLocal, Methods
  <2>5. CanHaveSent(s, Entering(state[s]))'
    BY <1>8, Edges DEF Enter, Goto, AfterLoop, CanHaveSent, ManagerInv, ManagerLocal,
       TypeOK, ManagerTypeOK
  <2>. QED  BY <1>8, <2>2, <2>3, <2>4, <2>5, SendKeepsOrder DEF Enter, daemonVars
<1>9. ASSUME NEW s \in Services, SelectCancelled(s), UNCHANGED daemonVars
      PROVE  HeadInv' /\ ChainInv' /\ SentInv'
  <2>1. \A t \in Services \ {s} : /\ pc'[t] = pc[t] /\ state'[t] = state[t]
                                   /\ method'[t] = method[t] /\ policy'[t] = policy[t]
    BY <1>9 DEF SelectCancelled, Goto
  <2>2. \A t \in Services \ {s}, w \in StateUpdates : CanHaveSent(t, w) => CanHaveSent(t, w)'
    BY <2>1 DEF CanHaveSent
  <2>3. \A w \in StateUpdates : CanHaveSent(s, w) => CanHaveSent(s, w)'
    BY <1>9, Edges, TypeOK DEF SelectCancelled, Goto, AfterLoop, CanHaveSent, TypeOK,
       ManagerTypeOK, ManagerInv, ManagerLocal
  <2>. QED  BY <1>9, <2>2, <2>3, QuietKeepsOrder DEF SelectCancelled, daemonVars
<1>10. ASSUME NEW s \in Services, SelectTick(s), UNCHANGED daemonVars
      PROVE  HeadInv' /\ ChainInv' /\ SentInv'
  <2>1. \A t \in Services \ {s} : /\ pc'[t] = pc[t] /\ state'[t] = state[t]
                                   /\ method'[t] = method[t] /\ policy'[t] = policy[t]
    BY <1>10 DEF SelectTick, Goto
  <2>2. \A t \in Services \ {s}, w \in StateUpdates : CanHaveSent(t, w) => CanHaveSent(t, w)'
    BY <2>1 DEF CanHaveSent
  <2>3. \A w \in StateUpdates : CanHaveSent(s, w) => CanHaveSent(s, w)'
    BY <1>10, TypeOK DEF SelectTick, Goto, CanHaveSent, TypeOK, ManagerTypeOK, ManagerInv,
       ManagerLocal
  <2>. QED  BY <1>10, <2>2, <2>3, QuietKeepsOrder DEF SelectTick, daemonVars
<1>11. ASSUME NEW s \in Services, NEW ok \in BOOLEAN,
             Return(s, ok), UNCHANGED daemonVars
      PROVE  HeadInv' /\ ChainInv' /\ SentInv'
  <2>1. \A t \in Services \ {s} : /\ pc'[t] = pc[t] /\ state'[t] = state[t]
                                   /\ method'[t] = method[t] /\ policy'[t] = policy[t]
    BY <1>11 DEF Return, Goto
  <2>2. \A t \in Services \ {s}, w \in StateUpdates : CanHaveSent(t, w) => CanHaveSent(t, w)'
    BY <2>1 DEF CanHaveSent
  <2>3. \A w \in StateUpdates : CanHaveSent(s, w) => CanHaveSent(s, w)'
    BY <1>11, TypeOK DEF Return, Goto, CanHaveSent, TypeOK, ManagerTypeOK, ManagerInv,
       ManagerLocal
  <2>. QED  BY <1>11, <2>2, <2>3, QuietKeepsOrder DEF Return, daemonVars
<1>12. ASSUME NEW s \in Services, Report(s), UNCHANGED daemonVars
      PROVE  HeadInv' /\ ChainInv' /\ SentInv'
  <2>1. \A t \in Services \ {s} : /\ pc'[t] = pc[t] /\ state'[t] = state[t]
                                   /\ method'[t] = method[t] /\ policy'[t] = policy[t]
    <3>1. \E l \in PCs : pc' = [pc EXCEPT ![s] = l]
      BY <1>12 DEF Report, Goto, AfterLoop, PCs
    <3>. QED  BY <1>12, <3>1 DEF Report, TypeOK, ManagerTypeOK
  <2>2. \A t \in Services \ {s}, w \in StateUpdates : CanHaveSent(t, w) => CanHaveSent(t, w)'
    BY <2>1 DEF CanHaveSent
  <2>3. Exited(method[s]) \in StateUpdates
    BY <1>12, UpdatesTyped DEF Report, States, Methods, TypeOK, ManagerTypeOK, ManagerInv,
       ManagerLocal
  <2>4. \A w \in StateUpdates : CanHaveSent(s, w) => Follows(w, Exited(method[s]))
    BY <1>12, Edges DEF Report, CanHaveSent, ManagerInv, ManagerLocal, Methods
  <2>5. CanHaveSent(s, Exited(method[s]))'
    <3>. DEFINE st == state[s]
    <3>1. /\ pc[s] = "exited" /\ state'[s] = st /\ method'[s] = method[s] /\ policy'[s] = policy[s]
          /\ method[s] \in Methods /\ policy[s] \in Policies
          /\ st = "exit" => method[s] = "run" /\ ~hasStopped[s]
          /\ st # "exit" => Follows(Exited(method[s]), Entering(st))
      BY <1>12, Edges DEF Report, LaunchInv, ManagerInv, ManagerLocal, TypeOK, ManagerTypeOK
    <3>2. CASE pc'[s] = "done" /\ policy[s] = "untilSuccess"
      BY <3>1, <3>2 DEF CanHaveSent
    <3>3. CASE pc'[s] = "cleanup" /\ st = "exit"
      BY <3>1, <3>3, Edges DEF CanHaveSent
    <3>4. CASE pc'[s] = "entering" /\ st # "exit"
      BY <3>1, <3>4 DEF CanHaveSent
    <3>5. \/ pc'[s] = "done" /\ policy[s] = "untilSuccess"
          \/ pc'[s] = "cleanup" /\ st = "exit"
          \/ pc'[s] = "entering" /\ st # "exit"
      BY <1>12, <3>1 DEF Report, Goto, AfterLoop, InFirstInit, TypeOK, ManagerTypeOK
    <3>. QED  BY <3>2, <3>3, <3>4, <3>5
  <2>. QED  BY <1>12, <2>2, <2>3, <2>4, <2>5, SendKeepsOrder DEF Report, daemonVars
<1>13. ASSUME NEW s \in Services, Cleanup(s), UNCHANGED daemonVars
      PROVE  HeadInv' /\ ChainInv' /\ SentInv'
  <2>1. \A t \in Services \ {s} : /\ pc'[t] = pc[t] /\ state'[t] = state[t]
                                   /\ method'[t] = method[t] /\ policy'[t] = policy[t]
    BY <1>13 DEF Cleanup, Goto
  <2>2. \A t \in Services \ {s}, w \in StateUpdates : CanHaveSent(t, w) => CanHaveSent(t, w)'
    BY <2>1 DEF CanHaveSent
  <2>3. Entering("stop") \in StateUpdates
    BY <1>13, UpdatesTyped DEF Cleanup, States, Methods, TypeOK, ManagerTypeOK, ManagerInv,
       ManagerLocal
  <2>4. \A w \in StateUpdates : CanHaveSent(s, w) => Follows(w, Entering("stop"))
    BY <1>13, Edges DEF Cleanup, CanHaveSent, ManagerInv, ManagerLocal, Methods
  <2>5. CanHaveSent(s, Entering("stop"))'
    BY <1>13, Edges DEF Cleanup, Goto, AfterLoop, CanHaveSent, ManagerInv, ManagerLocal,
       TypeOK, ManagerTypeOK
  <2>. QED  BY <1>13, <2>2, <2>3, <2>4, <2>5, SendKeepsOrder DEF Cleanup, daemonVars
<1>14. ASSUME NEW s \in Services, CleanupReturn(s), UNCHANGED daemonVars
      PROVE  HeadInv' /\ ChainInv' /\ SentInv'
  <2>1. \A t \in Services \ {s} : /\ pc'[t] = pc[t] /\ state'[t] = state[t]
                                   /\ method'[t] = method[t] /\ policy'[t] = policy[t]
    BY <1>14 DEF CleanupReturn, Goto
  <2>2. \A t \in Services \ {s}, w \in StateUpdates : CanHaveSent(t, w) => CanHaveSent(t, w)'
    BY <2>1 DEF CanHaveSent
  <2>3. \A w \in StateUpdates : CanHaveSent(s, w) => CanHaveSent(s, w)'
    BY <1>14, TypeOK DEF CleanupReturn, Goto, CanHaveSent, TypeOK, ManagerTypeOK,
       ManagerInv, ManagerLocal
  <2>. QED  BY <1>14, <2>2, <2>3, QuietKeepsOrder DEF CleanupReturn, daemonVars
<1>15. ASSUME NEW s \in Services, CleanupReport(s), UNCHANGED daemonVars
      PROVE  HeadInv' /\ ChainInv' /\ SentInv'
  <2>1. \A t \in Services \ {s} : /\ pc'[t] = pc[t] /\ state'[t] = state[t]
                                   /\ method'[t] = method[t] /\ policy'[t] = policy[t]
    BY <1>15 DEF CleanupReport, Goto
  <2>2. \A t \in Services \ {s}, w \in StateUpdates : CanHaveSent(t, w) => CanHaveSent(t, w)'
    BY <2>1 DEF CanHaveSent
  <2>3. Exited("stop") \in StateUpdates
    BY <1>15, UpdatesTyped DEF CleanupReport, States, Methods, TypeOK, ManagerTypeOK,
       ManagerInv, ManagerLocal
  <2>4. \A w \in StateUpdates : CanHaveSent(s, w) => Follows(w, Exited("stop"))
    BY <1>15, Edges DEF CleanupReport, CanHaveSent, ManagerInv, ManagerLocal, Methods
  <2>5. CanHaveSent(s, Exited("stop"))'
    BY <1>15, Edges DEF CleanupReport, Goto, AfterLoop, CanHaveSent, ManagerInv,
       ManagerLocal, TypeOK, ManagerTypeOK
  <2>. QED  BY <1>15, <2>2, <2>3, <2>4, <2>5, SendKeepsOrder DEF CleanupReport, daemonVars
<1>16. ASSUME NEW s \in Services, Finish(s), UNCHANGED daemonVars
      PROVE  HeadInv' /\ ChainInv' /\ SentInv'
  <2>1. \A t \in Services \ {s} : /\ pc'[t] = pc[t] /\ state'[t] = state[t]
                                   /\ method'[t] = method[t] /\ policy'[t] = policy[t]
    BY <1>16 DEF Finish, Goto
  <2>2. \A t \in Services \ {s}, w \in StateUpdates : CanHaveSent(t, w) => CanHaveSent(t, w)'
    BY <2>1 DEF CanHaveSent
  <2>3. Entering("exit") \in StateUpdates
    BY <1>16, UpdatesTyped DEF Finish, States, Methods, TypeOK, ManagerTypeOK, ManagerInv,
       ManagerLocal
  <2>4. \A w \in StateUpdates : CanHaveSent(s, w) => Follows(w, Entering("exit"))
    BY <1>16, Edges DEF Finish, CanHaveSent, ManagerInv, ManagerLocal, Methods
  <2>5. CanHaveSent(s, Entering("exit"))'
    BY <1>16, Edges DEF Finish, Goto, AfterLoop, CanHaveSent, ManagerInv, ManagerLocal,
       TypeOK, ManagerTypeOK
  <2>. QED  BY <1>16, <2>2, <2>3, <2>4, <2>5, SendKeepsOrder DEF Finish, daemonVars
<1>17. ASSUME NEW s \in Services, Panic(s), UNCHANGED daemonVars
      PROVE  HeadInv' /\ ChainInv' /\ SentInv'
  <2>1. \A t \in Services \ {s} : /\ pc'[t] = pc[t] /\ state'[t] = state[t]
                                   /\ method'[t] = method[t] /\ policy'[t] = policy[t]
    BY <1>17 DEF Panic, Goto
  <2>2. \A t \in Services \ {s}, w \in StateUpdates : CanHaveSent(t, w) => CanHaveSent(t, w)'
    BY <2>1 DEF CanHaveSent
  <2>3. \A w \in StateUpdates : CanHaveSent(s, w) => CanHaveSent(s, w)'
    BY <1>17, Edges, TypeOK DEF Panic, Goto, CanHaveSent, TypeOK, ManagerTypeOK, ManagerInv,
       ManagerLocal
  <2>. QED  BY <1>17, <2>2, <2>3, QuietKeepsOrder DEF Panic, daemonVars
<1>18. ASSUME NEW s \in Services, Recover(s), UNCHANGED daemonVars
      PROVE  HeadInv' /\ ChainInv' /\ SentInv'
  <2>1. \A t \in Services \ {s} : /\ pc'[t] = pc[t] /\ state'[t] = state[t]
                                   /\ method'[t] = method[t] /\ policy'[t] = policy[t]
    BY <1>18 DEF Recover, Goto
  <2>2. \A t \in Services \ {s}, w \in StateUpdates : CanHaveSent(t, w) => CanHaveSent(t, w)'
    BY <2>1 DEF CanHaveSent
  <2>3. Entering("exit") \in StateUpdates
    BY <1>18, UpdatesTyped DEF Recover, States, Methods, TypeOK, ManagerTypeOK, ManagerInv,
       ManagerLocal
  <2>4. \A w \in StateUpdates : CanHaveSent(s, w) => Follows(w, Entering("exit"))
    BY <1>18, Edges DEF Recover, CanHaveSent, ManagerInv, ManagerLocal, Methods
  <2>5. CanHaveSent(s, Entering("exit"))'
    BY <1>18, Edges DEF Recover, Goto, AfterLoop, CanHaveSent, ManagerInv, ManagerLocal,
       TypeOK, ManagerTypeOK
  <2>. QED  BY <1>18, <2>2, <2>3, <2>4, <2>5, SendKeepsOrder DEF Recover, daemonVars
<1>. QED
  BY <1>1, <1>2, <1>3, <1>4, <1>5, <1>6, <1>7, <1>8, <1>9, <1>10, <1>11, <1>12, <1>13,
     <1>14, <1>15, <1>16, <1>17, <1>18
  DEF Next, StartStep, WatcherStep, ServiceStep, ManagerStep, RunnerStep, Terminated

-----------------------------------------------------------------------------
(* The states topic *)

\* The watcher takes one update at a time and publishes it before the next one.
LEMMA TopicStep ==
    ASSUME TypeOK, LaunchInv, HeadInv, ChainInv, TopicInv, [Next]_vars
    PROVE  TopicInv'
<1>1. CASE WatcherReceive
  <2>1. watcher = "recv" /\ watcher' = "publish" /\ published' = published /\ published = states
    BY <1>1 DEF WatcherReceive, TopicInv
  <2>2. PICK s \in Services : /\ states' = [states EXCEPT ![s] = states'[s]]
                              /\ Follows(states[s], states'[s])
    BY <1>1, ReceiveKeepsQueue
  <2>. QED  BY <2>1, <2>2 DEF TopicInv
<1>2. CASE WatcherPublish
  BY <1>2 DEF WatcherPublish, TopicInv
<1>3. CASE WatcherDone
  BY <1>3 DEF WatcherDone, TopicInv
<1>4. CASE OpenStates
  <2>1. watcher = "off" /\ watcher' = "recv" /\ UNCHANGED <<states, published>>
    BY <1>4 DEF OpenStates, LaunchInv
  <2>. QED  BY <2>1 DEF TopicInv
<1>5. CASE AddService \/ Start \/ Cancel \/ Launch \/ ServicesExited \/ RPCShutdown
           \/ RPCShutdownError \/ CloseUpdates \/ CloseIntracom
  <2>1. UNCHANGED <<states, watcher, published>>
    BY <1>5 DEF AddService, AddServiceCheck, AddServiceStore, Start, Cancel, Launch,
       ServicesExited,
                RPCShutdown, RPCShutdownError, CloseUpdates, CloseIntracom, daemonVars
  <2>. QED  BY <2>1 DEF TopicInv
<1>6. CASE (\E s \in Services : ServiceStep(s)) \/ UNCHANGED vars
  <2>1. UNCHANGED <<states, watcher, published>>
    BY <1>6 DEF ServiceStep, vars, daemonVars
  <2>. QED  BY <2>1 DEF TopicInv
<1>. QED
  BY <1>1, <1>2, <1>3, <1>4, <1>5, <1>6 DEF Next, StartStep, WatcherStep, Terminated

\* A publication shows at most one legal step of one service.
LEMMA PublishStep ==
    ASSUME TypeOK, TopicInv, [Next]_vars
    PROVE  [L!Next]_published
<1>1. CASE WatcherPublish
  <2>1. PICK s \in Services : /\ states = [published EXCEPT ![s] = states[s]]
                              /\ Follows(published[s], states[s])
    BY <1>1 DEF WatcherPublish, TopicInv
  <2>2. published' = [published EXCEPT ![s] = states[s]]
    BY <1>1, <2>1 DEF WatcherPublish
  <2>3. CASE states[s] = published[s]
    BY <2>2, <2>3 DEF TypeOK
  <2>4. CASE states[s] \in L!Successors(published[s])
    BY <2>2, <2>4 DEF L!Next, L!Move
  <2>. QED  BY <2>1, <2>3, <2>4 DEF Follows
<1>2. CASE AddService \/ Start \/ Cancel \/ StartStep
  BY <1>2 DEF AddService, AddServiceCheck, AddServiceStore, Start, Cancel, StartStep,
     OpenStates,
              Launch, ServicesExited, RPCShutdown, RPCShutdownError, CloseUpdates, CloseIntracom,
              daemonVars
<1>3. CASE WatcherReceive \/ WatcherDone
  BY <1>3 DEF WatcherReceive, WatcherDone
<1>4. CASE (\E s \in Services : ServiceStep(s)) \/ UNCHANGED vars
  BY <1>4 DEF ServiceStep, vars, daemonVars
<1>. QED
  BY <1>1, <1>2, <1>3, <1>4 DEF Next, WatcherStep, Terminated

-----------------------------------------------------------------------------
(* The inductive invariant *)

\* The daemon starts in the invariant.
LEMMA InitialState == Init => IInv
<1>. SUFFICES ASSUME Init PROVE IInv
  OBVIOUS
<1>. USE DEF Init, ManagerInit
<1>1. TypeOK
  <2>1. updates \in Seq([name : Services, update : StateUpdates]) /\ Len(updates) <= capacity
    BY EmptySeq
  <2>2. states \in [Services -> StateUpdates] /\ published \in [Services -> StateUpdates]
    BY UpdatesTyped
  <2>. QED  BY <2>1, <2>2 DEF TypeOK, ManagerTypeOK, Methods, Policies, PCs, Phases
<1>2. LaunchInv /\ ShutdownInv
  BY DEF LaunchInv, ShutdownInv
<1>3. ManagerInv /\ ExitsForAReason
  BY DEF ManagerInv, ManagerLocal, ExitsForAReason
<1>4. HeadInv /\ ChainInv
  BY DEF HeadInv, ChainInv
<1>5. SentInv
  BY DEF SentInv, LastSent, CanHaveSent
<1>6. TopicInv
  BY DEF TopicInv
<1>. QED  BY <1>1, <1>2, <1>3, <1>4, <1>5, <1>6 DEF IInv

\* Every step keeps the invariant.
LEMMA InvariantStep == IInv /\ [Next]_vars => IInv'
BY TypeStep, LaunchStep, ShutdownStep, ManagerLocalStep, ExitReasonStep, QueueStep, TopicStep
   DEF IInv

\* IInv holds in every state of the daemon.
THEOREM Invariance == Spec => []IInv
BY InitialState, InvariantStep, PTL DEF Spec

-----------------------------------------------------------------------------
(* What follows from it *)

\* Every variable keeps its type and the update channel its capacity.
THEOREM TypeCorrect == Spec => []TypeOK
<1>1. IInv => TypeOK
  BY DEF IInv
<1>. QED  BY <1>1, Invariance, PTL

\* Start never closes the update channel under a manager that still sends
\* (daemon.go:236-251).
THEOREM CloseIsSafe == Spec => []NoSendAfterClose
<1>1. IInv => NoSendAfterClose
  BY DEF IInv, ShutdownInv, NoSendAfterClose
<1>. QED  BY <1>1, Invariance, PTL

\* No service outlives Start, whichever way that returns (daemon.go:236-271).
THEOREM ServicesEnd == Spec => []ServicesExitedBeforeReturn
<1>1. IInv => ServicesExitedBeforeReturn
  BY DEF IInv, ShutdownInv, LaunchInv, ServicesExitedBeforeReturn, Final
<1>. QED  BY <1>1, Invariance, PTL

\* RunContinuousManager.Manage runs Stop last, whenever the context is done.
THEOREM CleanExit == Spec => []StopBeforeExit
<1>1. IInv => StopBeforeExit
  BY DEF IInv, ManagerInv, ManagerLocal, StopBeforeExit
<1>. QED  BY <1>1, Invariance, PTL

\* No manager runs the final Stop right after another Stop.
THEOREM SingleStop == Spec => []StopNotRepeated
<1>1. IInv => StopNotRepeated
  BY DEF IInv, ManagerInv, ManagerLocal, StopNotRepeated
<1>. QED  BY <1>1, Invariance, PTL

\* No manager gives up on its service by itself, except after Run of RunUntilSuccess.
THEOREM ExitReason == Spec => []ExitsForAReason
<1>1. IInv => ExitsForAReason
  BY DEF IInv
<1>. QED  BY <1>1, Invariance, PTL

\* After Start has returned nil the states topic shows every RunContinuous service,
\* panicked or not, as entering exit: the channel was drained before.
THEOREM FinalStates == Spec => []FinalStatePublished
<1>1. ASSUME IInv, phase = "returned", NEW s \in Launched, policy[s] = "continuous"
      PROVE  published[s] = Entering("exit")
  <2>1. s \in Services /\ pc[s] = "done"
    BY <1>1 DEF IInv, LaunchInv, ShutdownInv, Launched
  <2>2. updates = <<>> /\ published = states
    BY <1>1 DEF IInv, ShutdownInv, TopicInv
  <2>3. LastSent(s, states[s]) /\ states[s] \in StateUpdates
    BY <1>1, <2>1, <2>2 DEF IInv, TypeOK, LastSent, Silent
  <2>. QED  BY <1>1, <2>1, <2>2, <2>3 DEF IInv, SentInv, CanHaveSent
<1>2. IInv => FinalStatePublished
  BY <1>1 DEF FinalStatePublished
<1>. QED  BY <1>2, Invariance, PTL

\* What the states topic shows implements module Lifecycle: through a channel shared
\* by all services, a map and a topic, every service keeps its order of states.
THEOREM ShowsLifecycles == Spec => PublishedLifecycle
<1>1. Init => L!Init
  BY DEF Init, L!Init, InitialUpdate, L!InitialUpdate, Entering, L!Entering
<1>2. IInv /\ [Next]_vars => [L!Next]_published
  BY PublishStep DEF IInv
<1>. QED  BY <1>1, <1>2, Invariance, PTL DEF Spec, PublishedLifecycle, L!Spec
=============================================================================
