----------------------------- MODULE ServiceProofs -----------------------------
(***************************************************************************)
(* Proofs about Service, for any number of service processes and of programs. *)
(* As long as the service is not started over its old process, one instance  *)
(* is at work, and what the SCM believes is what that instance has told it.  *)
(***************************************************************************)
EXTENDS Service, FiniteSetTheorems, TLAPS

\* Only the instance that the SCM started last is at work, and its state is the
\* one the SCM knows; the service is pending until ServiceMain reports more, or a
\* stop comes first.
OneInstance ==
  ~overlap =>
    /\ \A i \in Instances : mon[i] # "exited" => i = current
    /\ state[current] = scm
    /\ scm = "START_PENDING" => mon[current] = "main"
    /\ mon[current] = "main" => scm # "RUNNING"
    /\ mon[current] = "exited" => scm = "STOPPED"
    /\ \A i \in Instances : handler[i] # "idle" => i = current /\ mon[i] # "exited"

\* A monitor that is about to start the program has seen none.
StartsAlone ==
  ~blind /\ ~overlap =>
    /\ \A i \in Instances : mon[i] = "start" => own = {}
    /\ \A p, q \in own : p = q

\* The service's program runs only while the service does, and no longer once the
\* handler is about to report the stop; a stopped one's monitor starts none.
EndsWithService ==
  ~blind /\ ~crowded /\ ~late /\ ~overlap =>
    /\ own # {} => scm = "RUNNING" /\ handler[current] # "report"
    /\ scm = "STOPPED" => mon[current] \notin {"check", "start"}

IInv == TypeOK /\ OneInstance /\ StartsAlone /\ EndsWithService

-------------------------------------------------------------------------------

\* Every variable keeps its type, and the monitor has a process's handle exactly
\* while it waits for that process.
LEMMA TypeStep == TypeOK /\ [Next]_vars => TypeOK'
<1> SUFFICES ASSUME TypeOK, [Next]_vars PROVE TypeOK'
  OBVIOUS
<1> USE ServiceAssumption DEF TypeOK, history
<1>1. ASSUME NEW i \in Instances, StartService(i) PROVE TypeOK'
  BY <1>1 DEF StartService
<1>2. ASSUME NEW i \in Instances,
             ServiceRuns(i) \/ NoArguments(i) \/ Head(i) \/ Check(i) \/ CheckBlind(i)
      PROVE TypeOK'
  BY <1>2 DEF ServiceRuns, NoArguments, Head, Check, CheckBlind
<1>3. ASSUME NEW i \in Instances, NEW p \in Pids, StartProcess(i, p) PROVE TypeOK'
  BY <1>3 DEF StartProcess
<1>4. ASSUME NEW i \in Instances, StartFails(i) \/ ChildEnded(i) \/ Awake(i)
      PROVE TypeOK'
  BY <1>4 DEF StartFails, ChildEnded, Awake
<1>5. ASSUME NEW i \in Instances, StopRequested(i) \/ TerminateNone(i) PROVE TypeOK'
  BY <1>5 DEF StopRequested, TerminateNone
<1>6. ASSUME NEW i \in Instances, NEW p \in Pids, TerminateFirst(i, p) PROVE TypeOK'
  BY <1>6 DEF TerminateFirst
<1>7. ASSUME NEW i \in Instances, ReportStopped(i) \/ ProcessExits(i) PROVE TypeOK'
  BY <1>7 DEF ReportStopped, ProcessExits
<1>8. ASSUME NEW p \in Pids, ProgramEnds(p) \/ StartedByHand(p) PROVE TypeOK'
  BY <1>8 DEF ProgramEnds, StartedByHand
<1>9. CASE UNCHANGED vars
  BY <1>9 DEF vars
<1> HIDE DEF TypeOK
<1> QED
  BY <1>1, <1>2, <1>3, <1>4, <1>5, <1>6, <1>7, <1>8, <1>9
  DEF Next, Monitor, ControlHandler

\* A start over an old process is noted, and otherwise the old one is gone.
LEMMA OneInstanceStep == TypeOK /\ OneInstance /\ [Next]_vars => OneInstance'
<1> SUFFICES ASSUME TypeOK, OneInstance, [Next]_vars PROVE OneInstance'
  OBVIOUS
<1> USE DEF TypeOK, OneInstance, history
<1>1. ASSUME NEW i \in Instances, StartService(i) PROVE OneInstance'
  <2>1. ~overlap' => ~overlap /\ \A j \in Instances : mon[j] = "exited"
    BY <1>1 DEF StartService
  <2> QED
    BY <1>1, <2>1 DEF StartService
<1>2. ASSUME NEW i \in Instances,
             ServiceRuns(i) \/ NoArguments(i) \/ Head(i) \/ Check(i) \/ CheckBlind(i)
      PROVE OneInstance'
  BY <1>2 DEF ServiceRuns, NoArguments, Head, Check, CheckBlind
<1>3. ASSUME NEW i \in Instances, NEW p \in Pids, StartProcess(i, p) PROVE OneInstance'
  BY <1>3 DEF StartProcess
<1>4. ASSUME NEW i \in Instances, StartFails(i) \/ ChildEnded(i) \/ Awake(i)
      PROVE OneInstance'
  BY <1>4 DEF StartFails, ChildEnded, Awake
<1>5. ASSUME NEW i \in Instances, StopRequested(i) \/ TerminateNone(i)
      PROVE OneInstance'
  BY <1>5 DEF StopRequested, TerminateNone
<1>6. ASSUME NEW i \in Instances, NEW p \in Pids, TerminateFirst(i, p)
      PROVE OneInstance'
  BY <1>6 DEF TerminateFirst
<1>7. ASSUME NEW i \in Instances, ReportStopped(i) \/ ProcessExits(i)
      PROVE OneInstance'
  BY <1>7 DEF ReportStopped, ProcessExits
<1>8. ASSUME NEW p \in Pids, ProgramEnds(p) \/ StartedByHand(p) PROVE OneInstance'
  BY <1>8 DEF ProgramEnds, StartedByHand
<1>9. CASE UNCHANGED vars
  BY <1>9 DEF vars
<1> HIDE DEF TypeOK, OneInstance
<1> QED
  BY <1>1, <1>2, <1>3, <1>4, <1>5, <1>6, <1>7, <1>8, <1>9
  DEF Next, Monitor, ControlHandler

\* Between the look and the start only the one monitor could start another.
LEMMA StartsAloneStep == IInv /\ [Next]_vars => StartsAlone'
<1> SUFFICES ASSUME IInv, [Next]_vars PROVE StartsAlone'
  OBVIOUS
<1> USE DEF IInv, TypeOK, OneInstance, StartsAlone, history
<1>1. ASSUME NEW i \in Instances, StartService(i) PROVE StartsAlone'
  <2>1. ~overlap' => ~overlap
    BY <1>1 DEF StartService
  <2> QED
    BY <1>1, <2>1 DEF StartService
<1>2. ASSUME NEW i \in Instances,
             ServiceRuns(i) \/ NoArguments(i) \/ Head(i) \/ Check(i) \/ CheckBlind(i)
      PROVE StartsAlone'
  BY <1>2 DEF ServiceRuns, NoArguments, Head, Check, CheckBlind
<1>3. ASSUME NEW i \in Instances, NEW p \in Pids, StartProcess(i, p) PROVE StartsAlone'
  BY <1>3 DEF StartProcess
<1>4. ASSUME NEW i \in Instances, StartFails(i) \/ ChildEnded(i) \/ Awake(i)
      PROVE StartsAlone'
  BY <1>4 DEF StartFails, ChildEnded, Awake
<1>5. ASSUME NEW i \in Instances, StopRequested(i) \/ TerminateNone(i)
      PROVE StartsAlone'
  BY <1>5 DEF StopRequested, TerminateNone
<1>6. ASSUME NEW i \in Instances, NEW p \in Pids, TerminateFirst(i, p)
      PROVE StartsAlone'
  BY <1>6 DEF TerminateFirst
<1>7. ASSUME NEW i \in Instances, ReportStopped(i) \/ ProcessExits(i)
      PROVE StartsAlone'
  BY <1>7 DEF ReportStopped, ProcessExits
<1>8. ASSUME NEW p \in Pids, ProgramEnds(p) \/ StartedByHand(p) PROVE StartsAlone'
  BY <1>8 DEF ProgramEnds, StartedByHand
<1>9. CASE UNCHANGED vars
  BY <1>9 DEF vars
<1> HIDE DEF IInv, TypeOK, OneInstance, StartsAlone
<1> QED
  BY <1>1, <1>2, <1>3, <1>4, <1>5, <1>6, <1>7, <1>8, <1>9
  DEF Next, Monitor, ControlHandler

\* The handler reports the stop after it has terminated the program, and a monitor
\* that could still start one then is noted.
LEMMA EndsStep == IInv /\ [Next]_vars => EndsWithService'
<1> SUFFICES ASSUME IInv, [Next]_vars PROVE EndsWithService'
  OBVIOUS
<1> USE DEF IInv, TypeOK, OneInstance, EndsWithService, history
<1>1. ASSUME NEW i \in Instances, StartService(i) PROVE EndsWithService'
  <2>1. ~overlap' => ~overlap /\ \A j \in Instances : mon[j] = "exited"
    BY <1>1 DEF StartService
  <2> QED
    BY <1>1, <2>1 DEF StartService
<1>2. ASSUME NEW i \in Instances,
             ServiceRuns(i) \/ NoArguments(i) \/ Head(i) \/ Check(i) \/ CheckBlind(i)
      PROVE EndsWithService'
  BY <1>2 DEF ServiceRuns, NoArguments, Head, Check, CheckBlind
<1>3. ASSUME NEW i \in Instances, NEW p \in Pids, StartProcess(i, p)
      PROVE EndsWithService'
  <2>1. ~late' => ~late /\ handler[i] # "report"
    BY <1>3 DEF StartProcess
  <2> QED
    BY <1>3, <2>1 DEF StartProcess
<1>4. ASSUME NEW i \in Instances, StartFails(i) \/ ChildEnded(i) \/ Awake(i)
      PROVE EndsWithService'
  BY <1>4 DEF StartFails, ChildEnded, Awake
<1>5. ASSUME NEW i \in Instances, StopRequested(i) \/ TerminateNone(i)
      PROVE EndsWithService'
  BY <1>5 DEF StopRequested, TerminateNone
<1>6. ASSUME NEW i \in Instances, NEW p \in Pids, TerminateFirst(i, p)
      PROVE EndsWithService'
  <2>1. ~crowded' => ~crowded /\ own' = {}
    BY <1>6 DEF TerminateFirst
  <2> QED
    BY <1>6, <2>1 DEF TerminateFirst
<1>7. ASSUME NEW i \in Instances, ReportStopped(i) PROVE EndsWithService'
  <2>1. ~late' => ~late /\ mon[i] \notin {"check", "start"}
    BY <1>7 DEF ReportStopped
  <2> QED
    BY <1>7, <2>1 DEF ReportStopped
<1>8. ASSUME NEW i \in Instances, ProcessExits(i) PROVE EndsWithService'
  BY <1>8 DEF ProcessExits
<1>9. ASSUME NEW p \in Pids, ProgramEnds(p) \/ StartedByHand(p) PROVE EndsWithService'
  BY <1>9 DEF ProgramEnds, StartedByHand
<1>10. CASE UNCHANGED vars
  BY <1>10 DEF vars
<1> HIDE DEF IInv, TypeOK, OneInstance, EndsWithService
<1> QED
  BY <1>1, <1>2, <1>3, <1>4, <1>5, <1>6, <1>7, <1>8, <1>9, <1>10
  DEF Next, Monitor, ControlHandler

\* The inductive invariant of the service holds throughout.
THEOREM ServiceInvariance == Spec => []IInv
<1>1. Init => IInv
  BY ServiceAssumption DEF Init, IInv, TypeOK, OneInstance, StartsAlone, EndsWithService
<1>2. IInv /\ [Next]_vars => IInv'
  BY TypeStep, OneInstanceStep, StartsAloneStep, EndsStep DEF IInv
<1> QED
  BY <1>1, <1>2, PTL DEF Spec

\* The service's variables have their types in every reachable state.
THEOREM ServiceTypeCorrect == Spec => []TypeOK
<1>1. IInv => TypeOK
  BY DEF IInv
<1> QED
  BY <1>1, ServiceInvariance, PTL

\* A stopped service has left no program behind, unless one of the four mishaps
\* the history tells of has happened.
THEOREM StopIsComplete == Spec => []StoppedLeavesNone
<1>1. IInv => StoppedLeavesNone
  BY DEF IInv, EndsWithService, StoppedLeavesNone
<1> QED
  BY <1>1, ServiceInvariance, PTL

\* The service has one program of its own running at most, also over a stop and a
\* start, if it could read the process list and was not started twice.
THEOREM OneProgramAtMost == Spec => []OneProgram
<1>1. IInv => OneProgram
  <2> SUFFICES ASSUME IInv, ~blind, ~overlap PROVE Cardinality(own) <= 1
    BY DEF OneProgram
  <2>1. CASE own = {}
    BY <2>1, FS_EmptySet
  <2>2. CASE own # {}
    <3>1. PICK p \in own : own = {p}
      BY <2>2 DEF IInv, StartsAlone
    <3> QED
      BY <3>1, FS_Singleton
  <2> QED
    BY <2>1, <2>2
<1> QED
  BY <1>1, ServiceInvariance, PTL

===============================================================================
