------------------------------ MODULE Service ------------------------------
(***************************************************************************)
(* service.cpp: the Windows service that keeps main_service.exe running on   *)
(* the streamed machine.  Its ServiceMain thread runs RunServiceLogic, which *)
(* looks for the program by name, starts it, blocks until it ends and looks  *)
(* again; its control handler, on the dispatcher's thread, terminates the    *)
(* first program of that name and reports SERVICE_STOPPED.  The two share    *)
(* only ServiceStatus.dwCurrentState.  The service control manager (SCM) may *)
(* start the service again while the stopped service's process still exits.  *)
(***************************************************************************)
EXTENDS Integers, FiniteSets

CONSTANTS
  Instances,  \* service processes that can exist at the same time
  Pids,       \* processes named main_service.exe that can exist at once
  NoPid       \* no process

ASSUME ServiceAssumption == NoPid \notin Pids

VARIABLES
  scm,       \* the last status the SCM was told
  current,   \* the instance the SCM sends controls to
  state,     \* ServiceStatus.dwCurrentState of each instance
  mon,       \* where the instance's ServiceMain thread stands
  handler,   \* where the instance's control handler stands
  child,     \* the process the monitor waits for, through its handle
  alive,     \* the processes named main_service.exe
  own,       \* those of them that the service has started
  blind,     \* history: a snapshot failed, or a process could not be opened
  crowded,   \* history: the handler found several processes of the name
  late,      \* history: a start overtook a stop
  overlap    \* history: the service was started while its old process lived

history == <<blind, crowded, late, overlap>>
vars == <<scm, current, state, mon, handler, child, alive, own, history>>

Init ==
  /\ scm = "STOPPED" /\ current \in Instances
  /\ state = [i \in Instances |-> "STOPPED"]
  /\ mon = [i \in Instances |-> "exited"]
  /\ handler = [i \in Instances |-> "idle"]
  /\ child = [i \in Instances |-> NoPid]
  /\ alive = {} /\ own = {}
  /\ blind = FALSE /\ crowded = FALSE /\ late = FALSE /\ overlap = FALSE

\* A process id is free again when no handle to its last process is left.
Free(p) == p \notin alive /\ \A i \in Instances : child[i] # p

-----------------------------------------------------------------------------
(* Variants of actions below, each with one mistake, for mutation testing.   *)

\* while (true)
HeadAlways(i) ==
  /\ mon[i] = "head"
  /\ mon' = [mon EXCEPT ![i] = "check"]
  /\ UNCHANGED <<scm, current, state, handler, child, alive, own, history>>

\* The process is started without a look whether one runs.
CheckNothing(i) ==
  /\ mon[i] = "check"
  /\ mon' = [mon EXCEPT ![i] = "start"]
  /\ UNCHANGED <<scm, current, state, handler, child, alive, own, history>>

\* A failed start leaves the loop.
StartFailsForGood(i) ==
  /\ mon[i] = "start"
  /\ mon' = [mon EXCEPT ![i] = "returned"]
  /\ UNCHANGED <<scm, current, state, handler, child, alive, own, history>>

-----------------------------------------------------------------------------
(* ServiceMain and RunServiceLogic.                                          *)

\* The SCM starts a stopped service: ServiceMain reports START_PENDING.
StartService(i) ==
  /\ scm = "STOPPED" /\ mon[i] = "exited"
  /\ scm' = "START_PENDING" /\ current' = i
  /\ state' = [state EXCEPT ![i] = "START_PENDING"]
  /\ mon' = [mon EXCEPT ![i] = "main"]
  /\ overlap' = (overlap \/ \E j \in Instances : mon[j] # "exited")
  /\ UNCHANGED <<handler, child, alive, own, blind, crowded, late>>

\* Arguments were found: SERVICE_RUNNING.
ServiceRuns(i) ==
  /\ mon[i] = "main"
  /\ state' = [state EXCEPT ![i] = "RUNNING"] /\ scm' = "RUNNING"
  /\ mon' = [mon EXCEPT ![i] = "head"]
  /\ UNCHANGED <<current, handler, child, alive, own, history>>

\* No arguments: SERVICE_STOPPED, and ServiceMain returns.
NoArguments(i) ==
  /\ mon[i] = "main"
  /\ state' = [state EXCEPT ![i] = "STOPPED"] /\ scm' = "STOPPED"
  /\ mon' = [mon EXCEPT ![i] = "returned"]
  /\ UNCHANGED <<current, handler, child, alive, own, history>>

\* while (dwCurrentState == SERVICE_RUNNING)
Head(i) ==
  /\ mon[i] = "head"
  /\ mon' = [mon EXCEPT ![i] = IF state[i] = "RUNNING" THEN "check"
                                                       ELSE "returned"]
  /\ UNCHANGED <<scm, current, state, handler, child, alive, own, history>>

\* IsProcessRunning, by name
Check(i) ==
  /\ mon[i] = "check"
  /\ mon' = [mon EXCEPT ![i] = IF alive = {} THEN "start" ELSE "sleep"]
  /\ UNCHANGED <<scm, current, state, handler, child, alive, own, history>>

\* The snapshot fails: IsProcessRunning returns false.
CheckBlind(i) ==
  /\ mon[i] = "check"
  /\ mon' = [mon EXCEPT ![i] = "start"]
  /\ blind' = TRUE
  /\ UNCHANGED <<scm, current, state, handler, child, alive, own, crowded,
                 late, overlap>>

\* CreateProcessAsUser, then WaitForSingleObject on the new process
StartProcess(i, p) ==
  /\ mon[i] = "start" /\ Free(p)
  /\ alive' = alive \cup {p} /\ own' = own \cup {p}
  /\ child' = [child EXCEPT ![i] = p]
  /\ mon' = [mon EXCEPT ![i] = "wait"]
  /\ late' = (late \/ handler[i] = "report")
  /\ UNCHANGED <<scm, current, state, handler, blind, crowded, overlap>>

\* No token, or CreateProcessAsUser fails: try again after the sleep.
StartFails(i) ==
  /\ mon[i] = "start"
  /\ mon' = [mon EXCEPT ![i] = "sleep"]
  /\ UNCHANGED <<scm, current, state, handler, child, alive, own, history>>

ChildEnded(i) ==
  /\ mon[i] = "wait" /\ child[i] \notin alive
  /\ child' = [child EXCEPT ![i] = NoPid]
  /\ mon' = [mon EXCEPT ![i] = "sleep"]
  /\ UNCHANGED <<scm, current, state, handler, alive, own, history>>

\* Sleep(2000)
Awake(i) ==
  /\ mon[i] = "sleep"
  /\ mon' = [mon EXCEPT ![i] = "head"]
  /\ UNCHANGED <<scm, current, state, handler, child, alive, own, history>>

Monitor(i) ==
  \/ ServiceRuns(i) \/ NoArguments(i)
  \/ Head(i) \/ Check(i) \/ CheckBlind(i)
  \/ (\E p \in Pids : StartProcess(i, p))
  \/ StartFails(i) \/ ChildEnded(i) \/ Awake(i)

-----------------------------------------------------------------------------
(* ControlHandler.                                                           *)

\* The SCM sends STOP or SHUTDOWN, which the service accepts from its start on.
\* ServiceMain may still report RUNNING, or no arguments, after the stop.
StopRequested(i) ==
  /\ scm \in {"START_PENDING", "RUNNING"} /\ current = i /\ handler[i] = "idle"
  /\ handler' = [handler EXCEPT ![i] = "kill"]
  /\ UNCHANGED <<scm, current, state, mon, child, alive, own, history>>

\* TerminateProcess on the first process of that name, if there is one
TerminateFirst(i, p) ==
  /\ handler[i] = "kill"
  /\ alive # {} => p \in alive
  /\ alive' = alive \ {p} /\ own' = own \ {p}
  /\ handler' = [handler EXCEPT ![i] = "report"]
  /\ crowded' = (crowded \/ alive' # {})
  /\ UNCHANGED <<scm, current, state, mon, child, blind, late, overlap>>

\* The snapshot, or OpenProcess, fails: nothing is terminated.
TerminateNone(i) ==
  /\ handler[i] = "kill"
  /\ handler' = [handler EXCEPT ![i] = "report"]
  /\ blind' = TRUE
  /\ UNCHANGED <<scm, current, state, mon, child, alive, own, crowded, late,
                 overlap>>

\* SERVICE_STOPPED.  A monitor past its loop condition does not see it.
ReportStopped(i) ==
  /\ handler[i] = "report"
  /\ handler' = [handler EXCEPT ![i] = "idle"]
  /\ state' = [state EXCEPT ![i] = "STOPPED"] /\ scm' = "STOPPED"
  /\ late' = (late \/ mon[i] \in {"check", "start"})
  /\ UNCHANGED <<current, mon, child, alive, own, blind, crowded, overlap>>

ControlHandler(i) ==
  \/ (\E p \in Pids : TerminateFirst(i, p))
  \/ TerminateNone(i) \/ ReportStopped(i)

-----------------------------------------------------------------------------
(* The processes.                                                            *)

\* StartServiceCtrlDispatcher returns once the service is stopped, and wmain
\* with it: the process goes, whatever its monitor is doing.
ProcessExits(i) ==
  /\ state[i] = "STOPPED" /\ mon[i] # "exited" /\ handler[i] = "idle"
  /\ mon' = [mon EXCEPT ![i] = "exited"]
  /\ child' = [child EXCEPT ![i] = NoPid]
  /\ UNCHANGED <<scm, current, state, handler, alive, own, history>>

\* main_service.exe ends by itself: quit, connection lost, or an exception.
ProgramEnds(p) ==
  /\ p \in alive
  /\ alive' = alive \ {p} /\ own' = own \ {p}
  /\ UNCHANGED <<scm, current, state, mon, handler, child, history>>

\* Somebody runs it by hand (README: "use an external tool").
StartedByHand(p) ==
  /\ Free(p)
  /\ alive' = alive \cup {p}
  /\ UNCHANGED <<scm, current, state, mon, handler, child, own, history>>

Next ==
  \/ \E i \in Instances :
       StartService(i) \/ Monitor(i) \/ StopRequested(i) \/ ControlHandler(i)
         \/ ProcessExits(i)
  \/ \E p \in Pids : ProgramEnds(p) \/ StartedByHand(p)

Spec == Init /\ [][Next]_vars

\* Each thread runs, and starting the program does not fail every time.
FairSpec ==
  /\ Spec
  /\ \A i \in Instances :
       /\ WF_vars(Monitor(i))
       /\ SF_vars(\E p \in Pids : StartProcess(i, p))
       /\ WF_vars(ControlHandler(i))

-----------------------------------------------------------------------------
TypeOK ==
  /\ scm \in {"START_PENDING", "RUNNING", "STOPPED"} /\ current \in Instances
  /\ state \in [Instances -> {"START_PENDING", "RUNNING", "STOPPED"}]
  /\ mon \in [Instances -> {"main", "head", "check", "start", "wait", "sleep",
                            "returned", "exited"}]
  /\ handler \in [Instances -> {"idle", "kill", "report"}]
  /\ child \in [Instances -> Pids \cup {NoPid}]
  /\ alive \subseteq Pids /\ own \subseteq alive
  /\ {blind, crowded, late, overlap} \subseteq BOOLEAN
  /\ \A i \in Instances : child[i] # NoPid <=> mon[i] = "wait"

\* Stopping the service leaves none of the processes it started behind, unless
\* the process list could not be read, several processes had that name, a start
\* overtook the stop, or the service was restarted over its old process.
StoppedLeavesNone ==
  scm = "STOPPED" /\ ~blind /\ ~crowded /\ ~late /\ ~overlap => own = {}

\* The service never has two programs of its own running (they would fight
\* over the display, the ports and the input), also when an earlier one
\* survived a stop.
OneProgram == ~blind /\ ~overlap => Cardinality(own) <= 1

\* A program that ends while the service runs is started again.
ProgramRestarted ==
  (scm = "RUNNING" /\ alive = {}) ~> (scm # "RUNNING" \/ alive # {})
=============================================================================
