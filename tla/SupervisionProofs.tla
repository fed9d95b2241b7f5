--------------------------- MODULE SupervisionProofs ---------------------------
(***************************************************************************)
(* What the launcher does about a server that lives: nothing.  For every   *)
(* number of faults, attempts and waiting lines.                           *)
(***************************************************************************)
EXTENDS Supervision, TLAPS

\* The launcher has an ssh only after it found the pid of a server that had come
\* up; before, there is no task, and an attempt is left.
Phases ==
    /\ main = "start" => server = "none" /\ ~pid_file
    /\ main \in {"start", "polling"} => ssh = "none" /\ ssh_task = "none" /\ polls < MaxPolls
    /\ main = "running" \/ ssh # "none" => pid_file
    /\ pid_file => server \in {"up", "ended"}

\* A line that says BAD has its reason, and keeps it.
LinesTrue == \A k \in 1 .. Len(lines) : lines[k] = "BAD" => server = "ended" \/ replaced

IInv == TypeOK /\ Phases /\ LinesTrue /\ NoFalseTermination

-----------------------------------------------------------------------------

\* What is known of no lines.
LEMMA NoLines ==
    /\ <<>> \in Seq({"GOOD", "BAD"}) /\ Len(<<>>) <= MaxLines
    /\ \A k \in 1 .. Len(<<>>) : FALSE
  <1>1. Len(<<>>) = 0 /\ 0 <= MaxLines
    BY BoundAssumption
  <1>2. <<>> \in Seq({"GOOD", "BAD"})
    OBVIOUS
  <1> QED
    BY <1>1, <1>2

\* IInv holds at the start.
LEMMA InitIInv == Init => IInv
  <1> SUFFICES ASSUME Init PROVE IInv
    OBVIOUS
  <1>1. TypeOK
    <2>1. lines \in Seq({"GOOD", "BAD"}) /\ Len(lines) <= MaxLines
      BY NoLines DEF Init
    <2>2. polls \in 0 .. MaxPolls /\ faults \in 0 .. MaxFaults
      BY PollsAssumption, BoundAssumption DEF Init
    <2> QED
      BY <2>1, <2>2 DEF Init, TypeOK
  <1>2. Phases
    BY PollsAssumption DEF Init, Phases
  <1>3. LinesTrue
    BY NoLines DEF Init, LinesTrue
  <1>4. NoFalseTermination
    BY DEF Init, NoFalseTermination
  <1> QED
    BY <1>1, <1>2, <1>3, <1>4 DEF IInv

\* The counter of faults stays within its bound.
LEMMA FaultInRange == TypeOK /\ Fault => faults' \in 0 .. MaxFaults
  BY BoundAssumption DEF TypeOK, Fault

\* The server keeps it.
LEMMA ServerStep == IInv /\ (Server \/ ServerDies \/ Replace) => IInv'
  <1> SUFFICES ASSUME IInv, Server \/ ServerDies \/ Replace PROVE IInv'
    OBVIOUS
  <1> USE DEF IInv, TypeOK, Phases, LinesTrue, NoFalseTermination, Ends,
              launcherVars, serverVars, sshVars, glueVars
  <1>1. CASE Daemonizes
    BY <1>1 DEF Daemonizes
  <1>2. CASE ServerReturns
    BY <1>2 DEF ServerReturns
  <1>3. CASE ServerDies
    BY <1>3, FaultInRange DEF ServerDies
  <1>4. CASE Replace
    BY <1>4 DEF Replace
  <1> QED
    BY <1>1, <1>2, <1>3, <1>4 DEF Server

\* The launcher keeps it.
LEMMA LauncherStep == IInv /\ (Launcher \/ StartFails \/ NoPort) => IInv'
  <1> SUFFICES ASSUME IInv, Launcher \/ StartFails \/ NoPort PROVE IInv'
    OBVIOUS
  <1> USE DEF IInv, TypeOK, Phases, LinesTrue, NoFalseTermination, Ends,
              launcherVars, serverVars, sshVars, glueVars
  <1>1. CASE StartServer
    BY <1>1 DEF StartServer
  <1>2. CASE PollFindsNothing
    <2>1. polls' \in 0 .. MaxPolls /\ (polls' # MaxPolls => polls' < MaxPolls)
      BY <1>2, PollsAssumption DEF PollFindsNothing
    <2> QED
      BY <1>2, <2>1 DEF PollFindsNothing, last
  <1>3. CASE PollFindsPid
    BY <1>3 DEF PollFindsPid
  <1>4. CASE MainReturns
    BY <1>4 DEF MainReturns
  <1>5. CASE StartFails
    BY <1>5, FaultInRange DEF StartFails
  <1>6. CASE NoPort
    BY <1>6, FaultInRange DEF NoPort
  <1> QED
    BY <1>1, <1>2, <1>3, <1>4, <1>5, <1>6 DEF Launcher

LEMMA SshStep ==
    IInv /\ (Ssh \/ SshLeaves \/ Check \/ CheckDies \/ SshHangs \/ SshDies) => IInv'
  <1> SUFFICES ASSUME IInv,
                      Ssh \/ SshLeaves \/ Check \/ CheckDies \/ SshHangs \/ SshDies
               PROVE  IInv'
    OBVIOUS
  <1> USE DEF IInv, TypeOK, Phases, LinesTrue, NoFalseTermination, Ends,
              launcherVars, serverVars, sshVars, glueVars
  <1>1. CASE SshConnects
    BY <1>1 DEF SshConnects
  <1>2. CASE SshEnds
    BY <1>2 DEF SshEnds
  <1>3. CASE CheckPrints
    <2> DEFINE line == IF server = "up" /\ ~replaced THEN "GOOD" ELSE "BAD"
    <2>1. line = "BAD" => server = "ended" \/ replaced
      BY <1>3 DEF CheckPrints
    <2>2. lines' = Append(lines, line) /\ lines' \in Seq({"GOOD", "BAD"})
      BY <1>3 DEF CheckPrints
    <2>3. Len(lines') = Len(lines) + 1 /\ Len(lines') <= MaxLines
      BY <1>3, <2>2, BoundAssumption DEF CheckPrints
    <2>4. LinesTrue'
      BY <1>3, <2>1, <2>2, <2>3 DEF CheckPrints
    <2> QED
      BY <1>3, <2>2, <2>3, <2>4 DEF CheckPrints
  <1>4. CASE CheckDies
    BY <1>4, FaultInRange DEF CheckDies
  <1>5. CASE SshHangs
    BY <1>5, FaultInRange DEF SshHangs
  <1>6. CASE SshDies
    BY <1>6, FaultInRange DEF SshDies
  <1>7. CASE CheckUnknown
    BY <1>7 DEF CheckUnknown
  <1>8. CASE SshLeaves
    BY <1>8 DEF SshLeaves
  <1> QED
    BY <1>1, <1>2, <1>3, <1>4, <1>5, <1>6, <1>7, <1>8 DEF Ssh, Check

\* run_ssh keeps it.
LEMMA SshTaskStep == IInv /\ (SshTask \/ SshKills \/ SshTaskFails) => IInv'
  <1> SUFFICES ASSUME IInv, SshTask \/ SshKills \/ SshTaskFails PROVE IInv'
    OBVIOUS
  <1> USE DEF IInv, TypeOK, Phases, LinesTrue, NoFalseTermination, Ends,
              launcherVars, serverVars, sshVars, glueVars
  <1>1. CASE SshRestarts
    <2>1. TypeOK'
      BY <1>1, NoLines DEF SshRestarts
    <2>2. LinesTrue'
      BY <1>1, NoLines DEF SshRestarts
    <2>3. Phases' /\ NoFalseTermination'
      BY <1>1 DEF SshRestarts, SshCancelled
    <2> QED
      BY <2>1, <2>2, <2>3
  <1>2. CASE GetsLine
    <2>1. lines' \in Seq({"GOOD", "BAD"}) /\ Len(lines') = Len(lines) - 1
      BY <1>2 DEF GetsLine
    <2>2. \A k \in 1 .. Len(lines') : lines'[k] = lines[k + 1]
      BY <1>2 DEF GetsLine
    <2>3. Len(lines') <= MaxLines
      BY <2>1, BoundAssumption
    <2>4. LinesTrue'
      BY <1>2, <2>1, <2>2 DEF GetsLine
    <2>5. Head(lines) = lines[1] /\ 1 \in 1 .. Len(lines)
      BY <1>2 DEF GetsLine
    <2>6. NoFalseTermination'
      BY <1>2, <2>5 DEF GetsLine
    <2> QED
      BY <1>2, <2>1, <2>3, <2>4, <2>6 DEF GetsLine
  <1>3. CASE SshKills
    BY <1>3 DEF SshKills, TimerRunsOut
  <1>4. CASE SshTaskFails
    BY <1>4, FaultInRange DEF SshTaskFails
  <1> QED
    BY <1>1, <1>2, <1>3, <1>4 DEF SshTask

\* Both halves of either end keep it.
LEMMA GlueStep ==
    ASSUME IInv,
           \/ Client \/ BindFails
           \/ \E e \in Ends : MuxBlocks(e) \/ MuxEnds(e) \/ LinkEnds(e) \/ AcceptFails(e)
    PROVE  IInv'
  <1> USE DEF IInv, TypeOK, Phases, LinesTrue, NoFalseTermination,
              launcherVars, serverVars, sshVars, glueVars
  <1>1. CASE ClientBinds
    BY <1>1 DEF ClientBinds, Ends
  <1>2. CASE ClientReturns
    BY <1>2 DEF ClientReturns
  <1>3. CASE BindFails
    BY <1>3, FaultInRange DEF BindFails
  <1>4. ASSUME NEW e \in Ends, MuxBlocks(e) PROVE IInv'
    BY <1>4 DEF MuxBlocks
  <1>5. ASSUME NEW e \in Ends, MuxEnds(e) PROVE IInv'
    BY <1>5 DEF MuxEnds
  <1>6. ASSUME NEW e \in Ends, LinkEnds(e) PROVE IInv'
    BY <1>6 DEF LinkEnds
  <1>7. ASSUME NEW e \in Ends, AcceptFails(e) PROVE IInv'
    BY <1>7, FaultInRange DEF AcceptFails
  <1> QED
    BY <1>1, <1>2, <1>3, <1>4, <1>5, <1>6, <1>7 DEF Client

LEMMA Stutter == IInv /\ UNCHANGED vars => IInv'
  BY DEF vars, launcherVars, serverVars, sshVars, glueVars, IInv, TypeOK, Phases,
         LinesTrue, NoFalseTermination

\* The invariant is inductive.
THEOREM Inductive == Spec => []IInv
  <1>1. IInv /\ [Next]_vars => IInv'
    BY ServerStep, LauncherStep, SshStep, SshTaskStep, GlueStep, Stutter
    DEF Next, Faults
  <1> QED
    BY <1>1, InitIInv, PTL DEF Spec

\* Every variable of the supervision keeps its type: run_ssh never has more lines
\* waiting than the bound, and the launcher polls MaxPolls times at most.
THEOREM TypeCorrect == Spec => []TypeOK
  BY Inductive, PTL DEF IInv

\* However often ssh, the check, a listener or a server fails, the launcher ends a
\* tunnel by itself only if the server has ended or its file was replaced: its loop
\* never takes an ssh's end, its silence or the end of its output for the server's.
THEOREM LivingServersAreKept == Spec => []NoFalseTermination
  BY Inductive, PTL DEF IInv
=============================================================================
