------------------------------ MODULE Supervision ------------------------------
(***************************************************************************)
(* How the parts of a tunnel start, watch and end each other.  The         *)
(* launcher (src/src/bin/mobiletunnel.rs) starts a server through ssh,     *)
(* learns its port and its pid, and then runs two tasks: a client, and a   *)
(* loop that keeps an ssh with the forwarded port and a check of the       *)
(* server running.  Client and server (src/src/lib/client.rs, server.rs)   *)
(* each join a reconnecting stream, here "link", and a multiplexer, "mux". *)
(* Of these only the life is modelled here; what they carry is the matter  *)
(* of ReconnectingStream and MuxStreams.                                   *)
(*                                                                         *)
(* The tokens need no variables: each is cancelled in one place, where a   *)
(* task has just ended, and so is a function of which have ended.          *)
(***************************************************************************)
EXTENDS Naturals, Sequences

CONSTANTS
    MaxPolls,    \* attempts to read the pid file (20)
    MaxLines,    \* bound: lines of the check that wait to be read
    MaxFaults    \* bound: things that go wrong

ASSUME PollsAssumption == MaxPolls \in Nat \ {0}
ASSUME BoundAssumption == MaxLines \in Nat \ {0} /\ MaxFaults \in Nat

Ends == {"client", "server"}

VARIABLES
    copy_self, \* the argument: the server runs a copy of the launcher
    main,      \* "start", "polling" for the pid, "running" the tasks, "exited"
    polls,     \* attempts made
    server,    \* the process: "none", "printed" its port, "up", "ended"
    pid_file,  \* it has been written
    replaced,  \* another file is where the server's was
    ssh,       \* the child: "none", "connecting", "up", "silent", "killed", "dead"
    lines,     \* what the check printed and run_ssh has not read
    eof,       \* the check has ended: standard output is closed
    ssh_task,  \* run_ssh_loop: "none", "running", "ok", "err"
    client,    \* run_client: "none", "binding", "running", "ended"
    mux,       \* "none", "select", "sending" into the link, "ok", "err"
    link,      \* "none", "running", "ended"
    faults

launcherVars == <<copy_self, main, polls>>
serverVars   == <<server, pid_file, replaced>>
sshVars      == <<ssh, lines, eof>>
glueVars     == <<client, mux, link>>
vars == <<launcherVars, serverVars, sshVars, ssh_task, glueVars, faults>>

Init ==
    /\ copy_self \in BOOLEAN
    /\ main = "start" /\ polls = 0
    /\ server = "none" /\ pid_file = FALSE /\ replaced = FALSE
    /\ ssh = "none" /\ lines = <<>> /\ eof = FALSE
    /\ ssh_task = "none"
    /\ client = "none"
    /\ mux = [e \in Ends |-> "none"] /\ link = [e \in Ends |-> "none"]
    /\ faults = 0

Fault == faults < MaxFaults /\ faults' = faults + 1

\* The token of run_ssh_loop: the task around run_client cancels it at its end;
\* mutant: it does so only if there is an error.
SshCancelledByError == client = "ended" /\ mux["client"] = "err"
SshCancelled == client = "ended"

\* The tokens of the two ends: ssh_run's task cancels the client; either half of a
\* server cancels the other.
Interrupted(e) ==
    IF e = "client" THEN ssh_task \in {"ok", "err"}
                    ELSE mux[e] \in {"ok", "err"} \/ link[e] = "ended"

-----------------------------------------------------------------------------
(* The server process.                                                     *)

\* The port is printed first; daemonize then forks and writes the pid file.
Daemonizes ==
    /\ server = "printed"
    /\ server' = "up"
    /\ pid_file' = TRUE
    /\ mux' = [mux EXCEPT !["server"] = "select"]
    /\ link' = [link EXCEPT !["server"] = "running"]
    /\ UNCHANGED <<launcherVars, replaced, sshVars, ssh_task, client, faults>>

\* future::join: both halves have ended.
ServerReturns ==
    /\ server = "up"
    /\ mux["server"] \in {"ok", "err"} /\ link["server"] = "ended"
    /\ server' = "ended"
    /\ UNCHANGED <<launcherVars, pid_file, replaced, sshVars, ssh_task, glueVars, faults>>

\* It crashes, or another server's --kill-old kills it.
ServerDies ==
    /\ Fault
    /\ server \in {"printed", "up"}
    /\ server' = "ended"
    /\ UNCHANGED <<launcherVars, pid_file, replaced, sshVars, ssh_task, glueVars>>

\* Another executable is copied to where the server's was.
Replace ==
    /\ server = "up" /\ ~replaced
    /\ replaced' = TRUE
    /\ UNCHANGED <<launcherVars, server, pid_file, sshVars, ssh_task, glueVars, faults>>

-----------------------------------------------------------------------------
(* The launcher, before and after its two tasks.                           *)

StartServer ==
    /\ main = "start"
    /\ main' = "polling"
    /\ server' = "printed"
    /\ UNCHANGED <<copy_self, polls, pid_file, replaced, sshVars, ssh_task, glueVars, faults>>

\* Copying or starting the server fails, or what it prints is no port.
StartFails ==
    /\ Fault
    /\ main = "start"
    /\ main' = "exited"
    /\ UNCHANGED <<copy_self, polls, serverVars, sshVars, ssh_task, glueVars>>

\* The attempt is the last one; mutant: off by one.
last_late(n) == n > MaxPolls
last(n) == n = MaxPolls

\* No pid yet: the last attempt ends the launcher and leaves the server behind.
PollFindsNothing ==
    /\ main = "polling" /\ ~pid_file
    /\ polls' = polls + 1
    /\ main' = IF last(polls') THEN "exited" ELSE main
    /\ UNCHANGED <<copy_self, serverVars, sshVars, ssh_task, glueVars, faults>>

\* get_available_port gives up at the first port that is taken.
NoPort ==
    /\ Fault
    /\ main = "polling" /\ pid_file
    /\ main' = "exited"
    /\ UNCHANGED <<copy_self, polls, serverVars, sshVars, ssh_task, glueVars>>

\* The tasks are spawned; to start the first ssh is what it is to restart one.
PollFindsPid ==
    /\ main = "polling" /\ pid_file
    /\ main' = "running"
    /\ ssh' = "dead"
    /\ ssh_task' = "running"
    /\ client' = "binding"
    /\ link' = [link EXCEPT !["client"] = "running"]
    /\ UNCHANGED <<copy_self, polls, serverVars, lines, eof, mux, faults>>

\* join! of the two tasks; a child that runs is killed with its parent.
MainReturns ==
    /\ main = "running"
    /\ ssh_task \in {"ok", "err"} /\ client = "ended"
    /\ main' = "exited"
    /\ ssh' = "dead"
    /\ UNCHANGED <<copy_self, polls, serverVars, lines, eof, ssh_task, glueVars, faults>>

-----------------------------------------------------------------------------
(* The ssh child and the check at its other end.                           *)

SshConnects ==
    /\ ssh = "connecting"
    /\ ssh' = "up"
    /\ UNCHANGED <<launcherVars, serverVars, lines, eof, ssh_task, glueVars, faults>>

\* run_check_server_port, once a second: is there a process of that pid, running
\* a file of that name?  The command is the launcher's own, and the server's
\* program is the launcher only if it copied itself.
CheckPrints ==
    /\ copy_self
    /\ ssh = "up" /\ ~eof
    /\ Len(lines) < MaxLines
    /\ lines' = Append(lines, IF server = "up" /\ ~replaced THEN "GOOD" ELSE "BAD")
    /\ UNCHANGED <<launcherVars, serverVars, ssh, eof, ssh_task, glueVars, faults>>

\* mobiletunnel_server takes check-server-pid for a wrong argument and exits.
CheckUnknown ==
    /\ ~copy_self
    /\ ssh = "up" /\ ~eof
    /\ eof' = TRUE
    /\ UNCHANGED <<launcherVars, serverVars, ssh, lines, ssh_task, glueVars, faults>>

CheckDies ==
    /\ Fault
    /\ copy_self
    /\ ssh = "up" /\ ~eof
    /\ eof' = TRUE
    /\ UNCHANGED <<launcherVars, serverVars, ssh, lines, ssh_task, glueVars>>

\* Nothing comes through any more, for ten seconds and more.
SshHangs ==
    /\ Fault
    /\ ssh \in {"connecting", "up"}
    /\ ssh' = "silent"
    /\ UNCHANGED <<launcherVars, serverVars, lines, eof, ssh_task, glueVars>>

SshDies ==
    /\ Fault
    /\ ssh \in {"connecting", "up", "silent"}
    /\ ssh' = "dead"
    /\ UNCHANGED <<launcherVars, serverVars, lines, eof, ssh_task, glueVars>>

\* Without a check ssh goes on while a connection is forwarded; the client may have
\* none.
SshLeaves ==
    /\ ssh = "up" /\ eof
    /\ ssh' = "dead"
    /\ UNCHANGED <<launcherVars, serverVars, lines, eof, ssh_task, glueVars, faults>>

\* Killed, or without a check and with no server to have a connection to.
SshEnds ==
    /\ \/ ssh = "killed"
       \/ ssh = "up" /\ eof /\ server = "ended"
    /\ ssh' = "dead"
    /\ UNCHANGED <<launcherVars, serverVars, lines, eof, ssh_task, glueVars, faults>>

-----------------------------------------------------------------------------
(* run_ssh_loop, with the run_ssh it waits for.                            *)

\* child.wait(): another ssh is started, and left to itself if the token is
\* cancelled by then.
SshRestarts ==
    /\ ssh_task = "running" /\ ssh = "dead"
    /\ ssh' = "connecting"
    /\ lines' = <<>> /\ eof' = FALSE
    /\ ssh_task' = IF SshCancelled THEN "ok" ELSE "running"
    /\ UNCHANGED <<launcherVars, serverVars, glueVars, faults>>

\* No ssh can be spawned, or its output cannot be read.
SshTaskFails ==
    /\ Fault
    /\ ssh_task = "running"
    /\ ssh_task' = "err"
    /\ UNCHANGED <<launcherVars, serverVars, sshVars, glueVars>>

\* Mutant: the end of the output is taken for the end of the server.
GetsLineOrEof ==
    /\ ssh_task = "running"
    /\ lines # <<>> \/ eof
    /\ lines' = IF lines = <<>> THEN lines ELSE Tail(lines)
    /\ ssh_task' = IF lines = <<>> \/ Head(lines) = "BAD" THEN "ok" ELSE "running"
    /\ UNCHANGED <<launcherVars, serverVars, ssh, eof, glueVars, faults>>

GetsLine ==
    /\ ssh_task = "running"
    /\ lines # <<>>
    /\ lines' = Tail(lines)
    /\ ssh_task' = IF Head(lines) = "BAD" THEN "ok" ELSE "running"
    /\ UNCHANGED <<launcherVars, serverVars, ssh, eof, glueVars, faults>>

\* The timer runs out only if nothing else is ready for ten seconds.  After the
\* end of the output next_line is, for ever: the loop spins, and no ssh is killed;
\* mutant: before the first line the timer does not run.
TimerRunsOutLater == ssh = "silent" /\ ~eof /\ lines # <<>>
TimerRunsOut == ssh = "silent" /\ ~eof /\ lines = <<>>

SshKills ==
    /\ ssh_task = "running"
    /\ \/ TimerRunsOut
       \/ SshCancelled /\ ssh \in {"connecting", "up", "silent"}
    /\ ssh' = "killed"
    /\ UNCHANGED <<launcherVars, serverVars, lines, eof, ssh_task, glueVars, faults>>

-----------------------------------------------------------------------------
(* The halves of an end, and run_client.                                   *)

Alive(e) == IF e = "client" THEN main = "running" ELSE server = "up"

\* The link's channel is full: the run loop waits, deaf to its token.
MuxBlocks(e) ==
    /\ Alive(e)
    /\ \/ mux[e] = "select" /\ mux' = [mux EXCEPT ![e] = "sending"]
       \/ /\ mux[e] = "sending" /\ link[e] = "running"
          /\ mux' = [mux EXCEPT ![e] = "select"]
    /\ UNCHANGED <<launcherVars, serverVars, sshVars, ssh_task, client, link, faults>>

\* The link has ended: recv() fails and so does send(); mutant: only recv() does.
FailsAtRecv == {"select"}
Fails == {"select", "sending"}

MuxEnds(e) ==
    /\ Alive(e)
    /\ \/ /\ mux[e] = "select" /\ Interrupted(e)
          /\ mux' = [mux EXCEPT ![e] = "ok"]
       \/ /\ mux[e] \in Fails /\ link[e] = "ended"
          /\ mux' = [mux EXCEPT ![e] = "err"]
    /\ UNCHANGED <<launcherVars, serverVars, sshVars, ssh_task, client, link, faults>>

\* Its token is all that ends it: the client's goes on reconnecting when nobody is
\* left to use it.
LinkEnds(e) ==
    /\ Alive(e) /\ link[e] = "running" /\ Interrupted(e)
    /\ link' = [link EXCEPT ![e] = "ended"]
    /\ UNCHANGED <<launcherVars, serverVars, sshVars, ssh_task, client, mux, faults>>

\* accept() fails, on the server's link or for the client's multiplexer.
AcceptFails(e) ==
    /\ Fault
    /\ Alive(e)
    /\ \/ e = "server" /\ link[e] = "running"
          /\ link' = [link EXCEPT ![e] = "ended"] /\ UNCHANGED mux
       \/ e = "client" /\ mux[e] = "select"
          /\ mux' = [mux EXCEPT ![e] = "err"] /\ UNCHANGED link
    /\ UNCHANGED <<launcherVars, serverVars, sshVars, ssh_task, client>>

ClientBinds ==
    /\ client = "binding"
    /\ client' = "running"
    /\ mux' = [mux EXCEPT !["client"] = "select"]
    /\ UNCHANGED <<launcherVars, serverVars, sshVars, ssh_task, link, faults>>

BindFails ==
    /\ Fault
    /\ client = "binding"
    /\ client' = "ended"
    /\ UNCHANGED <<launcherVars, serverVars, sshVars, ssh_task, mux, link>>

\* An error of the multiplexer ends run_client at once, and the link is left to
\* itself; otherwise it waits for the link.
ClientReturns ==
    /\ client = "running"
    /\ mux["client"] = "err" \/ (mux["client"] = "ok" /\ link["client"] = "ended")
    /\ client' = "ended"
    /\ UNCHANGED <<launcherVars, serverVars, sshVars, ssh_task, mux, link, faults>>

-----------------------------------------------------------------------------

Launcher  == StartServer \/ PollFindsNothing \/ PollFindsPid \/ MainReturns
Server    == Daemonizes \/ ServerReturns
Check     == CheckPrints \/ CheckUnknown
Ssh       == SshConnects \/ SshEnds
SshTask   == SshRestarts \/ GetsLine
Client    == ClientBinds \/ ClientReturns
Faults    == \/ StartFails \/ NoPort \/ ServerDies \/ CheckDies \/ SshHangs \/ SshDies
             \/ SshTaskFails \/ BindFails
             \/ \E e \in Ends : AcceptFails(e)

Next ==
    \/ Launcher \/ Server \/ Replace \/ Ssh \/ SshLeaves \/ Check \/ SshTask \/ SshKills \/ Client
    \/ \E e \in Ends : MuxBlocks(e) \/ MuxEnds(e) \/ LinkEnds(e)
    \/ Faults

Spec == Init /\ [][Next]_vars

\* The processes and tasks run, and ssh connects in the end.  The timer and the
\* token have a condition of their own: select! picks a ready branch at random, so
\* that lines which keep coming do not hold them up.
Fairness ==
    /\ WF_vars(Launcher) /\ WF_vars(Server) /\ WF_vars(Ssh) /\ WF_vars(Check)
    /\ WF_vars(SshTask) /\ WF_vars(SshKills) /\ WF_vars(Client)
    /\ \A e \in Ends : WF_vars(MuxEnds(e)) /\ WF_vars(LinkEnds(e))
FairSpec == Spec /\ Fairness

-----------------------------------------------------------------------------
(* Properties.                                                             *)

\* Type correctness.
TypeOK ==
    /\ copy_self \in BOOLEAN
    /\ main \in {"start", "polling", "running", "exited"}
    /\ polls \in 0 .. MaxPolls
    /\ server \in {"none", "printed", "up", "ended"}
    /\ pid_file \in BOOLEAN /\ replaced \in BOOLEAN /\ eof \in BOOLEAN
    /\ ssh \in {"none", "connecting", "up", "silent", "killed", "dead"}
    /\ lines \in Seq({"GOOD", "BAD"}) /\ Len(lines) <= MaxLines
    /\ ssh_task \in {"none", "running", "ok", "err"}
    /\ client \in {"none", "binding", "running", "ended"}
    /\ mux \in [Ends -> {"none", "select", "sending", "ok", "err"}]
    /\ link \in [Ends -> {"none", "running", "ended"}]
    /\ faults \in 0 .. MaxFaults

\* However ssh and the check fail, the ssh loop ends a tunnel by itself only if the
\* server has ended, or is no longer found because its file was replaced.
NoFalseTermination ==
    ssh_task = "ok" => server = "ended" \/ client = "ended" \/ replaced

\* mobiletunnel.rs:164, it looks like the server running has died, so terminating:
\* it has.
DeadIfGivenUp ==
    ssh_task = "ok" => server = "ended" \/ client = "ended"

\* No end of the tunnel goes on with one half only, which would look alive to the
\* check and serve nobody: the server's process ends with either half.
HalfServerEnds ==
    (server = "up" /\ (mux["server"] \in {"ok", "err"} \/ link["server"] = "ended"))
        ~> (server = "ended")

\* The launcher returns when either of its tasks has ended, for whatever reason and
\* in whatever state the other is.
MainEnds == (ssh_task \in {"ok", "err"} \/ client = "ended") ~> (main = "exited")

\* The loop no longer listens to its ssh: the check has ended, and ssh has not.
Deaf == eof /\ ssh = "silent"

\* A launcher that copied itself ends when its server has ended, also when ssh is
\* down or hangs.  Without a check nothing ever tells it.
DeathNoticed ==
    (copy_self /\ server = "ended" /\ main # "start") ~> (main = "exited" \/ Deaf)

\* After the last failure a launcher that still runs has a working ssh: for good if
\* it has a check, and again and again if it has none.
Reconnects ==
    /\ <>[](main = "running" => ssh = "up" \/ Deaf \/ ~copy_self)
    /\ []<>(main = "running" => ssh = "up" \/ Deaf)
=============================================================================
