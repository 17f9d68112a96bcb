------------------------------ MODULE KualControl ------------------------------
(***************************************************************************)
(* The control of the daemon from the KUAL menu (kual.sh: start, stop,     *)
(* refresh, install-confirm), together with the life of the daemon it      *)
(* starts and with the temporary firewall rules both of them write         *)
(* (internal/app/firewall.go).  A command is a shell process that probes,  *)
(* signals and waits for a daemon by way of three pid files; iptables is   *)
(* called one command at a time by the daemon and by the stop command, and *)
(* any call may fail.                                                      *)
(*                                                                         *)
(* Acquiring the singleton is one step here; DaemonLock has its steps, and *)
(* the reuse of pids.                                                      *)
(***************************************************************************)
EXTENDS Naturals

CONSTANTS
    Daemons,      \* serve processes, each started at most once
    Shells,       \* menu commands that may run at the same time
    MaxFailures,  \* bound: iptables calls that fail for no reason of their own
    None          \* no process

ASSUME ControlAssumption ==
    /\ MaxFailures \in Nat
    /\ None \notin Daemons

VARIABLES
    daemon,      \* daemon[d]: where process d is, and what it will do
    sh,          \* sh[c]: where command c is, and its shell variables
    said,        \* said[c]: the last result command c showed
    pidFile,     \* state/daemon.pid
    lock,        \* state/daemon.lock
    launchFile,  \* state/launch.pid
    jumps,       \* rules of INPUT that jump to the chain LSKUAL
    chain,       \* does the chain exist?
    rules,       \* its rules
    failures     \* iptables calls that failed so

pidFiles == <<pidFile, lock, launchFile>>
firewall == <<jumps, chain, rules>>
vars == <<daemon, sh, said, pidFiles, firewall, failures>>

\* forked: still the shell, before exec.  loading: signals have their default
\* effect up to "writePid".  stuck: killed, and not gone yet.
Cleaning == {"cleanD", "cleanF", "cleanX"}
Opening == {"openD", "openF", "openX", "openN", "openTcp", "openUdp", "openI"}
Undoing == {"undoD", "undoF", "undoX"}
Closing == {"closeD", "closeF", "closeX"}
Gone == {"unborn", "dead"}
Places == Gone \cup Opening \cup Undoing \cup Closing \cup
    {"forked", "loading", "writePid", "listen", "serving", "markStopped", "release", "stuck"}

\* term: it was asked to stop.  lease: FirewallLease.active.  fatal: it ends
\* through log.Fatal.
Process == [at : Places, term : BOOLEAN, lease : BOOLEAN, fatal : BOOLEAN]
Unborn == [at |-> "unborn", term |-> FALSE, lease |-> FALSE, fatal |-> FALSE]

Jobs == {"start", "stop", "refresh", "install"}

\* failing: stop_daemon is called by start_daemon.  last: start_daemon kills
\* what it launched itself.  clean: stop_ok.  restart: was_running.
Shell ==
    [at : Cleaning \cup
          {"idle", "check", "launch", "record", "poll", "selftest", "ready", "lastCheck", "failed",
           "find", "term", "wait", "waitKill", "remove", "cleaned",
           "refresh", "signal", "usr1", "install", "installing"},
     job : Jobs, target : Daemons \cup {None}, launched : Daemons \cup {None},
     failing : BOOLEAN, last : BOOLEAN, clean : BOOLEAN, restart : BOOLEAN]

Fresh(at, job) ==
    [at |-> at, job |-> job, target |-> None, launched |-> None,
     failing |-> FALSE, last |-> FALSE, clean |-> TRUE, restart |-> FALSE]

Results == {"nothing", "started", "startFailed", "stopped", "incomplete", "installed"}

Init ==
    /\ daemon = [d \in Daemons |-> Unborn]
    /\ sh = [c \in Shells |-> Fresh("idle", "stop")]
    /\ said = [c \in Shells |-> "nothing"]
    /\ pidFile = None /\ lock = None /\ launchFile = None
    /\ jumps = 0 /\ chain = FALSE /\ rules = {}
    /\ failures = 0

\* pid_is_daemon: alive, and exec has happened.
IsDaemon(d) == d # None /\ daemon[d].at \notin Gone \cup {"forked"}

\* daemon_pid: the first of the three files that names a daemon.
DaemonPid ==
    IF IsDaemon(pidFile) THEN pidFile
    ELSE IF IsDaemon(lock) THEN lock
    ELSE IF IsDaemon(launchFile) THEN launchFile ELSE None

Running == DaemonPid # None

Move(d, at) == daemon' = [daemon EXCEPT ![d].at = at]
Go(c, at) == sh' = [sh EXCEPT ![c].at = at]
Say(c, result) == said' = [said EXCEPT ![c] = result]

-----------------------------------------------------------------------------
(* iptables.  A call fails when the rule or chain it is about is not there, *)
(* or is in use, or for a reason of its own (the lock of xtables).          *)

Flake == failures < MaxFailures /\ failures' = failures + 1
Sound == UNCHANGED failures

\* -D INPUT -j LSKUAL
Delete == jumps > 0 /\ jumps' = jumps - 1 /\ UNCHANGED <<chain, rules>>
\* -F LSKUAL
Flush == chain /\ rules' = {} /\ UNCHANGED <<jumps, chain>>
\* -X LSKUAL
Drop == chain /\ rules = {} /\ jumps = 0 /\ chain' = FALSE /\ UNCHANGED <<jumps, rules>>
\* -N LSKUAL
Create == ~chain /\ chain' = TRUE /\ UNCHANGED <<jumps, rules>>
\* -A LSKUAL --dport
Allow(r) == chain /\ rules' = rules \cup {r} /\ UNCHANGED <<jumps, chain>>
\* -I INPUT 1 -j LSKUAL
Insert == chain /\ jumps' = jumps + 1 /\ UNCHANGED <<chain, rules>>

\* The call fails: nothing changes.
Refuses(possible) == (IF possible THEN Flake ELSE Sound) /\ UNCHANGED firewall

\* A call whose result is not looked at.
Ignored(call, possible) == (call /\ Sound) \/ Refuses(possible)

DropPossible == chain /\ rules = {} /\ jumps = 0

-----------------------------------------------------------------------------
(* The daemon.                                                              *)

Exec(d) ==
    /\ daemon[d].at = "forked"
    /\ Move(d, "loading")
    /\ UNCHANGED <<sh, said, pidFiles, firewall, failures>>

\* AcquireDaemonLock.
Acquire(d) ==
    /\ daemon[d].at = "loading"
    /\ IF IsDaemon(pidFile) \/ IsDaemon(lock)
         THEN Move(d, "dead") /\ UNCHANGED lock
         ELSE Move(d, "writePid") /\ lock' = d
    /\ UNCHANGED <<sh, said, pidFile, launchFile, firewall, failures>>

\* signal.Notify, then Server.Run begins.
WritePid(d) ==
    /\ daemon[d].at = "writePid"
    /\ pidFile' = d
    /\ Move(d, "openD")
    /\ UNCHANGED <<sh, said, lock, launchFile, firewall, failures>>

\* cleanupFirewallWith, for three callers.
Cleanup(d) ==
    \E s \in {<<"openD", "openF", "openX", "openN">>, <<"undoD", "undoF", "undoX", "listen">>,
              <<"closeD", "closeF", "closeX", "release">>} :
       /\ \/ daemon[d].at = s[1] /\ Delete /\ Sound /\ UNCHANGED daemon
          \/ daemon[d].at = s[1] /\ Refuses(jumps > 0) /\ Move(d, s[2])
          \/ daemon[d].at = s[2] /\ Ignored(Flush, chain) /\ Move(d, s[3])
          \/ daemon[d].at = s[3] /\ Ignored(Drop, DropPossible) /\ Move(d, s[4])
       /\ UNCHANGED <<sh, said, pidFiles>>

\* Mutant: a chain that is there is as good as a new one.
MutantOpenChain(d) ==
    /\ daemon[d].at = "openN"
    /\ Ignored(Create, ~chain) /\ Move(d, "openTcp")
    /\ UNCHANGED <<sh, said, pidFiles>>

\* Without a chain of its own the daemon goes on, with no lease.
OpenChain(d) ==
    /\ daemon[d].at = "openN"
    /\ \/ Create /\ Sound /\ Move(d, "openTcp")
       \/ Refuses(~chain) /\ Move(d, "listen")
    /\ UNCHANGED <<sh, said, pidFiles>>

OpenRule(d) ==
    /\ \E s \in {<<"openTcp", "tcp", "openUdp">>, <<"openUdp", "udp", "openI">>} :
          /\ daemon[d].at = s[1]
          /\ \/ Allow(s[2]) /\ Sound /\ Move(d, s[3])
             \/ Refuses(chain) /\ Move(d, "undoD")
    /\ UNCHANGED <<sh, said, pidFiles>>

OpenJump(d) ==
    /\ daemon[d].at = "openI"
    /\ \/ Insert /\ Sound /\ daemon' = [daemon EXCEPT ![d].at = "listen", ![d].lease = TRUE]
       \/ Refuses(chain) /\ Move(d, "undoD")
    /\ UNCHANGED <<sh, said, pidFiles>>

Listen(d) ==
    /\ daemon[d].at = "listen"
    /\ Move(d, "serving")
    /\ UNCHANGED <<sh, said, pidFiles, firewall, failures>>

\* A signal, or the end of the duration; or an error of the listener.
EndRun(d) ==
    /\ \/ daemon[d].at = "serving" /\ Move(d, "markStopped")
       \/ /\ daemon[d].at = "listen" \/ (daemon[d].at = "serving" /\ ~daemon[d].term)
          /\ daemon' = [daemon EXCEPT ![d].at = "markStopped", ![d].fatal = TRUE]
    /\ UNCHANGED <<sh, said, pidFiles, firewall, failures>>

\* The deferred calls of Run: MarkStopped, then the lease.
MarkStopped(d) ==
    /\ daemon[d].at = "markStopped"
    /\ pidFile' = None
    /\ Move(d, IF daemon[d].lease THEN "closeD" ELSE "release")
    /\ UNCHANGED <<sh, said, lock, launchFile, firewall, failures>>

\* log.Fatal skips the release.
Release(d) ==
    /\ daemon[d].at = "release"
    /\ lock' = IF lock = d /\ ~daemon[d].fatal THEN None ELSE lock
    /\ Move(d, "dead")
    /\ UNCHANGED <<sh, said, pidFile, launchFile, firewall, failures>>

Crash(d) ==
    /\ daemon[d].at \notin Gone
    /\ Move(d, "dead")
    /\ UNCHANGED <<sh, said, pidFiles, firewall, failures>>

-----------------------------------------------------------------------------
(* kual.sh: start_daemon.                                                   *)

Begin(c, job) ==
    /\ sh[c].at = "idle"
    /\ sh' = [sh EXCEPT ![c] = Fresh(CASE job = "start" -> "check" [] job = "stop" -> "find"
                                       [] job = "refresh" -> "refresh" [] job = "install" -> "install",
                                     job)]
    /\ Say(c, "nothing")
    /\ UNCHANGED <<daemon, pidFiles, firewall, failures>>

\* start_daemon returns to the menu, to refresh_devices or to install_confirm.
StartReturns(c, result) ==
    /\ sh' = [sh EXCEPT ![c].at =
                IF sh[c].job = "refresh" /\ result = "started" THEN "signal" ELSE "idle"]
    /\ Say(c, result)

StartCheck(c) ==
    /\ sh[c].at = "check"
    /\ IF Running THEN StartReturns(c, "started") /\ UNCHANGED launchFile
       ELSE Go(c, "launch") /\ launchFile' = None /\ UNCHANGED said
    /\ UNCHANGED <<daemon, pidFile, lock, firewall, failures>>

\* The log cannot be prepared.
LaunchFails(c) ==
    /\ sh[c].at = "launch"
    /\ StartReturns(c, "incomplete")
    /\ UNCHANGED <<daemon, pidFiles, firewall, failures>>

Launch(c, d) ==
    /\ sh[c].at = "launch" /\ daemon[d].at = "unborn"
    /\ Move(d, "forked")
    /\ sh' = [sh EXCEPT ![c].at = "record", ![c].launched = d]
    /\ UNCHANGED <<said, pidFiles, firewall, failures>>

Record(c) ==
    /\ sh[c].at = "record"
    /\ launchFile' = sh[c].launched
    /\ Go(c, "poll")
    /\ UNCHANGED <<daemon, said, pidFile, lock, firewall, failures>>

Poll(c) ==
    /\ sh[c].at = "poll"
    /\ Running /\ Go(c, "selftest")
    /\ UNCHANGED <<daemon, said, pidFiles, firewall, failures>>

\* Mutant: a process is enough.
MutantSelfTestOK == Running

\* selftest: daemon.pid names a daemon, something answers, the chain is there.
SelfTestOK == IsDaemon(pidFile) /\ chain /\ \E d \in Daemons : daemon[d].at = "serving"

\* It may also fail for want of space.
SelfTest(c) ==
    /\ sh[c].at = "selftest"
    /\ Go(c, "poll") \/ (SelfTestOK /\ Go(c, "ready"))
    /\ UNCHANGED <<daemon, said, pidFiles, firewall, failures>>

Ready(c) ==
    /\ sh[c].at = "ready"
    /\ launchFile' = None
    /\ StartReturns(c, "started")
    /\ UNCHANGED <<daemon, pidFile, lock, firewall, failures>>

\* Ten seconds: exec has happened by then.
PollTimesOut(c) ==
    /\ sh[c].at = "poll"
    /\ daemon[sh[c].launched].at # "forked"
    /\ sh' = [sh EXCEPT ![c].at = "find", ![c].failing = TRUE]
    /\ UNCHANGED <<daemon, said, pidFiles, firewall, failures>>

\* What it launched may not have been the one that stop_daemon found.
LastCheck(c) ==
    /\ sh[c].at = "lastCheck"
    /\ sh' = [sh EXCEPT ![c].last = TRUE, ![c].target = sh[c].launched,
                        ![c].at = IF IsDaemon(sh[c].launched) THEN "term" ELSE "failed"]
    /\ UNCHANGED <<daemon, said, pidFiles, firewall, failures>>

Failed(c) ==
    /\ sh[c].at = "failed"
    /\ launchFile' = None
    /\ StartReturns(c, IF sh[c].clean THEN "startFailed" ELSE "incomplete")
    /\ UNCHANGED <<daemon, pidFile, lock, firewall, failures>>

-----------------------------------------------------------------------------
(* kual.sh: stop_daemon and terminate_pid_strict.                           *)

Find(c) ==
    /\ sh[c].at = "find"
    /\ sh' = [sh EXCEPT ![c].target = DaemonPid, ![c].at = IF Running THEN "term" ELSE "remove"]
    /\ UNCHANGED <<daemon, said, pidFiles, firewall, failures>>

\* Before signal.Notify a signal kills; a killed process ignores it.
Signalled(d, term) ==
    IF daemon[d].at \in {"loading", "writePid"} THEN [daemon EXCEPT ![d].at = "dead"]
    ELSE IF term /\ daemon[d].at # "stuck" THEN [daemon EXCEPT ![d].term = TRUE]
    ELSE daemon

AfterKill(c) == IF sh[c].last THEN "cleanD" ELSE "remove"

Term(c) ==
    /\ sh[c].at = "term"
    /\ IF IsDaemon(sh[c].target)
         THEN daemon' = Signalled(sh[c].target, TRUE) /\ Go(c, "wait")
         ELSE Go(c, AfterKill(c)) /\ UNCHANGED daemon
    /\ UNCHANGED <<said, pidFiles, firewall, failures>>

\* Mutant: the command does not wait.
MutantWait(c) ==
    /\ sh[c].at = "wait"
    /\ Go(c, AfterKill(c))
    /\ UNCHANGED <<daemon, said, pidFiles, firewall, failures>>

\* Five seconds, then SIGKILL.
Wait(c) ==
    /\ sh[c].at = "wait"
    /\ IF IsDaemon(sh[c].target)
         THEN Move(sh[c].target, "stuck") /\ Go(c, "waitKill")
         ELSE Go(c, AfterKill(c)) /\ UNCHANGED daemon
    /\ UNCHANGED <<said, pidFiles, firewall, failures>>

\* Mutant: the command waits for as long as it takes.
MutantWaitKill(c) ==
    /\ sh[c].at = "waitKill"
    /\ ~IsDaemon(sh[c].target) /\ Go(c, AfterKill(c))
    /\ UNCHANGED <<daemon, said, pidFiles, firewall, failures>>

\* Mutant: the files go although the process is still there.
MutantGiveUp(c) ==
    /\ sh[c].at = "waitKill"
    /\ Go(c, AfterKill(c))
    /\ UNCHANGED <<daemon, said, pidFiles, firewall, failures>>

\* Two seconds more; then the files stay, and the rules go.
WaitKill(c) ==
    /\ sh[c].at = "waitKill"
    /\ IF IsDaemon(sh[c].target)
         THEN sh' = [sh EXCEPT ![c].at = "cleanD", ![c].clean = FALSE]
         ELSE Go(c, AfterKill(c))
    /\ UNCHANGED <<daemon, said, pidFiles, firewall, failures>>

Remove(c) ==
    /\ sh[c].at = "remove"
    /\ pidFile' = None /\ lock' = None /\ launchFile' = None
    /\ Go(c, "cleanD")
    /\ UNCHANGED <<daemon, said, firewall, failures>>

\* firewall-cleanup fails only if it finds no iptables or configuration.
CleanFails(c) ==
    /\ sh[c].at = "cleanD"
    /\ sh' = [sh EXCEPT ![c].at = "cleaned", ![c].clean = FALSE]
    /\ UNCHANGED <<daemon, said, pidFiles, firewall, failures>>

\* Mutant: the first rule that goes is taken for the last.
MutantClean(c) ==
    /\ sh[c].at = "cleanD" /\ Ignored(Delete, jumps > 0) /\ Go(c, "cleaned")
    /\ UNCHANGED <<daemon, said, pidFiles>>

\* cleanupFirewallWith reports nothing.
Clean(c) ==
    /\ \/ sh[c].at = "cleanD" /\ Delete /\ Sound /\ UNCHANGED sh
       \/ sh[c].at = "cleanD" /\ Refuses(jumps > 0) /\ Go(c, "cleanF")
       \/ sh[c].at = "cleanF" /\ Ignored(Flush, chain) /\ Go(c, "cleanX")
       \/ sh[c].at = "cleanX" /\ Ignored(Drop, DropPossible) /\ Go(c, "cleaned")
    /\ UNCHANGED <<daemon, said, pidFiles>>

\* stop_daemon returns to start_daemon, install_confirm or the menu.
Cleaned(c) ==
    /\ sh[c].at = "cleaned"
    /\ \/ sh[c].last /\ Go(c, "failed") /\ UNCHANGED said
       \/ sh[c].failing /\ ~sh[c].last /\ Go(c, "lastCheck") /\ UNCHANGED said
       \/ /\ ~sh[c].failing /\ sh[c].job = "install" /\ sh[c].clean
          /\ Go(c, "installing") /\ UNCHANGED said
       \/ /\ ~sh[c].failing /\ (sh[c].job # "install" \/ ~sh[c].clean)
          /\ Go(c, "idle") /\ Say(c, IF sh[c].clean THEN "stopped" ELSE "incomplete")
    /\ UNCHANGED <<daemon, pidFiles, firewall, failures>>

-----------------------------------------------------------------------------
(* kual.sh: refresh_devices and install_confirm.                            *)

Refresh(c) ==
    /\ sh[c].at = "refresh"
    /\ Go(c, IF Running THEN "signal" ELSE "check")
    /\ UNCHANGED <<daemon, said, pidFiles, firewall, failures>>

RefreshFind(c) ==
    /\ sh[c].at = "signal"
    /\ sh' = [sh EXCEPT ![c].target = DaemonPid, ![c].at = IF Running THEN "usr1" ELSE "idle"]
    /\ UNCHANGED <<daemon, said, pidFiles, firewall, failures>>

RefreshSignal(c) ==
    /\ sh[c].at = "usr1"
    /\ daemon' = Signalled(sh[c].target, FALSE)
    /\ Go(c, "idle")
    /\ UNCHANGED <<said, pidFiles, firewall, failures>>

\* Mutant: the installation does not wait for the daemon.
MutantInstall(c) ==
    /\ sh[c].at = "install"
    /\ sh' = [sh EXCEPT ![c].restart = Running, ![c].at = "installing"]
    /\ UNCHANGED <<daemon, said, pidFiles, firewall, failures>>

Install(c) ==
    /\ sh[c].at = "install"
    /\ sh' = [sh EXCEPT ![c].restart = Running, ![c].at = IF Running THEN "find" ELSE "installing"]
    /\ UNCHANGED <<daemon, said, pidFiles, firewall, failures>>

\* A failed installation does not restart the daemon.
InstallEnds(c, ok) ==
    /\ sh[c].at = "installing"
    /\ Go(c, IF ok /\ sh[c].restart THEN "check" ELSE "idle")
    /\ Say(c, IF ok THEN "installed" ELSE "nothing")
    /\ UNCHANGED <<daemon, pidFiles, firewall, failures>>

DaemonStep(d) ==
    \/ Exec(d) \/ Acquire(d) \/ WritePid(d) \/ Cleanup(d)
    \/ OpenChain(d) \/ OpenRule(d) \/ OpenJump(d)
    \/ Listen(d) \/ EndRun(d) \/ MarkStopped(d) \/ Release(d)

ShellStep(c) ==
    \/ StartCheck(c) \/ LaunchFails(c) \/ (\E d \in Daemons : Launch(c, d)) \/ Record(c)
    \/ Poll(c) \/ SelfTest(c) \/ Ready(c) \/ PollTimesOut(c) \/ LastCheck(c) \/ Failed(c)
    \/ Find(c) \/ Term(c) \/ Wait(c) \/ WaitKill(c) \/ Remove(c)
    \/ CleanFails(c) \/ Clean(c) \/ Cleaned(c)
    \/ Refresh(c) \/ RefreshFind(c) \/ RefreshSignal(c)
    \/ Install(c) \/ InstallEnds(c, TRUE) \/ InstallEnds(c, FALSE)

Next ==
    \/ \E d \in Daemons : DaemonStep(d) \/ Crash(d)
    \/ \E c \in Shells : ShellStep(c) \/ \E job \in Jobs : Begin(c, job)

Spec == Init /\ [][Next]_vars

\* A shell runs, its loops end by their counters, and a forked child comes to
\* exec.  The daemon may hang anywhere.
FairSpec ==
    /\ Spec
    /\ \A c \in Shells : WF_vars(ShellStep(c)) /\ SF_vars(PollTimesOut(c))
    /\ \A d \in Daemons : WF_vars(Exec(d))

-----------------------------------------------------------------------------
(* Properties.                                                              *)

TypeOK ==
    /\ daemon \in [Daemons -> Process]
    /\ sh \in [Shells -> Shell]
    /\ said \in [Shells -> Results]
    /\ {pidFile, lock, launchFile} \subseteq Daemons \cup {None}
    /\ jumps \in Nat /\ chain \in BOOLEAN /\ rules \subseteq {"tcp", "udp"}
    /\ failures \in 0 .. MaxFailures

\* However often the daemon is killed and iptables fails, rules do not pile
\* up, and none jumps to a chain that is gone.
RulesBounded == jumps <= 1 /\ (jumps = 1 => chain)

Open == jumps = 1 /\ rules = {"tcp", "udp"}
Shut == jumps = 0 /\ ~chain

\* A daemon that serves with its lease can be reached: no cleanup, of an
\* earlier daemon or of a command, takes its rules away.
LeaseHolds ==
    \A d \in Daemons : daemon[d].at \in {"listen", "serving"} /\ daemon[d].lease => Open

\* While no command runs, a daemon that holds the singleton is found by the
\* next one, whatever the commands before it met.
NoOrphan ==
    (\A c \in Shells : sh[c].at = "idle") =>
        \A d \in Daemons : daemon[d].at \notin Gone \cup {"forked", "loading", "release"} =>
            DaemonPid = d

\* A command that says so has stopped the daemon, and if iptables did what it
\* was told, shut the port.
StopTruthful ==
    \A c \in Shells : sh[c].at = "idle" /\ said[c] \in {"stopped", "startFailed"} =>
        /\ \A d \in Daemons : daemon[d].at \in Gone
        /\ pidFile = None /\ lock = None /\ launchFile = None
        /\ failures = 0 => Shut

\* Files are replaced only while no daemon is up.
InstallAlone ==
    \A c \in Shells : sh[c].at = "installing" => \A d \in Daemons : daemon[d].at \in Gone

\* The signal that asks for an announcement never ends a daemon.
RefreshHarmless ==
    \A c \in Shells : sh[c].at = "usr1" => daemon[sh[c].target].at \notin {"loading", "writePid"}

\* Every command comes to an end, whatever state the daemon hangs in.
CommandsEnd == \A c \in Shells : sh[c].at # "idle" ~> sh[c].at = "idle"

\* README: a cleanup that fails is shown, not reported as a success.
StopConfirmed ==
    \A c \in Shells : sh[c].at = "idle" /\ said[c] = "stopped" => Shut
=============================================================================
