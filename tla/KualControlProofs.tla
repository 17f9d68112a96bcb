--------------------------- MODULE KualControlProofs ---------------------------
(***************************************************************************)
(* Proofs about KualControl: its type invariant for any number of commands *)
(* at a time, and its safety properties for one command at a time, any     *)
(* number of processes and any number of iptables calls that fail.         *)
(*                                                                         *)
(* Every property follows from one inductive invariant, ControlInv, which  *)
(* says at each step of a command where the processes can be.              *)
(***************************************************************************)
EXTENDS KualControl, TLAPS

DaemonsTyped == daemon \in [Daemons -> Process]

LEMMA MoveTyped ==
  ASSUME DaemonsTyped, NEW d \in Daemons, NEW at \in Places
  PROVE  [daemon EXCEPT ![d].at = at] \in [Daemons -> Process]
<1>1. [daemon[d] EXCEPT !.at = at] \in Process
  BY DEF DaemonsTyped, Process
<1> QED BY <1>1 DEF DaemonsTyped

LEMMA SignalledTyped ==
  ASSUME DaemonsTyped, NEW d \in Daemons \cup {None}, NEW term \in BOOLEAN
  PROVE  Signalled(d, term) \in [Daemons -> Process]
<1>1. CASE d \in Daemons
  <2>1. [daemon EXCEPT ![d].at = "dead"] \in [Daemons -> Process]
    BY <1>1, MoveTyped DEF Places, Gone
  <2>2. [daemon[d] EXCEPT !.term = TRUE] \in Process
    BY <1>1 DEF DaemonsTyped, Process
  <2>3. [daemon EXCEPT ![d].term = TRUE] \in [Daemons -> Process]
    BY <2>2, <1>1 DEF DaemonsTyped
  <2> QED BY <2>1, <2>3 DEF Signalled, DaemonsTyped
<1>2. CASE d = None
  <2>1. /\ [daemon EXCEPT ![d].at = "dead"] = daemon
        /\ [daemon EXCEPT ![d].term = TRUE] = daemon
    BY <1>2, ControlAssumption DEF DaemonsTyped
  <2> QED BY <2>1 DEF Signalled, DaemonsTyped
<1> QED BY <1>1, <1>2

\* What a call of iptables may do to the rules.
CallTyped == jumps' \in Nat /\ chain' \in BOOLEAN /\ rules' \subseteq {"tcp", "udp"}

LEMMA CallsTyped ==
  ASSUME TypeOK, UNCHANGED firewall \/ Delete \/ Flush \/ Drop \/ Create \/ Insert
                 \/ Allow("tcp") \/ Allow("udp")
  PROVE  CallTyped
<1> USE DEF TypeOK, CallTyped
<1>1. CASE UNCHANGED firewall
  BY <1>1 DEF firewall
<1>2. CASE Delete
  BY <1>2 DEF Delete
<1>3. CASE Flush \/ Drop \/ Create
  BY <1>3 DEF Flush, Drop, Create
<1>4. CASE Insert
  BY <1>4 DEF Insert
<1>5. CASE Allow("tcp") \/ Allow("udp")
  BY <1>5 DEF Allow
<1> QED BY <1>1, <1>2, <1>3, <1>4, <1>5

LEMMA FlakesTyped ==
  ASSUME TypeOK, Flake \/ Sound
  PROVE  failures' \in 0 .. MaxFailures
  BY ControlAssumption DEF TypeOK, Flake, Sound

LEMMA FoundIsDaemon ==
  ASSUME TypeOK
  PROVE  /\ DaemonPid \in Daemons \cup {None}
         /\ Running => DaemonPid \in Daemons /\ IsDaemon(DaemonPid)
  BY ControlAssumption DEF TypeOK, DaemonPid, Running, IsDaemon


LEMMA InitTyped == Init => TypeOK
<1> SUFFICES ASSUME Init PROVE TypeOK
  OBVIOUS
<1> USE DEF Init
<1>1. Unborn \in Process
  BY DEF Unborn, Process, Places, Gone
<1>2. Fresh("idle", "stop") \in Shell
  BY DEF Fresh, Shell, Jobs
<1>3. daemon \in [Daemons -> Process]
  BY <1>1
<1>4. sh \in [Shells -> Shell] /\ said \in [Shells -> Results]
  BY <1>2 DEF Results
<1>5. 0 \in 0 .. MaxFailures
  BY ControlAssumption
<1>6. {pidFile, lock, launchFile} \subseteq Daemons \cup {None}
  OBVIOUS
<1>7. jumps \in Nat /\ chain \in BOOLEAN /\ rules \subseteq {"tcp", "udp"} /\ failures = 0
  OBVIOUS
<1> QED BY <1>3, <1>4, <1>5, <1>6, <1>7 DEF TypeOK

LEMMA DaemonTyped ==
  ASSUME TypeOK, NEW d \in Daemons, DaemonStep(d) \/ Crash(d)
  PROVE  TypeOK'
<1> USE DEF TypeOK, pidFiles, Move
<1> DEFINE Rest == UNCHANGED <<sh, said, pidFiles>>
           Fire == CallTyped /\ failures' \in 0 .. MaxFailures
<1>0. DaemonsTyped
  BY DEF DaemonsTyped
<1>1. CASE Exec(d)
  BY <1>0, <1>1, MoveTyped DEF Exec, Places, firewall
<1>2. CASE Acquire(d)
  BY <1>0, <1>2, MoveTyped DEF Acquire, Places, Gone, firewall
<1>3. CASE WritePid(d)
  BY <1>0, <1>3, MoveTyped DEF WritePid, Places, Opening, firewall
<1>4. CASE Cleanup(d)
  <2>1. Rest
    BY <1>4 DEF Cleanup
  <2>2. Delete \/ Flush \/ Drop \/ UNCHANGED firewall
    BY <1>4 DEF Cleanup, Ignored, Refuses
  <2>3. Flake \/ Sound
    BY <1>4 DEF Cleanup, Ignored, Refuses
  <2>4. \E at \in Places : daemon' = daemon \/ Move(d, at)
    BY <1>4 DEF Cleanup, Places, Opening, Undoing, Closing
  <2>5. daemon' \in [Daemons -> Process]
    BY <2>4, <1>0, MoveTyped
  <2> QED BY <2>1, <2>2, <2>3, <2>5, CallsTyped, FlakesTyped DEF CallTyped
<1>5. CASE OpenChain(d)
  <2>1. (Create \/ UNCHANGED firewall) /\ (Flake \/ Sound) /\ Rest
    BY <1>5 DEF OpenChain, Refuses
  <2>2. daemon' \in [Daemons -> Process]
    BY <1>5, <1>0, MoveTyped DEF OpenChain, Places, Opening
  <2> QED BY <2>1, <2>2, CallsTyped, FlakesTyped DEF CallTyped
<1>6. CASE OpenRule(d)
  <2>1. (Allow("tcp") \/ Allow("udp") \/ UNCHANGED firewall) /\ (Flake \/ Sound) /\ Rest
    BY <1>6 DEF OpenRule, Refuses
  <2>2. daemon' \in [Daemons -> Process]
    BY <1>6, <1>0, MoveTyped DEF OpenRule, Places, Opening, Undoing
  <2> QED BY <2>1, <2>2, CallsTyped, FlakesTyped DEF CallTyped
<1>7. CASE OpenJump(d)
  <2>1. (Insert \/ UNCHANGED firewall) /\ (Flake \/ Sound) /\ Rest
    BY <1>7 DEF OpenJump, Refuses
  <2>2. [daemon[d] EXCEPT !.at = "listen", !.lease = TRUE] \in Process
    BY DEF Process, Places
  <2>3. daemon' \in [Daemons -> Process]
    BY <1>7, <1>0, <2>2, MoveTyped DEF OpenJump, Places, Undoing
  <2> QED BY <2>1, <2>3, CallsTyped, FlakesTyped DEF CallTyped
<1>8. CASE Listen(d)
  BY <1>0, <1>8, MoveTyped DEF Listen, Places, firewall
<1>9. CASE EndRun(d)
  <2>1. [daemon[d] EXCEPT !.at = "markStopped", !.fatal = TRUE] \in Process
    BY DEF Process, Places
  <2> QED BY <1>0, <1>9, <2>1, MoveTyped DEF EndRun, Places, firewall
<1>10. CASE MarkStopped(d)
  BY <1>0, <1>10, MoveTyped DEF MarkStopped, Places, Closing, firewall
<1>11. CASE Release(d)
  BY <1>0, <1>11, MoveTyped DEF Release, Places, Gone, firewall
<1>12. CASE Crash(d)
  BY <1>0, <1>12, MoveTyped DEF Crash, Places, Gone, firewall
<1> QED BY <1>1, <1>2, <1>3, <1>4, <1>5, <1>6, <1>7, <1>8, <1>9, <1>10, <1>11, <1>12
    DEF DaemonStep

LEMMA ShellTyped ==
  ASSUME TypeOK, NEW c \in Shells, ShellStep(c)
  PROVE  TypeOK'
<1> USE DEF TypeOK, pidFiles, Go, Say, Results, StartReturns
<1> DEFINE Rest == UNCHANGED <<daemon, pidFiles, firewall, failures>>
           Ends == sh' \in [Shells -> Shell] /\ said' \in [Shells -> Results]
<1>0. sh[c] \in Shell /\ DaemonsTyped
  BY DEF DaemonsTyped
<1>t. sh[c].target \in Daemons \cup {None}
  BY DEF Shell
<1>a. \A at \in {"idle", "launch", "signal"} : [sh[c] EXCEPT !.at = at] \in Shell
  BY <1>0 DEF Shell
<1>1. CASE StartCheck(c)
  <2>1. CASE Running
    BY <1>1, <2>1, <1>a DEF StartCheck, firewall
  <2>2. CASE ~Running
    BY <1>1, <2>2, <1>a DEF StartCheck, firewall
  <2> QED BY <2>1, <2>2
<1>2. CASE LaunchFails(c)
  BY <1>2 DEF LaunchFails, Shell, firewall
<1>3. ASSUME NEW d \in Daemons, Launch(c, d) PROVE TypeOK'
  <2>1. daemon' \in [Daemons -> Process]
    BY <1>3, <1>0, MoveTyped DEF Launch, Move, Places
  <2>2. [sh[c] EXCEPT !.at = "record", !.launched = d] \in Shell
    BY <1>0 DEF Shell
  <2> QED BY <1>3, <2>1, <2>2 DEF Launch, firewall
<1>4. CASE Record(c)
  BY <1>4 DEF Record, Shell, firewall
<1>5. CASE Poll(c)
  BY <1>5 DEF Poll, Shell, firewall
<1>6. CASE SelfTest(c)
  BY <1>6 DEF SelfTest, Shell, firewall
<1>7. CASE Ready(c)
  BY <1>7 DEF Ready, Shell, firewall
<1>8. CASE PollTimesOut(c)
  <2>1. [sh[c] EXCEPT !.at = "find", !.failing = TRUE] \in Shell
    BY <1>0 DEF Shell
  <2> QED BY <1>8, <2>1 DEF PollTimesOut, firewall
<1>9. CASE LastCheck(c)
  BY <1>9 DEF LastCheck, Shell, firewall
<1>10. CASE Failed(c)
  BY <1>10, <1>a DEF Failed, firewall
<1>11. CASE Find(c)
  BY <1>11, FoundIsDaemon DEF Find, Shell, firewall
<1>12. CASE Term(c)
  <2>1. daemon' \in [Daemons -> Process]
    <3>1. daemon' = Signalled(sh[c].target, TRUE) \/ UNCHANGED daemon
      BY <1>12 DEF Term
    <3>2. Signalled(sh[c].target, TRUE) \in [Daemons -> Process]
      BY <1>0, <1>t, SignalledTyped
    <3> QED BY <3>1, <3>2
  <2>2. Go(c, "wait") \/ Go(c, "cleanD") \/ Go(c, "remove")
    BY <1>12 DEF Term, AfterKill
  <2>3. Ends
    BY <1>12, <2>2 DEF Term, Shell, Cleaning
  <2> QED BY <1>12, <2>1, <2>3 DEF Term, firewall
<1>13. CASE Wait(c)
  <2>1. daemon' \in [Daemons -> Process]
    <3>1. CASE UNCHANGED daemon
      BY <3>1
    <3>2. CASE sh[c].target \in Daemons /\ Move(sh[c].target, "stuck")
      BY <3>2, <1>0, MoveTyped DEF Move, Places
    <3> QED BY <3>1, <3>2, <1>13, <1>t DEF Wait, IsDaemon
  <2>2. Ends
    BY <1>13 DEF Wait, AfterKill, Shell, Cleaning
  <2> QED BY <1>13, <2>1, <2>2 DEF Wait, firewall
<1>14. CASE WaitKill(c)
  BY <1>14 DEF WaitKill, AfterKill, Shell, Cleaning, firewall
<1>15. CASE Remove(c)
  BY <1>15 DEF Remove, Shell, Cleaning, firewall
<1>16. CASE CleanFails(c)
  <2>1. [sh[c] EXCEPT !.at = "cleaned", !.clean = FALSE] \in Shell
    BY <1>0 DEF Shell
  <2> QED BY <1>16, <2>1 DEF CleanFails, firewall
<1>17. CASE Clean(c)
  <2>1. UNCHANGED <<daemon, said, pidFiles>>
    BY <1>17 DEF Clean
  <2>2. Delete \/ Flush \/ Drop \/ UNCHANGED firewall
    BY <1>17 DEF Clean, Ignored, Refuses
  <2>3. Flake \/ Sound
    BY <1>17 DEF Clean, Ignored, Refuses
  <2>4. UNCHANGED sh \/ Go(c, "cleanF") \/ Go(c, "cleanX") \/ Go(c, "cleaned")
    BY <1>17 DEF Clean
  <2>5. sh' \in [Shells -> Shell]
    BY <2>4 DEF Shell, Cleaning
  <2> QED BY <2>1, <2>2, <2>3, <2>5, CallsTyped, FlakesTyped DEF CallTyped
<1>18. CASE Cleaned(c)
  BY <1>18 DEF Cleaned, Shell, firewall
<1>19. CASE Refresh(c)
  BY <1>19 DEF Refresh, Shell, firewall
<1>20. CASE RefreshFind(c)
  BY <1>20, FoundIsDaemon DEF RefreshFind, Shell, firewall
<1>21. CASE RefreshSignal(c)
  <2>1. daemon' \in [Daemons -> Process]
    <3>1. Signalled(sh[c].target, FALSE) \in [Daemons -> Process]
      BY <1>0, <1>t, SignalledTyped
    <3> QED BY <3>1, <1>21 DEF RefreshSignal
  <2>2. sh' \in [Shells -> Shell]
    BY <1>21 DEF RefreshSignal, Shell
  <2>3. UNCHANGED <<said, pidFiles, firewall, failures>>
    BY <1>21 DEF RefreshSignal
  <2> QED BY <2>1, <2>2, <2>3 DEF firewall
<1>22. CASE Install(c)
  BY <1>22 DEF Install, Running, Shell, firewall
<1>23. ASSUME NEW ok \in BOOLEAN, InstallEnds(c, ok) PROVE TypeOK'
  BY <1>23 DEF InstallEnds, Shell, firewall
<1> QED BY <1>1, <1>2, <1>3, <1>4, <1>5, <1>6, <1>7, <1>8, <1>9, <1>10, <1>11, <1>12,
      <1>13, <1>14, <1>15, <1>16, <1>17, <1>18, <1>19, <1>20, <1>21, <1>22, <1>23
    DEF ShellStep

LEMMA BeginTyped ==
  ASSUME TypeOK, NEW c \in Shells, NEW job \in Jobs, Begin(c, job)
  PROVE  TypeOK'
<1>1. PICK at \in {"check", "find", "refresh", "install"} : sh' = [sh EXCEPT ![c] = Fresh(at, job)]
  BY DEF Begin, Jobs
<1>2. Fresh(at, job) \in Shell
  BY <1>1 DEF Fresh, Shell
<1> QED BY <1>1, <1>2 DEF Begin, TypeOK, Say, Results, pidFiles, firewall

\* The variables keep their types, with any number of commands at a time.
THEOREM TypeCorrect == Spec => []TypeOK
<1>1. TypeOK /\ [Next]_vars => TypeOK'
  <2> SUFFICES ASSUME TypeOK, [Next]_vars PROVE TypeOK'
    OBVIOUS
  <2>1. CASE UNCHANGED vars
    BY <2>1 DEF vars, pidFiles, firewall, TypeOK
  <2> QED BY <2>1, DaemonTyped, ShellTyped, BeginTyped DEF Next
<1> QED BY InitTyped, <1>1, PTL DEF Spec

-----------------------------------------------------------------------------
(* The invariant.                                                           *)

\* KUAL runs one menu command at a time.
OneCommand == \A b, c \in Shells : b = c

Alive(d) == daemon[d].at \notin Gone
Holding == Places \ (Gone \cup {"forked", "loading"})
Settled == Gone \cup Closing \cup {"serving", "markStopped", "release", "stuck"}
Ended == Gone \cup {"stuck"}
AllIn(S) == \A d \in Daemons : daemon[d].at \in S
Only(e) == \A d \in Daemons : Alive(d) => d = e

\* One process at a time has been launched and is not gone.
OneDaemon == \A d, e \in Daemons : Alive(d) /\ Alive(e) => d = e
\* From WritePid on a process has daemon.lock.
HolderLocks == \A d \in Daemons : daemon[d].at \in Holding => lock = d

\* Where a command is when it waits for nobody, may not find anybody, and has
\* stopped everybody.
Calm == {"idle", "check", "refresh", "signal", "usr1", "install", "ready"}
Clear == {"launch", "remove", "installing"}
AfterStop == Cleaning \cup {"cleaned", "lastCheck", "failed"}
Stopping == {"find", "term", "wait"}

\* What command c may rely on at each of its steps: a process it does not wait
\* for is settled, one it has waited for is gone or stuck, and any other is the
\* one it launched.
Sees(c) ==
    /\ sh[c].at \in Calm => AllIn(Settled)
    /\ sh[c].at \in Stopping /\ ~sh[c].failing => AllIn(Settled)
    /\ sh[c].at \in Clear => AllIn(Gone)
    /\ sh[c].at \in AfterStop \cup {"waitKill"} => AllIn(Ended)
    /\ sh[c].at \in {"term", "wait"} /\ sh[c].last => AllIn(Ended)
    /\ sh[c].at \in {"record", "poll", "selftest", "lastCheck"}
         \/ (sh[c].failing /\ sh[c].at \notin Calm \cup Clear) => Only(sh[c].launched)
    /\ sh[c].at \in {"term", "wait", "waitKill"} => Only(sh[c].target)
    /\ sh[c].at = "usr1" => sh[c].target \in Daemons

\* A process on its way to the singleton was launched by a command that is
\* still there, and can be found in launch.pid.
Starts(c) ==
    /\ \A d \in Daemons : daemon[d].at = "forked" => sh[c].at \in {"record", "poll"}
    /\ \A d \in Daemons : daemon[d].at = "loading" =>
          sh[c].at \in {"record", "poll", "selftest", "find", "term"}
    /\ sh[c].at \in {"poll", "selftest"}
         \/ (sh[c].failing /\ ~sh[c].last /\ sh[c].at \in {"find", "term"}) =>
            launchFile = sh[c].launched

\* last and failing are set on the way out of start_daemon only.
Flags(c) ==
    /\ sh[c].last => sh[c].at \in Cleaning \cup {"term", "wait", "waitKill", "cleaned", "failed", "idle"}
    /\ sh[c].failing => sh[c].at \in AfterStop \cup Stopping \cup {"waitKill", "remove", "idle"}
    /\ sh[c].last \/ sh[c].at = "lastCheck" => sh[c].failing

NoFiles == pidFile = None /\ lock = None /\ launchFile = None

\* stop_ok.
Stops(c) ==
    /\ sh[c].at \in AfterStop /\ sh[c].clean => AllIn(Gone) /\ NoFiles
    /\ sh[c].last /\ sh[c].at \in {"term", "wait", "waitKill"} => ~sh[c].clean
    /\ sh[c].at # "idle" => said[c] \notin {"stopped", "startFailed"}

\* What has been cleaned up so far, if iptables does what it is told.
Shuts(c) ==
    sh[c].clean /\ failures = 0 =>
       /\ sh[c].at = "cleanF" => jumps = 0
       /\ sh[c].at = "cleanX" => jumps = 0 /\ rules = {}
       /\ sh[c].at \in {"cleaned", "lastCheck", "failed"} => Shut

\* StopTruthful of one command.
Truthful(c) ==
    sh[c].at = "idle" /\ said[c] \in {"stopped", "startFailed"} =>
        AllIn(Gone) /\ NoFiles /\ (failures = 0 => Shut)

\* RulesBounded, and a chain that is not there has no rules.
Ruled == RulesBounded /\ (~chain => rules = {})

\* What process d finds in the firewall while it opens the port, and keeps
\* while it holds the lease.
InOrder(d) ==
    /\ daemon[d].at \in {"openTcp", "openUdp", "openI"} => chain /\ jumps = 0
    /\ daemon[d].at = "openTcp" => rules = {}
    /\ daemon[d].at = "openUdp" => rules = {"tcp"}
    /\ daemon[d].at = "openI" => rules = {"tcp", "udp"}
    /\ daemon[d].at \in {"unborn", "forked", "loading", "writePid"} \cup Opening \cup Undoing =>
          ~daemon[d].lease
    /\ daemon[d].at \in {"listen", "serving"} /\ daemon[d].lease => Open

\* The inductive invariant.
ControlInv ==
    /\ TypeOK /\ OneDaemon /\ HolderLocks
    /\ \A c \in Shells : Sees(c) /\ Starts(c) /\ Flags(c) /\ Stops(c) /\ Shuts(c) /\ Truthful(c)
    /\ Ruled /\ \A d \in Daemons : InOrder(d)

-----------------------------------------------------------------------------
(* What a process does.                                                     *)

LEMMA Moved ==
  ASSUME TypeOK, NEW d \in Daemons, NEW at, Move(d, at)
  PROVE  /\ daemon'[d].at = at
         /\ daemon'[d].lease = daemon[d].lease
         /\ \A e \in Daemons : e # d => daemon'[e] = daemon[e]
  BY DEF TypeOK, Process, Move

LEMMA MovedOn ==
  ASSUME TypeOK, NEW d \in Daemons, NEW at,
         daemon' = [daemon EXCEPT ![d].at = at, ![d].lease = TRUE] \/
         daemon' = [daemon EXCEPT ![d].at = at, ![d].fatal = TRUE]
  PROVE  /\ daemon'[d].at = at
         /\ \A e \in Daemons : e # d => daemon'[e] = daemon[e]
  BY DEF TypeOK, Process

\* What a process does leaves the others alone, and brings it no closer to
\* where a command would have to wait for it.
LEMMA DaemonMoves ==
  ASSUME TypeOK, NEW d \in Daemons, DaemonStep(d) \/ Crash(d)
  PROVE  /\ Alive(d)
         /\ \A e \in Daemons : e # d => daemon'[e] = daemon[e]
         /\ daemon'[d].at \notin {"forked", "unborn"}
         /\ daemon'[d].at = "loading" => daemon[d].at = "forked"
         /\ daemon[d].at \in Settled => daemon'[d].at \in Settled
         /\ daemon[d].at \in Ended => daemon'[d].at \in Ended
         /\ UNCHANGED <<sh, said, launchFile>>
<1> DEFINE Stays == UNCHANGED <<sh, said, launchFile>>
           To(at) == daemon'[d].at = at /\ \A e \in Daemons : e # d => daemon'[e] = daemon[e]
<1> USE DEF pidFiles, Alive, Gone, Settled, Ended, Closing
<1>1. CASE Exec(d)
  <2>1. daemon[d].at = "forked" /\ To("loading") /\ Stays
    BY <1>1, Moved DEF Exec
  <2> QED BY <2>1
<1>2. CASE Acquire(d)
  <2>1. daemon[d].at = "loading" /\ (To("dead") \/ To("writePid")) /\ Stays
    BY <1>2, Moved DEF Acquire
  <2> QED BY <2>1
<1>3. CASE WritePid(d)
  <2>1. daemon[d].at = "writePid" /\ To("openD") /\ Stays
    BY <1>3, Moved DEF WritePid
  <2> QED BY <2>1
<1>4. CASE Cleanup(d)
  <2>1. PICK s \in {<<"openD", "openF", "openX", "openN">>, <<"undoD", "undoF", "undoX", "listen">>,
                    <<"closeD", "closeF", "closeX", "release">>} :
           \/ daemon[d].at = s[1] /\ (UNCHANGED daemon \/ Move(d, s[2]))
           \/ daemon[d].at = s[2] /\ Move(d, s[3])
           \/ daemon[d].at = s[3] /\ Move(d, s[4])
    BY <1>4 DEF Cleanup
  <2>2. \/ daemon[d].at = s[1] /\ (UNCHANGED daemon \/ To(s[2]))
        \/ daemon[d].at = s[2] /\ To(s[3])
        \/ daemon[d].at = s[3] /\ To(s[4])
    BY <2>1, Moved
  <2>3. Stays
    BY <1>4 DEF Cleanup
  <2> HIDE DEF To
  <2>4. \/ daemon[d].at \in Opening /\ (UNCHANGED daemon \/ To("openF") \/ To("openX") \/ To("openN"))
        \/ daemon[d].at \in Undoing /\ (UNCHANGED daemon \/ To("undoF") \/ To("undoX") \/ To("listen"))
        \/ daemon[d].at \in Closing /\ (UNCHANGED daemon \/ To("closeF") \/ To("closeX") \/ To("release"))
    BY <2>1, <2>2 DEF Opening, Undoing
  <2> QED BY <2>3, <2>4 DEF To, Opening, Undoing
<1>5. CASE OpenChain(d)
  <2>1. daemon[d].at = "openN" /\ (To("openTcp") \/ To("listen")) /\ Stays
    BY <1>5, Moved DEF OpenChain
  <2> QED BY <2>1
<1>6. CASE OpenRule(d)
  <2>1. daemon[d].at \in {"openTcp", "openUdp"} /\ (To("openUdp") \/ To("openI") \/ To("undoD")) /\ Stays
    BY <1>6, Moved DEF OpenRule
  <2> QED BY <2>1
<1>7. CASE OpenJump(d)
  <2>1. daemon[d].at = "openI" /\ (To("listen") \/ To("undoD")) /\ Stays
    BY <1>7, Moved, MovedOn DEF OpenJump
  <2> QED BY <2>1
<1>8. CASE Listen(d)
  <2>1. daemon[d].at = "listen" /\ To("serving") /\ Stays
    BY <1>8, Moved DEF Listen
  <2> QED BY <2>1
<1>9. CASE EndRun(d)
  <2>1. daemon[d].at \in {"listen", "serving"} /\ To("markStopped") /\ Stays
    BY <1>9, Moved, MovedOn DEF EndRun
  <2> QED BY <2>1
<1>10. CASE MarkStopped(d)
  <2>1. daemon[d].at = "markStopped" /\ (To("closeD") \/ To("release")) /\ Stays
    BY <1>10, Moved DEF MarkStopped
  <2> QED BY <2>1
<1>11. CASE Release(d)
  <2>1. daemon[d].at = "release" /\ To("dead") /\ Stays
    BY <1>11, Moved DEF Release
  <2> QED BY <2>1
<1>12. CASE Crash(d)
  <2>1. daemon[d].at \notin Gone /\ To("dead") /\ Stays
    BY <1>12, Moved DEF Crash
  <2> QED BY <2>1
<1> QED BY <1>1, <1>2, <1>3, <1>4, <1>5, <1>6, <1>7, <1>8, <1>9, <1>10, <1>11, <1>12
    DEF DaemonStep

LEMMA Found ==
  ASSUME TypeOK, OneDaemon, HolderLocks, NEW d \in Daemons, IsDaemon(d),
         daemon[d].at = "loading" => launchFile = d
  PROVE  DaemonPid = d
<1>1. \A e \in Daemons : IsDaemon(e) => e = d
  BY DEF OneDaemon, IsDaemon, Alive
<1>2. daemon[d].at # "loading" => lock = d
  <2>1. daemon[d].at \in Places
    BY DEF TypeOK, Process
  <2> QED BY <2>1 DEF HolderLocks, IsDaemon, Holding
<1> QED BY <1>1, <1>2 DEF TypeOK, DaemonPid, IsDaemon

LEMMA NotRunning ==
  ASSUME TypeOK, OneDaemon, HolderLocks, ~Running, NEW d \in Daemons
  PROVE  daemon[d].at \in Gone \cup {"forked", "loading"} /\ (daemon[d].at = "loading" => launchFile # d)
<1>1. DaemonPid # d
  BY ControlAssumption DEF Running
<1>2. ~IsDaemon(d) \/ (daemon[d].at = "loading" /\ launchFile # d)
  BY <1>1, Found
<1> QED BY <1>2, ControlAssumption DEF IsDaemon, Gone

LEMMA DaemonKeepsLock ==
  ASSUME TypeOK, OneDaemon, HolderLocks, NEW d \in Daemons, DaemonStep(d) \/ Crash(d)
  PROVE  OneDaemon' /\ HolderLocks'
<1>1. Alive(d) /\ \A e \in Daemons : e # d => daemon'[e] = daemon[e]
  BY DaemonMoves
<1>2. OneDaemon'
  BY <1>1 DEF OneDaemon, Alive
<1>3. \A e \in Daemons : e # d => daemon'[e].at \notin Holding
  BY <1>1 DEF OneDaemon, Alive, Holding
<1>4. daemon'[d].at \in Holding => lock' = d
  <2>0. TypeOK'
    BY DaemonTyped
  <2>1. CASE Acquire(d)
    BY <2>1, Moved DEF Acquire, Holding, Gone
  <2>2. CASE Release(d)
    BY <2>2, Moved DEF Release, Holding, Gone
  <2>3. CASE Exec(d)
    BY <2>3, Moved DEF Exec, Holding, Gone
  <2>4. CASE Crash(d)
    BY <2>4, Moved DEF Crash, Holding, Gone
  <2>5. CASE ~(Acquire(d) \/ Release(d) \/ Exec(d) \/ Crash(d))
    <3>1. UNCHANGED lock
      BY <2>5 DEF DaemonStep, Cleanup, OpenChain, OpenRule, OpenJump, Listen, EndRun, MarkStopped,
         WritePid, pidFiles
    <3>2. daemon[d].at \in Holding
      <4>1. daemon[d].at \notin {"unborn", "dead", "forked", "loading"}
        BY <2>5 DEF DaemonStep, Cleanup, OpenChain, OpenRule, OpenJump, Listen, EndRun, MarkStopped,
           WritePid
      <4> QED BY <4>1 DEF Holding, Gone, TypeOK, Process
    <3> QED BY <3>1, <3>2 DEF HolderLocks
  <2> QED BY <2>1, <2>2, <2>3, <2>4, <2>5
<1> QED BY <1>2, <1>3, <1>4 DEF HolderLocks

LEMMA DaemonSeen ==
  ASSUME TypeOK, NEW c \in Shells, Sees(c), Starts(c), Flags(c), Stops(c),
         NEW d \in Daemons, DaemonStep(d) \/ Crash(d)
  PROVE  (Sees(c) /\ Starts(c) /\ Flags(c) /\ Stops(c))'
<1>1. /\ Alive(d)
      /\ \A e \in Daemons : e # d => daemon'[e] = daemon[e]
      /\ daemon'[d].at \notin {"forked", "unborn"}
      /\ daemon'[d].at = "loading" => daemon[d].at = "forked"
      /\ daemon[d].at \in Settled => daemon'[d].at \in Settled
      /\ daemon[d].at \in Ended => daemon'[d].at \in Ended
      /\ UNCHANGED <<sh, said, launchFile>>
  BY DaemonMoves
<1>2. ~AllIn(Gone)
  BY <1>1 DEF AllIn, Alive
<1>3. AllIn(Settled) => AllIn(Settled)'
  BY <1>1 DEF AllIn
<1>4. AllIn(Ended) => AllIn(Ended)'
  BY <1>1 DEF AllIn
<1>5. \A e : Only(e) => \A a \in Daemons : Alive(a)' => a = e
  BY <1>1 DEF Only, Alive
<1>6. Sees(c)'
  BY <1>1, <1>2, <1>3, <1>4, <1>5 DEF Sees, Only
<1>7. Starts(c)'
  BY <1>1 DEF Starts
<1>8. Flags(c)' /\ Stops(c)'
  BY <1>1, <1>2 DEF Flags, Stops
<1> QED BY <1>6, <1>7, <1>8

-----------------------------------------------------------------------------
(* What a command does to the processes.                                    *)

LEMMA Went ==
  ASSUME TypeOK, NEW c \in Shells, NEW at, Go(c, at)
  PROVE  sh'[c] = [sh[c] EXCEPT !.at = at]
  BY DEF TypeOK, Go

\* A process that every stage before it leaves behind is settled.
LEMMA Stages ==
  /\ AllIn(Gone) => AllIn(Ended)
  /\ AllIn(Ended) => AllIn(Settled)
  /\ AllIn(Gone) => \A d \in Daemons : ~Alive(d)
  BY DEF AllIn, Alive, Gone, Ended, Settled

\* What no command finds in a settled state is gone.
LEMMA SettledGone ==
  ASSUME TypeOK, OneDaemon, HolderLocks, ~Running, AllIn(Settled)
  PROVE  AllIn(Gone)
<1> SUFFICES ASSUME NEW d \in Daemons PROVE daemon[d].at \in Gone
  BY DEF AllIn
<1>1. daemon[d].at \in Settled /\ daemon[d].at \in Gone \cup {"forked", "loading"}
  BY NotRunning DEF AllIn
<1> QED BY <1>1 DEF Settled, Gone, Closing

LEMMA ShellRests ==
  ASSUME TypeOK, OneDaemon, HolderLocks, NEW c \in Shells,
         Sees(c), Starts(c), Flags(c), Stops(c),
         ShellStep(c), ~Term(c), ~Wait(c), ~RefreshSignal(c), ~\E d \in Daemons : Launch(c, d)
  PROVE  (Sees(c) /\ Starts(c) /\ Flags(c) /\ Stops(c))'
<1> USE DEF pidFiles, Say
<1> USE DEF Sees, Starts, Flags, Stops, Calm, Clear, AfterStop, Stopping, Cleaning
<1>0. UNCHANGED daemon
  BY DEF ShellStep, StartCheck, LaunchFails, Record, Poll, SelfTest, Ready, PollTimesOut, LastCheck,
     Failed, Find, WaitKill, Remove, CleanFails, Clean, Cleaned, Refresh, RefreshFind, Install,
     InstallEnds
<1>u. /\ AllIn(Settled) = AllIn(Settled)'
      /\ AllIn(Ended) = AllIn(Ended)'
      /\ AllIn(Gone) = AllIn(Gone)'
      /\ \A d \in Daemons : Alive(d)' = Alive(d)
  BY <1>0 DEF AllIn, Alive
<1>w. ASSUME NEW at, Go(c, at)
      PROVE  /\ sh'[c].at = at
             /\ sh'[c].failing = sh[c].failing /\ sh'[c].last = sh[c].last
             /\ sh'[c].clean = sh[c].clean /\ sh'[c].launched = sh[c].launched
             /\ sh'[c].target = sh[c].target /\ sh'[c].job = sh[c].job
  BY <1>w DEF TypeOK, Shell, Go
<1>s. sh[c].failing \in BOOLEAN /\ sh[c].last \in BOOLEAN /\ sh[c].clean \in BOOLEAN
  BY DEF TypeOK, Shell
<1>1. CASE StartCheck(c)
  BY <1>1, <1>0, <1>u, <1>w, <1>s, SettledGone, Stages DEF StartCheck, StartReturns, TypeOK, Shell, Go, Only, NoFiles
<1>2. CASE LaunchFails(c)
  BY <1>2, <1>0, <1>u, <1>w, <1>s, Stages DEF LaunchFails, StartReturns, TypeOK, Shell, Go, Only, NoFiles
<1>3. CASE Record(c)
  BY <1>3, <1>0, <1>u, <1>w, <1>s DEF Record, Only, NoFiles
<1>4. CASE Poll(c)
  <2>1. \A d \in Daemons : daemon[d].at # "forked"
    BY <1>4, FoundIsDaemon DEF Poll, OneDaemon, Alive, IsDaemon, Gone
  <2> QED BY <1>4, <2>1, <1>0, <1>u, <1>w, <1>s DEF Poll, Only, NoFiles
<1>5. CASE SelfTest(c)
  <2>1. SelfTestOK => AllIn(Settled)
    BY DEF SelfTestOK, OneDaemon, Alive, AllIn, Settled, Gone
  <2>2. SelfTestOK => \A d \in Daemons : daemon[d].at \notin {"forked", "loading"}
    BY DEF SelfTestOK, OneDaemon, Alive, Gone
  <2> QED BY <1>5, <2>1, <2>2, <1>0, <1>u, <1>w, <1>s DEF SelfTest, Only, NoFiles
<1>6. CASE Ready(c)
  BY <1>6, <1>0, <1>u, <1>w, <1>s DEF Ready, StartReturns, TypeOK, Shell, Go, Only, NoFiles
<1>7. CASE PollTimesOut(c)
  <2>1. \A d \in Daemons : daemon[d].at # "forked"
    BY <1>7 DEF PollTimesOut, Only, Alive, Gone
  <2>2. sh'[c].at = "find" /\ sh'[c].failing /\ sh'[c].last = sh[c].last /\ sh'[c].launched = sh[c].launched
    BY <1>7 DEF PollTimesOut, TypeOK, Shell
  <2> QED BY <1>7, <2>1, <2>2, <1>0, <1>u, <1>w, <1>s DEF PollTimesOut, Only, NoFiles
<1>8. CASE LastCheck(c)
  BY <1>8, <1>0, <1>u, <1>w, <1>s, Stages DEF LastCheck, TypeOK, Shell, Go, Only, NoFiles, IsDaemon, AllIn
<1>9. CASE Failed(c)
  BY <1>9, <1>0, <1>u, <1>w, <1>s, Stages DEF Failed, StartReturns, TypeOK, Shell, Go, Only, NoFiles
<1>10. CASE Find(c)
  BY <1>10, <1>0, <1>u, <1>w, <1>s, Stages DEF Find, TypeOK, Shell, Go, Only, NoFiles
<1>13. CASE WaitKill(c)
  <2>1. sh[c].at = "waitKill" /\ AllIn(Ended)
    BY <1>13 DEF WaitKill
  <2>2. CASE IsDaemon(sh[c].target)
    <3>1. /\ sh'[c].at = "cleanD" /\ ~sh'[c].clean
          /\ sh'[c].failing = sh[c].failing /\ sh'[c].last = sh[c].last
          /\ sh'[c].launched = sh[c].launched
      BY <1>13, <2>2 DEF WaitKill, TypeOK, Shell
    <3> QED BY <1>13, <2>1, <3>1, <1>0, <1>u, <1>s DEF WaitKill, Only
  <2>3. CASE ~IsDaemon(sh[c].target)
    <3>1. AllIn(Gone)
      BY <2>1, <2>3, ControlAssumption DEF AllIn, Only, IsDaemon, Alive, Ended, Gone
    <3>2. \/ sh[c].last /\ Go(c, "cleanD")
          \/ ~sh[c].last /\ Go(c, "remove")
      <4>1. Go(c, AfterKill(c))
        BY <1>13, <2>3 DEF WaitKill
      <4>2. \/ sh[c].last /\ AfterKill(c) = "cleanD"
            \/ ~sh[c].last /\ AfterKill(c) = "remove"
        BY DEF AfterKill
      <4> QED BY <4>1, <4>2
    <3>3. UNCHANGED <<said, pidFiles>>
      BY <1>13 DEF WaitKill
    <3> QED BY <2>1, <3>1, <3>2, <3>3, <1>0, <1>u, <1>w, <1>s, Stages DEF Only
  <2> QED BY <2>2, <2>3
<1>14. CASE Remove(c)
  BY <1>14, <1>0, <1>u, <1>w, <1>s, Stages DEF Remove, Only, NoFiles
<1>15. CASE CleanFails(c)
  BY <1>15, <1>0, <1>u, <1>w, <1>s, Stages DEF CleanFails, TypeOK, Shell, Go, Only, NoFiles
<1>16. CASE Clean(c)
  <2>1. UNCHANGED sh \/ Go(c, "cleanF") \/ Go(c, "cleanX") \/ Go(c, "cleaned")
    BY <1>16 DEF Clean
  <2>2. UNCHANGED <<said, pidFiles>> /\ sh[c].at \in Cleaning
    BY <1>16 DEF Clean
  <2> QED BY <2>1, <2>2, <1>0, <1>u, <1>w, <1>s DEF Only, NoFiles
<1>17. CASE Cleaned(c)
  <2>1. sh[c].at = "cleaned" /\ AllIn(Ended) /\ UNCHANGED pidFiles
    BY <1>17 DEF Cleaned
  <2>2. CASE sh[c].last /\ Go(c, "failed") /\ UNCHANGED said
    <3>1. sh'[c].at = "failed" /\ sh'[c].failing = sh[c].failing /\ sh'[c].last = sh[c].last
          /\ sh'[c].clean = sh[c].clean /\ sh'[c].launched = sh[c].launched
      BY <2>2, <1>w
    <3>2. Sees(c)'
      BY <2>1, <2>2, <3>1, <1>u, <1>s DEF Only
    <3>3. Starts(c)' /\ Flags(c)'
      BY <2>1, <2>2, <3>1, <1>0, <1>s
    <3>4. Stops(c)'
      BY <2>1, <2>2, <3>1, <1>u, <1>s DEF NoFiles
    <3> QED BY <3>2, <3>3, <3>4
  <2>3. CASE sh[c].failing /\ ~sh[c].last /\ Go(c, "lastCheck") /\ UNCHANGED said
    <3>1. sh'[c].at = "lastCheck" /\ sh'[c].failing = sh[c].failing /\ sh'[c].last = sh[c].last
          /\ sh'[c].clean = sh[c].clean /\ sh'[c].launched = sh[c].launched
      BY <2>3, <1>w
    <3>2. Sees(c)'
      BY <2>1, <2>3, <3>1, <1>u, <1>s DEF Only
    <3>3. Starts(c)' /\ Flags(c)'
      BY <2>1, <2>3, <3>1, <1>0, <1>s
    <3>4. Stops(c)'
      BY <2>1, <2>3, <3>1, <1>u, <1>s DEF NoFiles
    <3> QED BY <3>2, <3>3, <3>4
  <2>4. CASE ~sh[c].failing /\ sh[c].clean /\ Go(c, "installing") /\ UNCHANGED said
    <3>1. ~sh[c].last
      BY <2>4
    <3>2. /\ sh'[c].at = "installing" /\ ~sh'[c].failing /\ ~sh'[c].last
          /\ UNCHANGED <<said, pidFiles>>
      BY <2>1, <2>4, <3>1, <1>w
    <3>3. AllIn(Gone)
      BY <2>1, <2>4
    <3>4. Sees(c)'
      BY <3>2, <3>3, <1>u, <1>s DEF Only
    <3>5. Starts(c)' /\ Flags(c)'
      BY <2>1, <3>2, <3>3, <1>0, <1>u, <1>s, Stages DEF Alive, Gone
    <3>6. Stops(c)'
      BY <2>1, <3>2, <1>u, <1>s
    <3> QED BY <3>4, <3>5, <3>6
  <2>5. CASE ~sh[c].failing /\ Go(c, "idle")
    BY <2>1, <2>5, <1>0, <1>u, <1>w, <1>s, Stages DEF Only, NoFiles
  <2> QED BY <1>17, <2>2, <2>3, <2>4, <2>5 DEF Cleaned
<1>18. CASE Refresh(c)
  BY <1>18, <1>0, <1>u, <1>w, <1>s DEF Refresh, Only, NoFiles
<1>19. CASE RefreshFind(c)
  BY <1>19, <1>0, <1>u, <1>w, <1>s, FoundIsDaemon DEF RefreshFind, TypeOK, Shell, Go, Only, NoFiles
<1>21. CASE Install(c)
  BY <1>21, <1>0, <1>u, <1>w, <1>s, SettledGone DEF Install, TypeOK, Shell, Go, Only, NoFiles
<1>22. ASSUME NEW ok \in BOOLEAN, InstallEnds(c, ok)
       PROVE  (Sees(c) /\ Starts(c) /\ Flags(c) /\ Stops(c))'
  BY <1>22, <1>0, <1>u, <1>w, <1>s, Stages DEF InstallEnds, StartReturns, TypeOK, Shell, Go, Only, NoFiles
<1> QED BY <1>1, <1>2, <1>3, <1>4, <1>5, <1>6, <1>7, <1>8, <1>9, <1>10,
      <1>13, <1>14, <1>15, <1>16, <1>17, <1>18, <1>19, <1>21, <1>22
    DEF ShellStep

LEMMA SignalMoves ==
  ASSUME TypeOK, NEW d \in Daemons, NEW term \in BOOLEAN, daemon' = Signalled(d, term)
  PROVE  /\ \A e \in Daemons : e # d => daemon'[e] = daemon[e]
         /\ daemon'[d].lease = daemon[d].lease
         /\ daemon[d].at \in {"loading", "writePid"} => daemon'[d].at = "dead"
         /\ daemon[d].at \notin {"loading", "writePid"} => daemon'[d].at = daemon[d].at
<1>1. CASE daemon[d].at \in {"loading", "writePid"}
  BY <1>1 DEF TypeOK, Process, Signalled
<1>2. CASE daemon[d].at \notin {"loading", "writePid"}
  BY <1>2 DEF TypeOK, Process, Signalled
<1> QED BY <1>1, <1>2

LEMMA ShellSignals ==
  ASSUME TypeOK, OneDaemon, HolderLocks, NEW c \in Shells,
         Sees(c), Starts(c), Flags(c), Stops(c), Term(c) \/ Wait(c) \/ RefreshSignal(c)
  PROVE  (OneDaemon /\ HolderLocks /\ Sees(c) /\ Starts(c) /\ Flags(c) /\ Stops(c))'
<1> USE DEF pidFiles, Say
<1> DEFINE Same == /\ sh'[c].failing = sh[c].failing /\ sh'[c].last = sh[c].last
                   /\ sh'[c].clean = sh[c].clean /\ sh'[c].launched = sh[c].launched
                   /\ sh'[c].target = sh[c].target
<1>w. \A at : Go(c, at) => sh'[c].at = at /\ Same
  BY DEF TypeOK, Shell, Go
<1>s. sh[c].failing \in BOOLEAN /\ sh[c].last \in BOOLEAN /\ sh[c].clean \in BOOLEAN
  BY DEF TypeOK, Shell
<1>f. UNCHANGED <<said, pidFiles>>
  BY DEF Term, Wait, RefreshSignal
\* What is left alone keeps its place; the target leaves it for the better.
<1>d. ASSUME NEW t \in Daemons, \A e \in Daemons : e # t => daemon'[e] = daemon[e],
             daemon'[t].at = daemon[t].at \/ (daemon[t].at \notin Gone /\ daemon'[t].at \in Ended \ {"unborn"}),
             daemon'[t].at = "stuck" => daemon[t].at \in Holding
      PROVE  /\ OneDaemon' /\ HolderLocks'
             /\ AllIn(Settled) => AllIn(Settled)'
             /\ AllIn(Ended) => AllIn(Ended)'
             /\ \A d \in Daemons : Alive(d)' => Alive(d)
             /\ \A d \in Daemons, p \in {"forked", "loading"} : daemon'[d].at = p => daemon[d].at = p
  <2>1. \A d \in Daemons : Alive(d)' => Alive(d)
    BY <1>d DEF Alive
  <2>2. OneDaemon'
    BY <2>1 DEF OneDaemon
  <2>3. \A d \in Daemons : daemon'[d].at \in Holding => daemon[d].at \in Holding
    BY <1>d DEF Holding, Ended, Gone
  <2>4. HolderLocks'
    BY <2>3, <1>f DEF HolderLocks
  <2>5. AllIn(Settled) => AllIn(Settled)'
    BY <1>d DEF AllIn, Settled, Ended
  <2>6. AllIn(Ended) => AllIn(Ended)'
    BY <1>d DEF AllIn
  <2>7. \A d \in Daemons, p \in {"forked", "loading"} : daemon'[d].at = p => daemon[d].at = p
    BY <1>d DEF Ended, Gone
  <2> QED BY <2>1, <2>2, <2>4, <2>5, <2>6, <2>7
<1>t. sh[c].target \in Daemons \cup {None}
  BY DEF TypeOK, Shell
\* The command goes on as if nothing were there.
<1>a. ASSUME sh[c].at \in {"term", "wait"}, ~IsDaemon(sh[c].target), Go(c, AfterKill(c)), UNCHANGED daemon
      PROVE  (OneDaemon /\ HolderLocks /\ Sees(c) /\ Starts(c) /\ Flags(c) /\ Stops(c))'
  <2>1. AllIn(Gone)
    <3> SUFFICES ASSUME NEW d \in Daemons, Alive(d) PROVE FALSE
      BY DEF AllIn, Alive
    <3>1. d = sh[c].target /\ daemon[d].at # "forked"
      BY <1>a DEF Sees, Only, Starts
    <3> QED BY <3>1, <1>a, ControlAssumption DEF IsDaemon, Alive
  <2>2. \/ sh[c].last /\ sh'[c].at = "cleanD"
        \/ ~sh[c].last /\ sh'[c].at = "remove"
    BY <1>a, <1>w DEF AfterKill
  <2>3. AllIn(Gone)' /\ AllIn(Ended)' /\ Same
    BY <2>1, <1>a, <1>w DEF AllIn, Ended
  <2>4. \A d \in Daemons : ~Alive(d)' /\ daemon'[d].at \notin {"forked", "loading"}
    BY <2>3 DEF AllIn, Alive, Gone
  <2>5. OneDaemon' /\ HolderLocks'
    BY <1>a, <1>f DEF OneDaemon, HolderLocks, Alive
  <2>6. Sees(c)'
    BY <2>2, <2>3, <2>4 DEF Sees, Calm, Stopping, Clear, AfterStop, Cleaning, Only
  <2>7. Starts(c)' /\ Flags(c)' /\ Stops(c)'
    BY <1>a, <1>f, <2>2, <2>3, <2>4, <1>s DEF Starts, Flags, Stops, AfterStop, Stopping, Cleaning
  <2> QED BY <2>5, <2>6, <2>7
<1>1. CASE Term(c) /\ IsDaemon(sh[c].target)
  <2>1. sh[c].at = "term" /\ daemon' = Signalled(sh[c].target, TRUE) /\ sh'[c].at = "wait" /\ Same
    BY <1>1, <1>w DEF Term
  <2>2. PICK t \in Daemons : t = sh[c].target
    BY <1>t, <1>1 DEF IsDaemon
  <2>3. daemon' = Signalled(t, TRUE)
    BY <2>1, <2>2
  <2>4. /\ \A e \in Daemons : e # t => daemon'[e] = daemon[e]
        /\ daemon[t].at \in {"loading", "writePid"} => daemon'[t].at = "dead"
        /\ daemon[t].at \notin {"loading", "writePid"} => daemon'[t].at = daemon[t].at
    BY <2>3, SignalMoves
  <2>5. /\ OneDaemon' /\ HolderLocks'
        /\ AllIn(Settled) => AllIn(Settled)'
        /\ AllIn(Ended) => AllIn(Ended)'
        /\ \A d \in Daemons : Alive(d)' => Alive(d)
        /\ \A d \in Daemons, p \in {"forked", "loading"} : daemon'[d].at = p => daemon[d].at = p
    <3>1. daemon'[t].at = daemon[t].at \/ (daemon[t].at \notin Gone /\ daemon'[t].at \in Ended \ {"unborn"})
      BY <2>4 DEF Gone, Ended
    <3>2. daemon'[t].at = "stuck" => daemon[t].at \in Holding
      BY <2>4 DEF Holding, Places, Gone
    <3> QED BY <3>1, <3>2, <2>4, <1>d
  <2>6. \A d \in Daemons : daemon'[d].at \notin {"forked", "loading"}
    <3> SUFFICES ASSUME NEW d \in Daemons, daemon'[d].at \in {"forked", "loading"} PROVE FALSE
      OBVIOUS
    <3>1. daemon[d].at = daemon'[d].at
      BY <2>5
    <3>2. daemon[d].at = "loading" /\ d = t
      BY <3>1, <2>1, <2>2 DEF Starts, Sees, Only, Alive, Gone
    <3> QED BY <3>1, <3>2, <2>4
  <2>7. Sees(c)'
    BY <2>1, <2>5, <1>s DEF Sees, Calm, Stopping, Clear, AfterStop, Cleaning, Only
  <2>8. Starts(c)' /\ Flags(c)' /\ Stops(c)'
    BY <2>1, <2>6, <1>f, <1>s DEF Starts, Flags, Stops, AfterStop, Stopping, Cleaning
  <2> QED BY <2>5, <2>7, <2>8
<1>2. CASE Wait(c) /\ IsDaemon(sh[c].target)
  <2>1. sh[c].at = "wait" /\ Move(sh[c].target, "stuck") /\ sh'[c].at = "waitKill" /\ Same
    BY <1>2, <1>w DEF Wait
  <2>2. PICK t \in Daemons : t = sh[c].target
    BY <1>t, <1>2 DEF IsDaemon
  <2>3. daemon'[t].at = "stuck" /\ \A e \in Daemons : e # t => daemon'[e] = daemon[e]
    BY <2>1, <2>2, Moved
  <2>4. daemon[t].at \notin Gone \cup {"forked", "loading"}
    BY <1>2, <2>1, <2>2 DEF IsDaemon, Starts
  <2>5. daemon[t].at \in Holding
    BY <2>4 DEF TypeOK, Process, Holding
  <2>6. /\ OneDaemon' /\ HolderLocks'
        /\ \A d \in Daemons : Alive(d)' => Alive(d)
        /\ \A d \in Daemons, p \in {"forked", "loading"} : daemon'[d].at = p => daemon[d].at = p
    BY <2>3, <2>4, <2>5, <1>d DEF Ended
  <2>7. AllIn(Ended)'
    BY <2>1, <2>2, <2>3 DEF AllIn, Ended, Sees, Only, Alive
  <2>8. Sees(c)'
    BY <2>1, <2>6, <2>7, <1>s DEF Sees, Calm, Stopping, Clear, AfterStop, Cleaning, Only
  <2>9. Starts(c)' /\ Flags(c)' /\ Stops(c)'
    BY <2>1, <2>6, <1>f, <1>s DEF Starts, Flags, Stops, AfterStop, Stopping, Cleaning
  <2> QED BY <2>6, <2>8, <2>9
<1>3. CASE RefreshSignal(c)
  <2>1. sh[c].at = "usr1" /\ daemon' = Signalled(sh[c].target, FALSE) /\ sh'[c].at = "idle" /\ Same
    BY <1>3, <1>w DEF RefreshSignal
  <2>2. daemon[sh[c].target].at \notin {"loading", "writePid"}
    BY <2>1 DEF Sees, Calm, AllIn, Settled, Gone, Closing
  <2>3. UNCHANGED daemon
    BY <2>1, <2>2 DEF Signalled
  <2>4. OneDaemon' /\ HolderLocks'
    BY <2>3, <1>f DEF OneDaemon, HolderLocks, Alive
  <2>5. AllIn(Settled)'
    BY <2>1, <2>3 DEF Sees, Calm, AllIn
  <2>6. Sees(c)'
    BY <2>1, <2>5, <1>s DEF Sees, Calm, Stopping, Clear, AfterStop, Cleaning, Only
  <2>7. Starts(c)' /\ Flags(c)' /\ Stops(c)'
    BY <2>1, <2>3, <1>f, <1>s DEF Starts, Flags, Stops, AfterStop, Stopping, Cleaning
  <2> QED BY <2>4, <2>6, <2>7
<1>4. CASE (Term(c) \/ Wait(c)) /\ ~IsDaemon(sh[c].target)
  <2>1. sh[c].at \in {"term", "wait"} /\ Go(c, AfterKill(c)) /\ UNCHANGED daemon
    BY <1>4 DEF Term, Wait
  <2> QED BY <2>1, <1>4, <1>a
<1> QED BY <1>1, <1>2, <1>3, <1>4

LEMMA ShellLaunches ==
  ASSUME TypeOK, OneDaemon, HolderLocks, NEW c \in Shells,
         Sees(c), Starts(c), Flags(c), Stops(c), NEW d \in Daemons, Launch(c, d)
  PROVE  (OneDaemon /\ HolderLocks /\ Sees(c) /\ Starts(c) /\ Flags(c) /\ Stops(c))'
<1>1. AllIn(Gone) /\ sh[c].at = "launch"
  BY DEF Launch, Sees, Clear
<1>2. daemon'[d].at = "forked" /\ \A e \in Daemons : e # d => daemon'[e] = daemon[e]
  BY Moved DEF Launch
<1>3. \A e \in Daemons : e # d => daemon'[e].at \in Gone
  BY <1>1, <1>2 DEF AllIn
<1>4. /\ sh'[c].at = "record" /\ sh'[c].launched = d
      /\ sh'[c].failing = sh[c].failing /\ sh'[c].last = sh[c].last
  BY DEF Launch, TypeOK, Shell
<1>5. OneDaemon' /\ HolderLocks'
  BY <1>2, <1>3 DEF OneDaemon, HolderLocks, Alive, Holding, Gone
<1>6. Sees(c)'
  BY <1>2, <1>3, <1>4 DEF Sees, Calm, Stopping, Clear, AfterStop, Cleaning, Only, Alive
<1>7. Starts(c)' /\ Flags(c)' /\ Stops(c)'
  BY <1>1, <1>3, <1>4 DEF Launch, Starts, Flags, Stops, AfterStop, Stopping, Cleaning, Gone
<1> QED BY <1>5, <1>6, <1>7

LEMMA BeginSeen ==
  ASSUME TypeOK, OneDaemon, HolderLocks, NEW c \in Shells,
         Sees(c), Starts(c), NEW job \in Jobs, Begin(c, job)
  PROVE  (OneDaemon /\ HolderLocks /\ Sees(c) /\ Starts(c) /\ Flags(c) /\ Stops(c))'
<1>1. /\ sh'[c].at \in {"check", "find", "refresh", "install"}
      /\ ~sh'[c].failing /\ ~sh'[c].last /\ said'[c] = "nothing"
  BY DEF Begin, TypeOK, Fresh, Say, Jobs
<1>2. sh[c].at = "idle" /\ UNCHANGED <<daemon, pidFiles>>
  BY DEF Begin
<1>3. AllIn(Settled)' /\ \A d \in Daemons : daemon'[d].at \notin {"forked", "loading"}
  BY <1>2 DEF Sees, Calm, AllIn, Starts
<1>4. OneDaemon' /\ HolderLocks'
  BY <1>2 DEF OneDaemon, HolderLocks, Alive, pidFiles
<1>5. Sees(c)'
  BY <1>1, <1>3 DEF Sees, Calm, Stopping, Clear, AfterStop, Cleaning
<1>6. Starts(c)' /\ Flags(c)' /\ Stops(c)'
  BY <1>1, <1>3 DEF Starts, Flags, Stops, AfterStop, Cleaning
<1> QED BY <1>4, <1>5, <1>6

-----------------------------------------------------------------------------
(* The firewall.                                                            *)

LEMMA ShellKeeps ==
  ASSUME TypeOK, OneDaemon, HolderLocks, NEW c \in Shells,
         Sees(c), Starts(c), Flags(c), Stops(c), ShellStep(c)
  PROVE  (OneDaemon /\ HolderLocks /\ Sees(c) /\ Starts(c) /\ Flags(c) /\ Stops(c))'
<1>1. CASE Term(c) \/ Wait(c) \/ RefreshSignal(c)
  BY <1>1, ShellSignals
<1>2. CASE \E d \in Daemons : Launch(c, d)
  BY <1>2, ShellLaunches
<1>3. CASE ~Term(c) /\ ~Wait(c) /\ ~RefreshSignal(c) /\ ~\E d \in Daemons : Launch(c, d)
  <2>1. (Sees(c) /\ Starts(c) /\ Flags(c) /\ Stops(c))'
    BY <1>3, ShellRests
  <2>2. UNCHANGED daemon
    BY <1>3 DEF ShellStep, StartCheck, LaunchFails, Record, Poll, SelfTest, Ready, PollTimesOut,
       LastCheck, Failed, Find, WaitKill, Remove, CleanFails, Clean, Cleaned, Refresh, RefreshFind,
       Install, InstallEnds
  <2>3. OneDaemon'
    BY <2>2 DEF OneDaemon, Alive
  <2>4. CASE Remove(c)
    <3>1. AllIn(Gone)
      BY <2>4 DEF Remove, Sees, Clear
    <3> QED BY <2>1, <2>2, <2>3, <3>1 DEF HolderLocks, AllIn, Holding
  <2>5. CASE ~Remove(c)
    <3>1. UNCHANGED lock
      BY <1>3, <2>5 DEF ShellStep, StartCheck, LaunchFails, Record, Poll, SelfTest, Ready, PollTimesOut,
         LastCheck, Failed, Find, WaitKill, CleanFails, Clean, Cleaned, Refresh, RefreshFind,
         Install, InstallEnds, pidFiles
    <3> QED BY <2>1, <2>2, <2>3, <3>1 DEF HolderLocks
  <2> QED BY <2>4, <2>5
<1> QED BY <1>1, <1>2, <1>3

LEMMA DaemonFires ==
  ASSUME TypeOK, NEW d \in Daemons, DaemonStep(d) \/ Crash(d), Ruled, InOrder(d)
  PROVE  Ruled' /\ InOrder(d)'
<1> USE DEF Ruled, RulesBounded, InOrder, Open, Opening, Undoing, firewall
<1> DEFINE To(at) == daemon'[d].at = at /\ daemon'[d].lease = daemon[d].lease
<1>t. /\ jumps \in Nat /\ chain \in BOOLEAN /\ daemon[d].lease \in BOOLEAN
  BY DEF TypeOK, Process
<1>1. CASE Exec(d)
  <2>1. daemon[d].at = "forked" /\ To("loading") /\ UNCHANGED firewall
    BY <1>1, Moved DEF Exec
  <2> QED BY <2>1
<1>2. CASE Acquire(d)
  <2>1. daemon[d].at = "loading" /\ (To("dead") \/ To("writePid")) /\ UNCHANGED firewall
    BY <1>2, Moved DEF Acquire
  <2> QED BY <2>1
<1>3. CASE WritePid(d)
  <2>1. daemon[d].at = "writePid" /\ To("openD") /\ UNCHANGED firewall
    BY <1>3, Moved DEF WritePid
  <2> QED BY <2>1
<1>4. CASE Cleanup(d)
  <2> HIDE DEF Ruled, RulesBounded, InOrder
  <2>1. PICK s \in {<<"openD", "openF", "openX", "openN">>, <<"undoD", "undoF", "undoX", "listen">>,
                    <<"closeD", "closeF", "closeX", "release">>} :
           \/ daemon[d].at = s[1] /\ Delete /\ Sound /\ UNCHANGED daemon
           \/ daemon[d].at = s[1] /\ Refuses(jumps > 0) /\ Move(d, s[2])
           \/ daemon[d].at = s[2] /\ Ignored(Flush, chain) /\ Move(d, s[3])
           \/ daemon[d].at = s[3] /\ Ignored(Drop, DropPossible) /\ Move(d, s[4])
    BY <1>4 DEF Cleanup
  <2>2. Delete \/ Flush \/ Drop \/ UNCHANGED firewall
    BY <2>1 DEF Ignored, Refuses
  <2>3. Ruled'
    <3>1. CASE Delete
      BY <3>1, <1>t DEF Delete, Ruled, RulesBounded
    <3>2. CASE Flush \/ Drop \/ UNCHANGED firewall
      BY <3>2, <1>t DEF Flush, Drop, Ruled, RulesBounded
    <3> QED BY <2>2, <3>1, <3>2
  <2>4. CASE UNCHANGED daemon
    <3>1. daemon[d].at \in {"openD", "undoD", "closeD"}
      BY <2>1, <2>4, Moved
    <3> QED BY <2>3, <2>4, <3>1 DEF InOrder
  <2>5. CASE ~UNCHANGED daemon
    <3>1. \/ daemon[d].at = s[1] /\ To(s[2])
          \/ daemon[d].at = s[2] /\ To(s[3])
          \/ daemon[d].at = s[3] /\ To(s[4])
      BY <2>1, <2>5, Moved
    <3>2. \/ daemon[d].at \in Opening /\ daemon'[d].at \in {"openF", "openX", "openN"}
          \/ daemon[d].at \in Undoing /\ daemon'[d].at \in {"undoF", "undoX", "listen"}
          \/ daemon'[d].at \in {"closeF", "closeX", "release"}
      BY <2>1, <3>1
    <3>3. daemon'[d].lease = daemon[d].lease
      BY <3>1
    <3> QED BY <2>3, <3>2, <3>3 DEF InOrder
  <2> QED BY <2>4, <2>5
<1>5. CASE OpenChain(d)
  <2>1. \/ daemon[d].at = "openN" /\ Create /\ To("openTcp")
        \/ daemon[d].at = "openN" /\ UNCHANGED firewall /\ To("listen")
    BY <1>5, Moved DEF OpenChain, Refuses
  <2> QED BY <2>1, <1>t DEF Create
<1>6. CASE OpenRule(d)
  <2>1. \/ daemon[d].at = "openTcp" /\ Allow("tcp") /\ To("openUdp")
        \/ daemon[d].at = "openUdp" /\ Allow("udp") /\ To("openI")
        \/ daemon[d].at \in {"openTcp", "openUdp"} /\ UNCHANGED firewall /\ To("undoD")
    BY <1>6, Moved DEF OpenRule, Refuses
  <2> QED BY <2>1, <1>t DEF Allow
<1>7. CASE OpenJump(d)
  <2>1. \/ daemon[d].at = "openI" /\ Insert /\ daemon'[d].at = "listen"
        \/ daemon[d].at = "openI" /\ UNCHANGED firewall /\ To("undoD")
    BY <1>7, Moved, MovedOn DEF OpenJump, Refuses
  <2> QED BY <2>1, <1>t DEF Insert
<1>8. CASE Listen(d)
  <2>1. daemon[d].at = "listen" /\ To("serving") /\ UNCHANGED firewall
    BY <1>8, Moved DEF Listen
  <2> QED BY <2>1
<1>9. CASE EndRun(d)
  <2>1. daemon'[d].at = "markStopped" /\ UNCHANGED firewall
    BY <1>9, Moved, MovedOn DEF EndRun
  <2> QED BY <2>1
<1>10. CASE MarkStopped(d)
  <2>1. (To("closeD") \/ To("release")) /\ UNCHANGED firewall
    BY <1>10, Moved DEF MarkStopped
  <2> QED BY <2>1
<1>11. CASE Release(d)
  <2>1. To("dead") /\ UNCHANGED firewall
    BY <1>11, Moved DEF Release
  <2> QED BY <2>1
<1>12. CASE Crash(d)
  <2>1. To("dead") /\ UNCHANGED firewall
    BY <1>12, Moved DEF Crash
  <2> QED BY <2>1
<1> QED BY <1>1, <1>2, <1>3, <1>4, <1>5, <1>6, <1>7, <1>8, <1>9, <1>10, <1>11, <1>12
    DEF DaemonStep

\* A process that is gone has no part in the firewall, whatever becomes of it.
LEMMA GoneInOrder ==
  ASSUME NEW d \in Daemons, daemon[d].at \in Gone, daemon'[d] = daemon[d], InOrder(d)
  PROVE  InOrder(d)'
BY DEF InOrder, Gone, Opening, Undoing

\* A command calls iptables only when no process is where the rules matter.
LEMMA ShellFires ==
  ASSUME TypeOK, NEW c \in Shells, ShellStep(c), Sees(c), Ruled, \A d \in Daemons : InOrder(d)
  PROVE  Ruled' /\ \A d \in Daemons : InOrder(d)'
<1>t. jumps \in Nat /\ chain \in BOOLEAN
  BY DEF TypeOK
<1>1. CASE Clean(c)
  <2>1. UNCHANGED daemon /\ AllIn(Ended)
    BY <1>1 DEF Clean, Sees, AfterStop, Cleaning
  <2>2. Delete \/ Flush \/ Drop \/ UNCHANGED firewall
    BY <1>1 DEF Clean, Ignored, Refuses
  <2>3. Ruled'
    <3>1. CASE Delete
      BY <3>1, <1>t DEF Delete, Ruled, RulesBounded
    <3>2. CASE Flush \/ Drop \/ UNCHANGED firewall
      BY <3>2, <1>t DEF Flush, Drop, Ruled, RulesBounded, firewall
    <3> QED BY <2>2, <3>1, <3>2
  <2>4. ASSUME NEW d \in Daemons PROVE InOrder(d)'
    BY <2>1 DEF InOrder, AllIn, Ended, Gone, Opening, Undoing
  <2> QED BY <2>3, <2>4
<1>2. CASE ~Clean(c)
  <2>1. UNCHANGED firewall
    BY <1>2 DEF ShellStep, StartCheck, LaunchFails, Launch, Record, Poll, SelfTest, Ready, PollTimesOut,
       LastCheck, Failed, Find, Term, Wait, WaitKill, Remove, CleanFails, Cleaned, Refresh, RefreshFind,
       RefreshSignal, Install, InstallEnds
  <2>2. Ruled'
    BY <2>1 DEF Ruled, RulesBounded, firewall
  <2>3. ASSUME NEW d \in Daemons,
               \/ daemon'[d] = daemon[d]
               \/ daemon'[d].at \in {"dead", "stuck"}
               \/ daemon'[d].at = "forked" /\ ~daemon'[d].lease
               \/ daemon'[d].at = daemon[d].at /\ daemon'[d].lease = daemon[d].lease
        PROVE  InOrder(d)'
    BY <2>1, <2>3 DEF InOrder, Opening, Undoing, Open, firewall
  <2>4. CASE \E a \in Daemons : Launch(c, a)
    <3>1. PICK a \in Daemons : Launch(c, a)
      BY <2>4
    <3>2. /\ daemon[a].at = "unborn" /\ daemon'[a].at = "forked" /\ daemon'[a].lease = daemon[a].lease
          /\ \A e \in Daemons : e # a => daemon'[e] = daemon[e]
      BY <3>1, Moved DEF Launch
    <3>3. ~daemon[a].lease
      BY <3>2 DEF InOrder
    <3> QED BY <3>2, <3>3, <2>2, <2>3
  <2>5. CASE Term(c) \/ Wait(c) \/ RefreshSignal(c)
    <3>1. CASE sh[c].target \notin Daemons
      <4>1. UNCHANGED daemon
        BY <3>1, <2>5 DEF Term, Wait, RefreshSignal, IsDaemon, Signalled, Move, TypeOK
      <4> QED BY <4>1, <2>2, <2>3
    <3>2. CASE sh[c].target \in Daemons
      <4>1. PICK t \in Daemons : t = sh[c].target
        BY <3>2
      <4>2. \/ UNCHANGED daemon \/ Move(t, "stuck")
            \/ daemon' = Signalled(t, TRUE) \/ daemon' = Signalled(t, FALSE)
        BY <4>1, <2>5 DEF Term, Wait, RefreshSignal
      <4>3. /\ \A e \in Daemons : e # t => daemon'[e] = daemon[e]
            /\ \/ daemon'[t].at \in {"dead", "stuck"}
               \/ daemon'[t].at = daemon[t].at /\ daemon'[t].lease = daemon[t].lease
        BY <4>2, Moved, SignalMoves
      <4> QED BY <4>3, <2>2, <2>3
    <3> QED BY <3>1, <3>2
  <2>6. CASE ~(Term(c) \/ Wait(c) \/ RefreshSignal(c) \/ \E a \in Daemons : Launch(c, a))
    <3>1. UNCHANGED daemon
      BY <2>6 DEF ShellStep, StartCheck, LaunchFails, Record, Poll, SelfTest, Ready, PollTimesOut,
         LastCheck, Failed, Find, WaitKill, Remove, CleanFails, Clean, Cleaned, Refresh, RefreshFind,
         Install, InstallEnds
    <3> QED BY <3>1, <2>2, <2>3
  <2> QED BY <2>4, <2>5, <2>6
<1> QED BY <1>1, <1>2

-----------------------------------------------------------------------------
(* What a command says.                                                     *)

LEMMA DaemonTells ==
  ASSUME TypeOK, NEW c \in Shells, NEW d \in Daemons, DaemonStep(d) \/ Crash(d),
         Stops(c), Shuts(c), Truthful(c)
  PROVE  Shuts(c)' /\ Truthful(c)'
<1>1. ~AllIn(Gone) /\ UNCHANGED <<sh, said>>
  BY DaemonMoves DEF AllIn, Alive
<1> QED BY <1>1 DEF Stops, Shuts, Truthful, AfterStop, Cleaning

LEMMA ShellTells ==
  ASSUME TypeOK, NEW c \in Shells, ShellStep(c), Stops(c), Ruled, Shuts(c), Truthful(c)
  PROVE  Shuts(c)' /\ Truthful(c)'
<1> DEFINE Telling == {"idle", "cleanF", "cleanX", "cleaned", "lastCheck", "failed"}
           Good == {"stopped", "startFailed"}
<1>w. \A at : Go(c, at) => sh'[c].at = at /\ sh'[c].clean = sh[c].clean
  BY DEF TypeOK, Shell, Go
<1>r. \A result : StartReturns(c, result) => said'[c] = result /\ sh'[c].at \in {"signal", "idle"}
                                            /\ sh'[c].clean = sh[c].clean
  BY DEF TypeOK, Shell, StartReturns, Say
<1>t. /\ jumps \in Nat /\ chain \in BOOLEAN /\ failures \in Nat /\ sh[c].clean \in BOOLEAN
      /\ said[c] \in Results
  BY ControlAssumption DEF TypeOK, Shell
\* A command that neither cleans up nor returns has nothing to tell.
<1>a. ASSUME sh'[c].at \notin Telling PROVE Shuts(c)' /\ Truthful(c)'
  BY <1>a DEF Shuts, Truthful
<1>b. ASSUME sh'[c].at \in {"idle", "signal", "check"}, said'[c] \notin Good PROVE Shuts(c)' /\ Truthful(c)'
  BY <1>b DEF Shuts, Truthful
<1>1. CASE StartCheck(c) \/ LaunchFails(c) \/ Ready(c)
  <2>1. (sh'[c].at = "launch") \/ (said'[c] \in {"started", "incomplete"} /\ sh'[c].at \in {"signal", "idle"})
    BY <1>1, <1>w, <1>r DEF StartCheck, LaunchFails, Ready
  <2> QED BY <2>1, <1>a, <1>b
<1>2. ASSUME NEW d \in Daemons, Launch(c, d) PROVE Shuts(c)' /\ Truthful(c)'
  <2>1. sh'[c].at = "record"
    BY <1>2 DEF Launch, TypeOK, Shell
  <2> QED BY <2>1, <1>a
<1>3. CASE Record(c) \/ Poll(c) \/ SelfTest(c) \/ PollTimesOut(c) \/ Find(c)
  <2>1. sh'[c].at \in {"poll", "selftest", "ready", "find", "term", "remove"}
    BY <1>3, <1>w DEF Record, Poll, SelfTest, PollTimesOut, Find, TypeOK, Shell
  <2> QED BY <2>1, <1>a
<1>4. CASE LastCheck(c)
  <2>1. /\ sh[c].at = "lastCheck" /\ sh'[c].at \in {"term", "failed"} /\ sh'[c].clean = sh[c].clean
        /\ UNCHANGED <<firewall, failures>>
    BY <1>4 DEF LastCheck, TypeOK, Shell
  <2> QED BY <2>1 DEF Shuts, Truthful, Shut, firewall
<1>5. CASE Failed(c)
  <2>1. /\ sh[c].at = "failed" /\ sh'[c].at \in {"signal", "idle"} /\ sh'[c].clean = sh[c].clean
        /\ said'[c] = IF sh[c].clean THEN "startFailed" ELSE "incomplete"
        /\ launchFile' = None /\ UNCHANGED <<daemon, pidFile, lock, firewall, failures>>
    BY <1>5, <1>r DEF Failed
  <2>2. CASE sh[c].clean
    BY <2>1, <2>2 DEF Stops, AfterStop, Shuts, Truthful, Shut, firewall, NoFiles, AllIn
  <2>3. CASE ~sh[c].clean
    BY <2>1, <2>3, <1>b
  <2> QED BY <2>2, <2>3
<1>6. CASE Term(c) \/ Wait(c) \/ WaitKill(c) \/ Remove(c)
  <2>1. sh'[c].at \in {"wait", "waitKill", "cleanD", "remove"}
    <3>1. AfterKill(c) \in {"cleanD", "remove"}
      BY DEF AfterKill
    <3>2. CASE Term(c) \/ Wait(c)
      BY <3>1, <3>2, <1>w DEF Term, Wait
    <3>3. CASE WaitKill(c)
      BY <3>1, <3>3, <1>w DEF WaitKill, TypeOK, Shell
    <3>4. CASE Remove(c)
      BY <3>4, <1>w DEF Remove
    <3> QED BY <1>6, <3>2, <3>3, <3>4
  <2> QED BY <2>1, <1>a
<1>7. CASE CleanFails(c)
  <2>1. sh'[c].at = "cleaned" /\ ~sh'[c].clean
    BY <1>7 DEF CleanFails, TypeOK, Shell
  <2> QED BY <2>1 DEF Shuts, Truthful
<1>8. CASE Clean(c)
  <2>0. UNCHANGED said
    BY <1>8 DEF Clean
  <2>1. CASE sh[c].at = "cleanD" /\ Delete /\ Sound /\ UNCHANGED sh
    BY <2>1 DEF Shuts, Truthful
  <2>2. CASE sh[c].at = "cleanD" /\ Refuses(jumps > 0) /\ Go(c, "cleanF")
    <3>1. failures' = 0 => ~(jumps > 0) /\ UNCHANGED firewall
      BY <2>2, <1>t DEF Refuses, Flake
    <3> QED BY <2>2, <3>1, <1>w, <1>t DEF Shuts, Truthful, firewall
  <2>3. CASE sh[c].at = "cleanF" /\ Ignored(Flush, chain) /\ Go(c, "cleanX")
    <3>1. failures' = 0 => failures = 0 /\ jumps' = jumps /\ rules' = {}
      BY <2>3, <1>t DEF Ignored, Refuses, Flake, Sound, Flush, firewall, Ruled
    <3> QED BY <2>3, <3>1, <1>w DEF Shuts, Truthful
  <2>4. CASE sh[c].at = "cleanX" /\ Ignored(Drop, DropPossible) /\ Go(c, "cleaned")
    <3>1. failures' = 0 => failures = 0
      BY <2>4, <1>t DEF Ignored, Refuses, Flake, Sound
    <3>2. failures' = 0 /\ jumps = 0 /\ rules = {} => Shut'
      BY <2>4, <1>t DEF Ignored, Refuses, Flake, Sound, Drop, DropPossible, firewall, Shut
    <3> QED BY <2>4, <3>1, <3>2, <1>w DEF Shuts, Truthful
  <2> QED BY <1>8, <2>1, <2>2, <2>3, <2>4 DEF Clean
<1>9. CASE Cleaned(c)
  <2>1. sh[c].at = "cleaned" /\ UNCHANGED <<daemon, pidFiles, firewall, failures>>
    BY <1>9 DEF Cleaned
  <2>2. CASE sh'[c].at # "idle"
    <3>1. sh'[c].clean = sh[c].clean /\ sh'[c].at \in {"failed", "lastCheck", "installing"}
      BY <1>9, <2>2, <1>w DEF Cleaned
    <3> QED BY <2>1, <2>2, <3>1 DEF Shuts, Truthful, Shut, firewall
  <2>3. CASE sh'[c].at = "idle"
    <3>1. said'[c] = IF sh[c].clean THEN "stopped" ELSE "incomplete"
      BY <1>9, <2>3, <1>w DEF Cleaned, Say, TypeOK
    <3>2. CASE sh[c].clean
      BY <2>1, <2>3, <3>2 DEF Stops, AfterStop, Shuts, Truthful, Shut, firewall, pidFiles, NoFiles, AllIn
    <3>3. CASE ~sh[c].clean
      BY <2>3, <3>1, <3>3, <1>b
    <3> QED BY <3>2, <3>3
  <2> QED BY <2>2, <2>3
<1>10. CASE Refresh(c) \/ Install(c)
  <2>1. sh'[c].at \in {"signal", "check", "find", "installing"}
    BY <1>10, <1>w DEF Refresh, Install, TypeOK, Shell
  <2> QED BY <2>1, <1>a
<1>11. CASE RefreshFind(c) \/ RefreshSignal(c)
  <2>1. sh'[c].at \in {"usr1", "idle"} /\ UNCHANGED said /\ sh[c].at # "idle"
    <3>1. CASE RefreshFind(c)
      BY <3>1, <1>w DEF RefreshFind, TypeOK, Shell
    <3>2. CASE RefreshSignal(c)
      BY <3>2, <1>w DEF RefreshSignal
    <3> QED BY <1>11, <3>1, <3>2
  <2>2. said'[c] \notin Good
    BY <2>1 DEF Stops
  <2> QED BY <2>1, <2>2, <1>a, <1>b
<1>12. ASSUME NEW ok \in BOOLEAN, InstallEnds(c, ok) PROVE Shuts(c)' /\ Truthful(c)'
  <2>1. sh'[c].at \in {"check", "idle"} /\ said'[c] \in {"installed", "nothing"}
    <3>1. said'[c] \in {"installed", "nothing"}
      BY <1>12 DEF InstallEnds, Say, TypeOK
    <3>2. \E at \in {"check", "idle"} : Go(c, at)
      BY <1>12 DEF InstallEnds
    <3> QED BY <3>1, <3>2, <1>w
  <2> QED BY <2>1, <1>b
<1> QED BY <1>1, <1>2, <1>3, <1>4, <1>5, <1>6, <1>7, <1>8, <1>9, <1>10, <1>11, <1>12 DEF ShellStep

LEMMA BeginTells ==
  ASSUME TypeOK, NEW c \in Shells, NEW job \in Jobs, Begin(c, job)
  PROVE  Shuts(c)' /\ Truthful(c)'
<1>1. sh'[c].at \in {"check", "find", "refresh", "install"}
  BY DEF Begin, TypeOK, Fresh, Jobs
<1> QED BY <1>1 DEF Shuts, Truthful

LEMMA InitControl == Init => ControlInv
<1> SUFFICES ASSUME Init PROVE ControlInv
  OBVIOUS
<1>1. TypeOK
  BY InitTyped
<1>2. \A d \in Daemons : daemon[d].at = "unborn" /\ ~daemon[d].lease
  BY DEF Init, Unborn
<1>3. AllIn(Gone) /\ AllIn(Settled)
  BY <1>2 DEF AllIn, Gone, Settled
<1>4. OneDaemon /\ HolderLocks
  BY <1>2 DEF OneDaemon, HolderLocks, Alive, Gone, Holding
<1>5. ASSUME NEW c \in Shells
      PROVE  Sees(c) /\ Starts(c) /\ Flags(c) /\ Stops(c) /\ Shuts(c) /\ Truthful(c)
  <2>1. /\ sh[c].at = "idle" /\ ~sh[c].failing /\ ~sh[c].last /\ said[c] = "nothing"
    BY DEF Init, Fresh
  <2>2. Sees(c)
    BY <2>1, <1>3 DEF Sees, Calm, Stopping, Clear, AfterStop, Cleaning
  <2>3. Starts(c) /\ Flags(c)
    BY <2>1, <1>2 DEF Starts, Flags
  <2>4. Stops(c) /\ Shuts(c) /\ Truthful(c)
    BY <2>1 DEF Stops, Shuts, Truthful, AfterStop, Cleaning
  <2> QED BY <2>2, <2>3, <2>4
<1>6. Ruled
  BY DEF Init, Ruled, RulesBounded
<1>7. \A d \in Daemons : InOrder(d)
  BY <1>2 DEF InOrder
<1> QED BY <1>1, <1>4, <1>5, <1>6, <1>7 DEF ControlInv

LEMMA ControlStep ==
  ASSUME OneCommand, ControlInv, [Next]_vars
  PROVE  ControlInv'
<1> USE DEF ControlInv
<1>1. CASE UNCHANGED vars
  <2>1. TypeOK'
    BY <1>1 DEF TypeOK, vars, pidFiles, firewall
  <2>2. OneDaemon' /\ HolderLocks'
    BY <1>1 DEF OneDaemon, HolderLocks, Alive, vars, pidFiles
  <2>3. ASSUME NEW c \in Shells
        PROVE  (Sees(c) /\ Starts(c) /\ Flags(c) /\ Stops(c) /\ Shuts(c) /\ Truthful(c))'
    BY <1>1 DEF Sees, Starts, Flags, Stops, Shuts, Truthful, AllIn, Only, Alive, NoFiles, Shut, vars,
       pidFiles, firewall
  <2>4. Ruled' /\ \A d \in Daemons : InOrder(d)'
    BY <1>1 DEF Ruled, RulesBounded, InOrder, Open, vars, firewall
  <2> QED BY <2>1, <2>2, <2>3, <2>4
<1>2. ASSUME NEW d \in Daemons, DaemonStep(d) \/ Crash(d) PROVE ControlInv'
  <2>1. TypeOK' /\ OneDaemon' /\ HolderLocks'
    BY <1>2, DaemonTyped, DaemonKeepsLock
  <2>2. ASSUME NEW c \in Shells
        PROVE  (Sees(c) /\ Starts(c) /\ Flags(c) /\ Stops(c) /\ Shuts(c) /\ Truthful(c))'
    BY <1>2, DaemonSeen, DaemonTells
  <2>3. Ruled' /\ InOrder(d)'
    BY <1>2, DaemonFires
  <2>4. ASSUME NEW e \in Daemons, e # d PROVE InOrder(e)'
    <3>1. daemon[e].at \in Gone /\ daemon'[e] = daemon[e]
      BY <1>2, <2>4, DaemonMoves DEF OneDaemon, Alive
    <3> QED BY <3>1, GoneInOrder
  <2> QED BY <2>1, <2>2, <2>3, <2>4
<1>3. ASSUME NEW c \in Shells, ShellStep(c) PROVE ControlInv'
  <2>1. TypeOK' /\ OneDaemon' /\ HolderLocks' /\ Sees(c)' /\ Starts(c)' /\ Flags(c)' /\ Stops(c)'
    BY <1>3, ShellTyped, ShellKeeps
  <2>2. Shuts(c)' /\ Truthful(c)'
    BY <1>3, ShellTells
  <2>3. Ruled' /\ \A d \in Daemons : InOrder(d)'
    BY <1>3, ShellFires
  <2>4. \A b \in Shells : b = c
    BY DEF OneCommand
  <2> QED BY <2>1, <2>2, <2>3, <2>4
<1>4. ASSUME NEW c \in Shells, NEW job \in Jobs, Begin(c, job) PROVE ControlInv'
  <2>1. TypeOK' /\ OneDaemon' /\ HolderLocks' /\ Sees(c)' /\ Starts(c)' /\ Flags(c)' /\ Stops(c)'
    BY <1>4, BeginTyped, BeginSeen
  <2>2. Shuts(c)' /\ Truthful(c)'
    BY <1>4, BeginTells
  <2>3. Ruled' /\ \A d \in Daemons : InOrder(d)'
    BY <1>4 DEF Begin, Ruled, RulesBounded, InOrder, Open, firewall
  <2>4. \A b \in Shells : b = c
    BY DEF OneCommand
  <2> QED BY <2>1, <2>2, <2>3, <2>4
<1> QED BY <1>1, <1>2, <1>3, <1>4 DEF Next

-----------------------------------------------------------------------------
(* The theorems.                                                            *)

LEMMA ControlInvariant == ASSUME OneCommand PROVE Spec => []ControlInv
<1>1. ControlInv /\ [Next]_vars => ControlInv'
  BY ControlStep
<1> QED BY InitControl, <1>1, PTL DEF Spec

\* At most one rule jumps to the chain, and none to a chain that is gone,
\* however often a process dies or iptables fails: cleanupFirewallWith and
\* OpenTemporaryFirewall of however many runs.
THEOREM RulesNeverPileUp == ASSUME OneCommand PROVE Spec => []RulesBounded
<1>1. Spec => []ControlInv
  BY ControlInvariant
<1>2. ControlInv => RulesBounded
  BY DEF ControlInv, Ruled
<1> QED BY <1>1, <1>2, PTL

\* The rules of a daemon that serves with its lease are there: no cleanup of an
\* earlier process or of a command comes late enough to take them away.
THEOREM NobodyTakesTheLease == ASSUME OneCommand PROVE Spec => []LeaseHolds
<1>1. Spec => []ControlInv
  BY ControlInvariant
<1>2. ControlInv => LeaseHolds
  BY DEF ControlInv, InOrder, LeaseHolds
<1> QED BY <1>1, <1>2, PTL

\* Between commands a daemon that holds the singleton is the one daemon_pid
\* finds: no stop or failed start removes the files of a process that lives.
THEOREM HolderIsFound == ASSUME OneCommand PROVE Spec => []NoOrphan
<1>1. Spec => []ControlInv
  BY ControlInvariant
<1>2. ControlInv => NoOrphan
  <2> SUFFICES ASSUME ControlInv, NEW d \in Daemons,
                      daemon[d].at \notin Gone \cup {"forked", "loading", "release"}
               PROVE  DaemonPid = d
    BY DEF NoOrphan
  <2>1. IsDaemon(d)
    BY ControlAssumption DEF IsDaemon
  <2> QED BY <2>1, Found DEF ControlInv
<1> QED BY <1>1, <1>2, PTL

\* After "stopped", and after a start that failed and says so, no process is
\* left, no pid file, and unless an iptables call failed no rule.
THEOREM StopIsTruthful == ASSUME OneCommand PROVE Spec => []StopTruthful
<1>1. Spec => []ControlInv
  BY ControlInvariant
<1>2. ControlInv => StopTruthful
  BY DEF ControlInv, Truthful, StopTruthful, AllIn, NoFiles
<1> QED BY <1>1, <1>2, PTL

\* install_confirm replaces files only after every process is gone.
THEOREM InstallsAlone == ASSUME OneCommand PROVE Spec => []InstallAlone
<1>1. Spec => []ControlInv
  BY ControlInvariant
<1>2. ControlInv => InstallAlone
  BY DEF ControlInv, Sees, Clear, InstallAlone, AllIn
<1> QED BY <1>1, <1>2, PTL

\* The USR1 of refresh_devices never meets a process that has not set up its
\* signal handler yet, which it would end.
THEOREM RefreshNeverKills == ASSUME OneCommand PROVE Spec => []RefreshHarmless
<1>1. Spec => []ControlInv
  BY ControlInvariant
<1>2. ControlInv => RefreshHarmless
  BY DEF ControlInv, Sees, Calm, RefreshHarmless, AllIn, Settled, Gone, Closing
<1> QED BY <1>1, <1>2, PTL
=============================================================================
