----------------------------- MODULE Application -----------------------------
(***************************************************************************)
(* Starting the program (application.cpp, daemon.cpp, and the pid file of  *)
(* ext.cpp): init() looks for a server that runs, start_daemon() runs      *)
(* main() in this process or in a child that it restarts, main() writes    *)
(* the pid file, run_fiber() binds the servers.                            *)
(*                                                                         *)
(* Several launches of one configuration share the pid file and address.   *)
(***************************************************************************)
EXTENDS Naturals, FiniteSets

CONSTANTS
    Launches,     \* times somebody starts the program
    MaxCrashes    \* bound: crashes, and failures of fork and of the disk

\* "" stands for nobody.
ASSUME LaunchNames == "" \notin Launches

VARIABLES
    launch,       \* each launch: as daemon or not, and where its first process is
    main,         \* where its process in main() is
    forks,        \* its children so far: tells their pids apart
    pidFile,      \* the pid in the file, NoPid when there is none
    bound,        \* the launch whose process has the address
    crashes,
    contested     \* did a process write the file while another launch was up?

appVars == <<launch, main, forks, pidFile, bound, crashes, contested>>

NoPid == [launch |-> "", fork |-> 0]
NotYet == [at |-> "none", daemon |-> FALSE, status |-> 0]

AppInit ==
    /\ launch = [p \in Launches |-> NotYet]
    /\ main = [p \in Launches |-> "none"]
    /\ forks = [p \in Launches |-> 0]
    /\ pidFile = NoPid /\ bound = "" /\ crashes = 0 /\ contested = FALSE

Running(p) == main[p] \in {"main", "truncated", "bind", "serving"}
Pid(p) == [launch |-> p, fork |-> forks[p]]

\* kill(pid, 0) also finds a child that has ended and was not waited for.
IsRunningPidfile ==
    /\ pidFile # NoPid
    /\ pidFile.fork = forks[pidFile.launch]
    /\ Running(pidFile.launch) \/ main[pidFile.launch] \in {"crashed", "exited"}

\* init() ends at a running server; otherwise the work path is made.
Application_init(p, daemon) ==
    /\ launch[p].at = "none"
    /\ launch' = [launch EXCEPT ![p] = [at |-> IF IsRunningPidfile THEN "refused" ELSE "init",
                                        daemon |-> daemon, status |-> 0]]
    /\ UNCHANGED <<main, forks, pidFile, bound, crashes, contested>>

\* real_start() in this process.
real_start(p) ==
    /\ launch[p].at = "init" /\ ~launch[p].daemon
    /\ launch' = [launch EXCEPT ![p].at = "main"]
    /\ main' = [main EXCEPT ![p] = "main"]
    /\ forks' = [forks EXCEPT ![p] = @ + 1]
    /\ UNCHANGED <<pidFile, bound, crashes, contested>>

\* real_daemon() forks at the head of its loop.
fork(p) ==
    /\ launch[p].at \in {"init", "loop"} /\ launch[p].daemon
    /\ launch' = [launch EXCEPT ![p].at = "wait"]
    /\ main' = [main EXCEPT ![p] = "main"]
    /\ forks' = [forks EXCEPT ![p] = @ + 1]
    /\ UNCHANGED <<pidFile, bound, crashes, contested>>

ForkFails(p) ==
    /\ launch[p].at \in {"init", "loop"} /\ launch[p].daemon
    /\ crashes < MaxCrashes /\ crashes' = crashes + 1
    /\ launch' = [launch EXCEPT ![p].at = "failed"]
    /\ UNCHANGED <<main, forks, pidFile, bound, contested>>

\* A loop that ends with its first child.
waitpid_Ends(p) ==
    /\ launch[p].at = "wait" /\ main[p] \in {"crashed", "exited"}
    /\ launch' = [launch EXCEPT ![p].at = "ended",
                                ![p].status = IF main[p] = "crashed" THEN 1 ELSE 0]
    /\ main' = [main EXCEPT ![p] = "none"]
    /\ UNCHANGED <<forks, pidFile, bound, crashes, contested>>

\* Any status but 0 is a crash, after which the loop goes on.
waitpid(p) ==
    /\ launch[p].at = "wait" /\ main[p] \in {"crashed", "exited"}
    /\ launch' = [launch EXCEPT ![p].at = IF main[p] = "crashed" THEN "sleep" ELSE "ended",
                                ![p].status = IF main[p] = "crashed" THEN 1 ELSE 0]
    /\ main' = [main EXCEPT ![p] = "none"]
    /\ UNCHANGED <<forks, pidFile, bound, crashes, contested>>

\* sleep(restart_interval).
Slept(p) ==
    /\ launch[p].at = "sleep"
    /\ launch' = [launch EXCEPT ![p].at = "loop"]
    /\ UNCHANGED <<main, forks, pidFile, bound, crashes, contested>>

\* main() opens the pid file, which empties it, or returns 0.
OpenPidFile(p) ==
    /\ main[p] = "main"
    /\ \/ /\ main' = [main EXCEPT ![p] = "truncated"]
          /\ pidFile' = NoPid
          /\ contested' = (contested \/ \E q \in Launches \ {p} :
                             Running(q) \/ launch[q].at \in {"wait", "sleep", "loop"})
          /\ crashes' = crashes
       \/ /\ crashes < MaxCrashes /\ crashes' = crashes + 1
          /\ main' = [main EXCEPT ![p] = "exited"]
          /\ UNCHANGED <<pidFile, contested>>
    /\ UNCHANGED <<launch, forks, bound>>

\* A main that writes the pid of the first process into the file.
WritePid_Parent(p) ==
    /\ main[p] = "truncated"
    /\ main' = [main EXCEPT ![p] = "bind"]
    /\ pidFile' = [launch |-> p, fork |-> 1]
    /\ UNCHANGED <<launch, forks, bound, crashes, contested>>

WritePid(p) ==
    /\ main[p] = "truncated"
    /\ main' = [main EXCEPT ![p] = "bind"]
    /\ pidFile' = Pid(p)
    /\ UNCHANGED <<launch, forks, bound, crashes, contested>>

\* A run_fiber that goes on when bind fails.
run_fiber_Ignores(p) ==
    /\ main[p] = "bind"
    /\ main' = [main EXCEPT ![p] = "serving"] /\ bound' = p
    /\ UNCHANGED <<launch, forks, pidFile, crashes, contested>>

\* run_fiber() binds and starts the servers, or calls _exit(0).
run_fiber(p) ==
    /\ main[p] = "bind"
    /\ IF bound = "" THEN main' = [main EXCEPT ![p] = "serving"] /\ bound' = p
       ELSE main' = [main EXCEPT ![p] = "exited"] /\ bound' = bound
    /\ UNCHANGED <<launch, forks, pidFile, crashes, contested>>

\* The process is killed, or runs into an assertion; the kernel closes all.
Crash(p) ==
    /\ Running(p) /\ crashes < MaxCrashes /\ crashes' = crashes + 1
    /\ main' = [main EXCEPT ![p] = IF launch[p].daemon THEN "crashed" ELSE "none"]
    /\ bound' = IF bound = p THEN "" ELSE bound
    /\ UNCHANGED <<launch, forks, pidFile, contested>>

AppStep(p) ==
    \/ real_start(p) \/ fork(p) \/ waitpid(p) \/ Slept(p)
    \/ OpenPidFile(p) \/ WritePid(p) \/ run_fiber(p)

AppNext ==
    \E p \in Launches :
        \/ \E daemon \in BOOLEAN : Application_init(p, daemon)
        \/ AppStep(p) \/ ForkFails(p) \/ Crash(p)

\* The processes run.
AppSpec == AppInit /\ [][AppNext]_appVars /\ \A p \in Launches : WF_appVars(AppStep(p))

-----------------------------------------------------------------------------
\* Two processes never serve at once: what the pid file lets through, a check
\* long before the write, is caught by the address at bind().
OneServes == Cardinality({p \in Launches : main[p] = "serving"}) <= 1

\* The pid file names the process that serves, across crashes and restarts,
\* unless a second launch came up beside it: that one overwrites the file
\* before it fails to bind.
PidNamesServer ==
    \A p \in Launches : main[p] = "serving" /\ ~contested => pidFile = Pid(p)

\* A daemon whose child has crashed serves again, unless fork fails or the
\* next child gives up with status 0: a pid file it cannot open, or an address
\* that was taken meanwhile.
ServesAgain ==
    \A p \in Launches :
        (main[p] = "crashed") ~>
            \/ main[p] = "serving"
            \/ launch[p].at = "failed"
            \/ launch[p].at = "ended" /\ launch[p].status = 0

\* At most one process serves, and the pid file names it (application.cpp
\* 80-130, daemon.cpp 25-62).
ServerKnown == OneServes /\ PidNamesServer
=============================================================================
