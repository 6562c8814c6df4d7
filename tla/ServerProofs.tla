---------------------------- MODULE ServerProofs ----------------------------
(***************************************************************************)
(* The program that is launched, and the chat server it runs.  Every       *)
(* logger follows the stored configuration, and that follows its file; one *)
(* process serves at most and the pid file names it, for any number of     *)
(* launches and crashes; the map of chat sessions is right for any number  *)
(* of connections and names when the handlers share one thread             *)
(* (application.cpp:122).                                                  *)
(***************************************************************************)
EXTENDS Application, Chat, Config, TLAPS

-----------------------------------------------------------------------------
(* Config.  What a file says (FromStr, Throws) and what an entry makes of a *)
(* logger (Configured) stay unexpanded: the argument holds for any of them.*)

\* The values a load may carry.
FileTexts == FileContents \cup {<<>>}
LogValues == {FromStr(c) : c \in FileTexts} \cup {<<>>}

LoadRecord ==
    [at : {"none", "stat", "read", "set", "store"}, time : Nat, val : LogValues, force : BOOLEAN]

ConfigTypeOK ==
    /\ confFile \in [content : FileTexts, mtime : Nat]
    /\ recorded \in Nat
    /\ load \in [Loaders -> LoadRecord]

\* Loads that never overlapped: one at a time is past its lstat.
LoneLoad ==
    ~overlap => \A k, l \in Loaders : load[k].at # "none" /\ load[l].at # "none" => k = l

\* The loggers lg are what the value v says.
Follow(lg, v) ==
    \A n \in Names :
        IF n \in DOMAIN v THEN lg[n] = Configured(v[n]) ELSE lg[n].appenders = <<>>

\* The loggers follow the stored value, or the one that is about to be stored.
Following ==
    ~overlap /\ ~dead =>
        /\ \A l \in Loaders : load[l].at = "store" => Follow(logger, load[l].val)
        /\ (\A l \in Loaders : load[l].at # "store") => Follow(logger, m_val)

\* No load knows of a time the file does not have yet.
NoneAhead ==
    /\ recorded <= confFile.mtime
    /\ \A l \in Loaders : load[l].at # "none" => load[l].time <= confFile.mtime

\* What a load has read is what the file says, if the file still has the time
\* that was recorded for it.
ReadRight ==
    ~overlap /\ ~sameSecond =>
        \A l \in Loaders :
            /\ load[l].at \in {"read", "set", "store"} => load[l].time = recorded
            /\ load[l].at \in {"set", "store"} /\ recorded = confFile.mtime =>
                  load[l].val = FromStr(confFile.content)

\* As SkippedIsLoaded, also while a load has only called lstat.
StoredRight ==
    /\ recorded = confFile.mtime /\ \A l \in Loaders : load[l].at \in {"none", "stat"}
    /\ ~sameSecond /\ ~overlap /\ ~Throws(confFile.content)
    => m_val = FromStr(confFile.content)

\* The listener that met a null appender leaves its load where it is.
DeadLoad == dead => \E l \in Loaders : load[l].at = "store"

ConfigInv ==
    ConfigTypeOK /\ LoneLoad /\ Following /\ NoneAhead /\ ReadRight /\ StoredRight /\ DeadLoad

\* The listener of ready.h: loggers that follow the old value follow the new one.
LEMMA ListenerFollows ==
    ASSUME NEW lg, NEW old, NEW new, Follow(lg, old)
    PROVE  Follow(LogInit(old, new, lg), new)
<1> SUFFICES ASSUME NEW n \in Names
             PROVE  LET x == LogInit(old, new, lg)[n]
                    IN IF n \in DOMAIN new THEN x = Configured(new[n]) ELSE x.appenders = <<>>
  BY DEF Follow
<1>1. IF n \in DOMAIN old THEN lg[n] = Configured(old[n]) ELSE lg[n].appenders = <<>>
  BY DEF Follow
<1>2. CASE n \in DOMAIN new /\ n \notin DOMAIN old
  BY <1>2 DEF LogInit
<1>3. CASE n \in DOMAIN new /\ n \in DOMAIN old
  BY <1>1, <1>3 DEF LogInit
<1>4. CASE n \notin DOMAIN new /\ n \in DOMAIN old
  BY <1>4 DEF LogInit, UNKNOWN
<1>5. CASE n \notin DOMAIN new /\ n \notin DOMAIN old
  BY <1>1, <1>5 DEF LogInit
<1> QED
  BY <1>2, <1>3, <1>4, <1>5

LEMMA NoLoadTyped == NoLoad \in LoadRecord
BY DEF NoLoad, LoadRecord, LogValues

LEMMA ConfigStarts == ConfigInit => ConfigInv
<1> SUFFICES ASSUME ConfigInit PROVE ConfigInv
  OBVIOUS
<1>1. \A l \in Loaders : load[l] = NoLoad
  BY DEF ConfigInit
<1>2. ConfigTypeOK
  BY DEF ConfigInit, ConfigTypeOK, LoadRecord, NoLoad, FileTexts, LogValues
<1>3. LoneLoad /\ ReadRight
  BY <1>1 DEF NoLoad, LoneLoad, ReadRight
<1>4. Following
  BY <1>1 DEF ConfigInit, NoLoad, NoLogs, Following, Follow
<1>5. NoneAhead /\ StoredRight /\ DeadLoad
  BY <1>1 DEF ConfigInit, NoLoad, NoneAhead, StoredRight, DeadLoad
<1> QED
  BY <1>2, <1>3, <1>4, <1>5 DEF ConfigInv

\* A load that goes from one place to another and changes nothing else.
LEMMA Lstats ==
    ASSUME ConfigInv, NEW l \in Loaders, NEW force \in BOOLEAN, Lstat(l, force)
    PROVE  ConfigInv'
<1>1. /\ load' \in [Loaders -> LoadRecord]
      /\ load[l].at = "none" /\ load'[l].at = "stat" /\ load'[l].time = confFile.mtime
      /\ \A k \in Loaders \ {l} : load'[k] = load[k]
      /\ UNCHANGED <<confFile, recorded, m_val, logger, edits, sameSecond, dead>>
  BY DEF Lstat, ConfigInv, ConfigTypeOK, LoadRecord, LogValues
<1>2. /\ ~overlap' => ~overlap /\ \A k \in Loaders \ {l} : load[k].at = "none"
      /\ ConfigTypeOK /\ LoneLoad /\ Following /\ NoneAhead /\ ReadRight /\ StoredRight /\ DeadLoad
  BY DEF Lstat, ConfigInv
<1>3. ConfigTypeOK' /\ NoneAhead' /\ DeadLoad'
  BY <1>1, <1>2 DEF ConfigTypeOK, NoneAhead, DeadLoad
<1>4. LoneLoad'
  BY <1>1, <1>2 DEF LoneLoad
<1>5. Following'
  BY <1>1, <1>2 DEF Following
<1>6. ReadRight' /\ StoredRight'
  BY <1>1, <1>2 DEF ReadRight, StoredRight
<1> QED
  BY <1>3, <1>4, <1>5, <1>6 DEF ConfigInv

LEMMA Records ==
    ASSUME ConfigInv, NEW l \in Loaders, Record(l)
    PROVE  ConfigInv'
<1>0. /\ load[l].at = "stat" /\ ~dead /\ \A k \in Loaders \ {l} : load'[k] = load[k]
      /\ UNCHANGED <<confFile, m_val, logger, edits, sameSecond, overlap, dead>>
      /\ ConfigTypeOK /\ LoneLoad /\ Following /\ NoneAhead /\ ReadRight /\ StoredRight /\ DeadLoad
      /\ load[l].time \in Nat /\ load[l].time <= confFile.mtime
  BY DEF Record, ConfigInv, ConfigTypeOK, NoneAhead, LoadRecord
<1>1. /\ load' \in [Loaders -> LoadRecord]
      /\ \/ load'[l].at = "none" /\ recorded' = recorded
         \/ load'[l].at = "read" /\ load'[l].time = load[l].time /\ recorded' = load[l].time
  <2>1. CASE ~load[l].force /\ recorded = load[l].time
    <3>1. load' = [load EXCEPT ![l] = NoLoad] /\ recorded' = recorded
      BY <2>1 DEF Record
    <3> QED
      BY <1>0, <3>1, NoLoadTyped DEF ConfigTypeOK, NoLoad
  <2>2. CASE ~(~load[l].force /\ recorded = load[l].time)
    <3>1. load' = [load EXCEPT ![l].at = "read"] /\ recorded' = load[l].time
      BY <2>2 DEF Record
    <3> QED
      BY <1>0, <3>1 DEF ConfigTypeOK, LoadRecord
  <2> QED
    BY <2>1, <2>2
<1>2. ConfigTypeOK' /\ NoneAhead' /\ DeadLoad'
  BY <1>0, <1>1 DEF ConfigTypeOK, NoneAhead, DeadLoad
<1>3. LoneLoad'
  BY <1>0, <1>1 DEF LoneLoad
<1>4. Following'
  BY <1>0, <1>1 DEF Following
<1>5. ReadRight'
  BY <1>0, <1>1 DEF ReadRight, LoneLoad
<1>6. StoredRight'
  BY <1>0, <1>1 DEF StoredRight
<1> QED
  BY <1>2, <1>3, <1>4, <1>5, <1>6 DEF ConfigInv

LEMMA Reads ==
    ASSUME ConfigInv, NEW l \in Loaders, LoadFile(l)
    PROVE  ConfigInv'
<1>0. /\ load[l].at = "read" /\ ~dead /\ \A k \in Loaders \ {l} : load'[k] = load[k]
      /\ UNCHANGED <<confFile, recorded, m_val, logger, edits, sameSecond, overlap, dead>>
      /\ ConfigTypeOK /\ LoneLoad /\ Following /\ NoneAhead /\ ReadRight /\ StoredRight /\ DeadLoad
      /\ FromStr(confFile.content) \in LogValues
  BY DEF LoadFile, ConfigInv, ConfigTypeOK, LogValues
<1>1. /\ load' \in [Loaders -> LoadRecord]
      /\ \/ load'[l].at = "none" /\ Throws(confFile.content)
         \/ load'[l].at = "set" /\ load'[l].time = load[l].time /\ load'[l].val = FromStr(confFile.content)
  BY <1>0, NoLoadTyped DEF LoadFile, ConfigTypeOK, LoadRecord, NoLoad
<1>2. ConfigTypeOK' /\ NoneAhead' /\ DeadLoad'
  BY <1>0, <1>1 DEF ConfigTypeOK, NoneAhead, DeadLoad
<1>3. LoneLoad'
  BY <1>0, <1>1 DEF LoneLoad
<1>4. Following'
  BY <1>0, <1>1 DEF Following
<1>5. ReadRight'
  BY <1>0, <1>1 DEF ReadRight, LoneLoad
<1>6. StoredRight'
  BY <1>0, <1>1 DEF StoredRight
<1> QED
  BY <1>2, <1>3, <1>4, <1>5, <1>6 DEF ConfigInv

LEMMA Listens ==
    ASSUME ConfigInv, NEW l \in Loaders, setValue(l)
    PROVE  ConfigInv'
<1>0. /\ load[l].at = "set" /\ ~dead /\ \A k \in Loaders \ {l} : load'[k] = load[k]
      /\ UNCHANGED <<confFile, recorded, m_val, edits, sameSecond, overlap>>
      /\ ConfigTypeOK /\ LoneLoad /\ Following /\ NoneAhead /\ ReadRight /\ StoredRight /\ DeadLoad
  BY DEF setValue, ConfigInv, ConfigTypeOK
<1>1. /\ load' \in [Loaders -> LoadRecord]
      /\ \/ load'[l].at = "none" /\ load[l].val = m_val /\ UNCHANGED <<logger, dead>>
         \/ /\ load'[l].at = "store" /\ load'[l].time = load[l].time /\ load'[l].val = load[l].val
            /\ ~dead' => logger' = LogInit(m_val, load[l].val, logger)
  <2>1. CASE load[l].val = m_val
    <3>1. load' = [load EXCEPT ![l] = NoLoad] /\ UNCHANGED <<logger, dead>>
      BY <2>1 DEF setValue
    <3> QED
      BY <1>0, <2>1, <3>1, NoLoadTyped DEF ConfigTypeOK, NoLoad
  <2>2. CASE load[l].val # m_val
    <3>1. /\ load' = [load EXCEPT ![l].at = "store"]
          /\ ~dead' => logger' = LogInit(m_val, load[l].val, logger)
      BY <2>2 DEF setValue
    <3> QED
      BY <1>0, <3>1 DEF ConfigTypeOK, LoadRecord
  <2> QED
    BY <2>1, <2>2
<1>2. ConfigTypeOK' /\ NoneAhead' /\ DeadLoad'
  BY <1>0, <1>1 DEF ConfigTypeOK, NoneAhead, DeadLoad
<1>3. LoneLoad'
  BY <1>0, <1>1 DEF LoneLoad
<1>4. Following'
  <2> SUFFICES ASSUME ~overlap, ~dead' PROVE
         /\ \A k \in Loaders : load'[k].at = "store" => Follow(logger', load'[k].val)
         /\ (\A k \in Loaders : load'[k].at # "store") => Follow(logger', m_val)
    BY <1>0 DEF Following
  <2>1. \A k \in Loaders \ {l} : load[k].at = "none" /\ load'[k].at = "none"
    BY <1>0 DEF LoneLoad
  <2>2. Follow(logger, m_val)
    BY <1>0, <2>1 DEF Following
  <2>3. CASE load'[l].at = "none"
    BY <1>0, <1>1, <2>1, <2>2, <2>3
  <2>4. CASE load'[l].at = "store"
    <3>1. Follow(logger', load[l].val)
      BY <1>1, <2>2, <2>4, ListenerFollows
    <3> QED
      BY <1>1, <2>1, <2>4, <3>1
  <2> QED
    BY <1>1, <2>3, <2>4
<1>5. ReadRight'
  BY <1>0, <1>1 DEF ReadRight, LoneLoad
<1>6. StoredRight'
  BY <1>0, <1>1 DEF StoredRight, ReadRight
<1> QED
  BY <1>2, <1>3, <1>4, <1>5, <1>6 DEF ConfigInv

LEMMA Stores ==
    ASSUME ConfigInv, NEW l \in Loaders, StoreValue(l)
    PROVE  ConfigInv'
<1>0. /\ load[l].at = "store" /\ ~dead /\ \A k \in Loaders \ {l} : load'[k] = load[k]
      /\ load'[l].at = "none" /\ load' \in [Loaders -> LoadRecord] /\ m_val' = load[l].val
      /\ UNCHANGED <<confFile, recorded, logger, edits, sameSecond, overlap, dead>>
      /\ ConfigTypeOK /\ LoneLoad /\ Following /\ NoneAhead /\ ReadRight /\ StoredRight
  BY NoLoadTyped DEF StoreValue, ConfigInv, ConfigTypeOK, NoLoad
<1>2. ConfigTypeOK' /\ NoneAhead' /\ DeadLoad'
  BY <1>0 DEF ConfigTypeOK, NoneAhead, DeadLoad
<1>3. LoneLoad'
  BY <1>0 DEF LoneLoad
<1>4. Following'
  BY <1>0 DEF Following, LoneLoad
<1>5. ReadRight'
  BY <1>0 DEF ReadRight, LoneLoad
<1>6. StoredRight'
  BY <1>0 DEF StoredRight, ReadRight
<1> QED
  BY <1>2, <1>3, <1>4, <1>5, <1>6 DEF ConfigInv

LEMMA Edits ==
    ASSUME ConfigInv, NEW c \in FileContents, Edit(c)
    PROVE  ConfigInv'
<1>0. /\ confFile'.content = c
      /\ confFile'.mtime = confFile.mtime => sameSecond'
      /\ confFile'.mtime \in {confFile.mtime, confFile.mtime + 1}
      /\ confFile' \in [content : FileTexts, mtime : Nat] /\ confFile.mtime \in Nat
      /\ sameSecond => sameSecond'
      /\ UNCHANGED <<recorded, m_val, logger, load, overlap, dead>>
      /\ ConfigTypeOK /\ LoneLoad /\ Following /\ NoneAhead /\ ReadRight /\ StoredRight /\ DeadLoad
  <2>1. PICK t \in {confFile.mtime, confFile.mtime + 1} :
            /\ confFile' = [content |-> c, mtime |-> t]
            /\ sameSecond' = (sameSecond \/ t = confFile.mtime)
    BY DEF Edit
  <2>2. confFile.mtime \in Nat
    BY DEF ConfigInv, ConfigTypeOK
  <2>3. UNCHANGED <<recorded, m_val, logger, load, overlap, dead>>
    BY DEF Edit
  <2>4. confFile'.content = c /\ confFile'.mtime = t
    BY <2>1
  <2>5. confFile' \in [content : FileTexts, mtime : Nat]
    BY <2>1, <2>2 DEF FileTexts
  <2>6. /\ confFile'.mtime = confFile.mtime => sameSecond'
        /\ sameSecond => sameSecond'
    BY <2>1, <2>4, Zenon
  <2> QED
    BY <2>2, <2>3, <2>4, <2>5, <2>6 DEF ConfigInv
<1>1. \A l \in Loaders : load[l].time \in Nat
  BY <1>0 DEF ConfigTypeOK, LoadRecord
<1>2. ConfigTypeOK' /\ NoneAhead' /\ DeadLoad'
  BY <1>0, <1>1 DEF ConfigTypeOK, NoneAhead, DeadLoad
<1>3. LoneLoad' /\ Following'
  BY <1>0 DEF LoneLoad, Following
<1>5. ReadRight' /\ StoredRight'
  BY <1>0, <1>1 DEF ReadRight, StoredRight, NoneAhead, ConfigTypeOK
<1> QED
  BY <1>2, <1>3, <1>5 DEF ConfigInv

\* Every logger is what the stored value says, and the stored value is what a
\* file says that LoadFromConfDir would skip (config.cpp:84-105, config.h:228-245,
\* ready.h:120-190), for any number of loading threads, files and loggers.
THEOREM ConfigIsFollowed == ConfigSpec => []ConfigFollowed
<1>1. ConfigInv /\ [ConfigNext]_configVars => ConfigInv'
  <2> SUFFICES ASSUME ConfigInv, [ConfigNext]_configVars PROVE ConfigInv'
    OBVIOUS
  <2>1. CASE \E l \in Loaders : \E force \in BOOLEAN : Lstat(l, force)
    BY <2>1, Lstats
  <2>2. CASE \E l \in Loaders : Record(l) \/ LoadFile(l) \/ setValue(l) \/ StoreValue(l)
    BY <2>2, Records, Reads, Listens, Stores
  <2>3. CASE \E c \in FileContents : Edit(c)
    BY <2>3, Edits
  <2>4. CASE UNCHANGED configVars
    <3>1. UNCHANGED <<confFile, recorded, m_val, logger, load, sameSecond, overlap, dead>>
      BY <2>4 DEF configVars
    <3>2. (ConfigTypeOK /\ LoneLoad /\ NoneAhead /\ DeadLoad)'
      BY <3>1 DEF ConfigInv, ConfigTypeOK, LoneLoad, NoneAhead, DeadLoad
    <3>3. (Following /\ ReadRight /\ StoredRight)'
      BY <3>1 DEF ConfigInv, Following, ReadRight, StoredRight
    <3> QED
      BY <3>2, <3>3 DEF ConfigInv
  <2> QED
    BY <2>1, <2>2, <2>3, <2>4 DEF ConfigNext
<1>2. ConfigInv => ConfigFollowed
  <2> SUFFICES ASSUME ConfigInv PROVE ConfigFollowed
    OBVIOUS
  <2>1. LoggersMatch
    BY DEF ConfigInv, Following, Follow, DeadLoad, LoggersMatch
  <2>2. SkippedIsLoaded
    BY DEF ConfigInv, StoredRight, SkippedIsLoaded
  <2> QED
    BY <2>1, <2>2 DEF ConfigFollowed
<1> QED
  BY ConfigStarts, <1>1, <1>2, PTL DEF ConfigSpec

-----------------------------------------------------------------------------
(* Application.                                                            *)

Places == {"none", "refused", "init", "main", "wait", "sleep", "loop", "ended", "failed"}
LaunchRecord == [at : Places, daemon : BOOLEAN, status : Nat]

\* The domains of the variables the argument needs.
AppTypeOK ==
    /\ main \in [Launches -> {"none", "main", "truncated", "bind", "serving", "crashed", "exited"}]
    /\ forks \in [Launches -> Nat]
    /\ launch \in [Launches -> LaunchRecord]
    /\ contested \in BOOLEAN

\* Only a launch whose first process is in main() itself, or waits for a child,
\* has a process in main(): fork() never meets a second one.
OneProcess ==
    \A p \in Launches : launch[p].at \notin {"main", "wait"} => main[p] = "none"

\* Who serves has the address.
ServerBound ==
    \A p \in Launches : main[p] = "serving" => bound = p

\* As long as nobody came up beside another launch, one launch at most has
\* emptied or written the pid file and not ended since, and what it wrote is
\* its own pid.
Writing(p) == main[p] \in {"truncated", "bind", "serving"}
FileOwned ==
    ~contested =>
        /\ \A p, q \in Launches : Writing(p) /\ Writing(q) => p = q
        /\ \A p \in Launches : main[p] \in {"bind", "serving"} => pidFile = Pid(p)

AppInv == AppTypeOK /\ OneProcess /\ ServerBound /\ FileOwned

\* A step that moves the first process of a launch to another place.
LEMMA Moves ==
    ASSUME AppInv, NEW p \in Launches, NEW r \in LaunchRecord,
           launch' = [launch EXCEPT ![p] = r],
           main' = main \/ main' = [main EXCEPT ![p] = "none"],
           r.at \in {"main", "wait"} \/ main'[p] = "none",
           UNCHANGED <<forks, pidFile, bound, contested>>
    PROVE  AppInv'
<1>1. \A q \in Launches : main'[q] \in {main[q], "none"}
  BY DEF AppInv, AppTypeOK
<1>2. AppTypeOK'
  BY DEF AppInv, AppTypeOK
<1>3. OneProcess'
  BY <1>1 DEF AppInv, AppTypeOK, OneProcess
<1>4. ServerBound'
  BY <1>1 DEF AppInv, ServerBound
<1>5. FileOwned'
  BY <1>1 DEF AppInv, FileOwned, Writing, Pid
<1> QED
  BY <1>2, <1>3, <1>4, <1>5 DEF AppInv

\* A step that begins a process in main(), which has no pid in the file yet.
LEMMA Begins ==
    ASSUME AppInv, NEW p \in Launches, NEW r \in LaunchRecord,
           launch[p].at \notin {"main", "wait"}, r.at \in {"main", "wait"},
           launch' = [launch EXCEPT ![p] = r],
           main' = [main EXCEPT ![p] = "main"],
           forks' = [forks EXCEPT ![p] = @ + 1],
           UNCHANGED <<pidFile, bound, contested>>
    PROVE  AppInv'
<1>1. main'[p] = "main" /\ \A q \in Launches \ {p} : main'[q] = main[q] /\ forks'[q] = forks[q]
  BY DEF AppInv, AppTypeOK
<1>2. AppTypeOK'
  BY DEF AppInv, AppTypeOK
<1>3. OneProcess'
  BY <1>1 DEF AppInv, AppTypeOK, OneProcess
<1>4. ServerBound'
  BY <1>1 DEF AppInv, ServerBound
<1>5. FileOwned'
  BY <1>1 DEF AppInv, FileOwned, Writing, Pid
<1> QED
  BY <1>2, <1>3, <1>4, <1>5 DEF AppInv

\* The steps of a process in main() keep everything but FileOwned if who
\* serves has the address.
LEMMA Runs ==
    ASSUME AppInv, NEW p \in Launches, Running(p), UNCHANGED <<launch, forks>>,
           NEW at \in {"none", "truncated", "bind", "serving", "crashed", "exited"},
           main' = [main EXCEPT ![p] = at], contested' \in BOOLEAN, ServerBound', FileOwned'
    PROVE  AppInv'
<1>1. AppTypeOK'
  BY DEF AppInv, AppTypeOK
<1>2. launch[p].at \in {"main", "wait"}
  BY DEF AppInv, OneProcess, Running
<1>3. OneProcess'
  BY <1>2 DEF AppInv, AppTypeOK, OneProcess
<1> QED
  BY <1>1, <1>3 DEF AppInv

\* A process that ends, or goes no further than before, breaks no claim on the
\* pid file.
LEMMA Ends ==
    ASSUME AppInv, NEW p \in Launches, UNCHANGED <<forks, pidFile, contested>>,
           NEW at \in {"none", "crashed", "exited"}, main' = [main EXCEPT ![p] = at]
    PROVE  FileOwned'
<1>1. main'[p] = at /\ \A q \in Launches \ {p} : main'[q] = main[q]
  BY DEF AppInv, AppTypeOK
<1> QED
  BY <1>1 DEF AppInv, FileOwned, Writing, Pid

\* Every step of a launch preserves AppInv.
LEMMA AppStepKeeps == AppInv /\ [AppNext]_appVars => AppInv'
<1> SUFFICES ASSUME AppInv, [AppNext]_appVars PROVE AppInv'
  OBVIOUS
<1> USE LaunchNames
<1>1. CASE UNCHANGED appVars
  BY <1>1 DEF AppInv, appVars, AppTypeOK, OneProcess, ServerBound, FileOwned, Writing, Pid
<1>2. ASSUME NEW p \in Launches, NEW daemon \in BOOLEAN, Application_init(p, daemon)
      PROVE  AppInv'
  <2> DEFINE r == [at |-> IF IsRunningPidfile THEN "refused" ELSE "init",
                   daemon |-> daemon, status |-> 0]
  <2>1. r \in LaunchRecord /\ launch' = [launch EXCEPT ![p] = r] /\ main' = main
    BY <1>2 DEF LaunchRecord, Places, Application_init
  <2>2. main[p] = "none" /\ UNCHANGED <<forks, pidFile, bound, contested>>
    BY <1>2 DEF Application_init, AppInv, OneProcess
  <2> QED
    BY <2>1, <2>2, Moves
<1>3. ASSUME NEW p \in Launches, real_start(p) \/ fork(p) PROVE AppInv'
  <2> DEFINE r == [launch[p] EXCEPT !.at = IF launch[p].daemon THEN "wait" ELSE "main"]
  <2>1. /\ launch[p].at \notin {"main", "wait"} /\ launch' = [launch EXCEPT ![p] = r]
        /\ main' = [main EXCEPT ![p] = "main"] /\ forks' = [forks EXCEPT ![p] = @ + 1]
        /\ UNCHANGED <<pidFile, bound, contested>>
    BY <1>3 DEF real_start, fork, AppInv, AppTypeOK
  <2>2. r \in LaunchRecord /\ r.at \in {"main", "wait"}
    BY DEF AppInv, AppTypeOK, LaunchRecord, Places
  <2> QED
    BY <2>1, <2>2, Begins
<1>4. ASSUME NEW p \in Launches, waitpid(p) PROVE AppInv'
  <2> DEFINE r == [launch[p] EXCEPT !.at = IF main[p] = "crashed" THEN "sleep" ELSE "ended",
                                    !.status = IF main[p] = "crashed" THEN 1 ELSE 0]
  <2>1. /\ launch' = [launch EXCEPT ![p] = r] /\ main' = [main EXCEPT ![p] = "none"]
        /\ UNCHANGED <<forks, pidFile, bound, contested>>
    BY <1>4 DEF waitpid, AppInv, AppTypeOK
  <2>2. r \in LaunchRecord /\ main'[p] = "none"
    BY <2>1 DEF AppInv, AppTypeOK, LaunchRecord, Places
  <2> QED
    BY <2>1, <2>2, Moves
<1>5. ASSUME NEW p \in Launches, Slept(p) \/ ForkFails(p) PROVE AppInv'
  <2> DEFINE r == [launch[p] EXCEPT !.at = IF launch[p].at = "sleep" THEN "loop" ELSE "failed"]
  <2>1. launch' = [launch EXCEPT ![p] = r] /\ UNCHANGED <<main, forks, pidFile, bound, contested>>
    BY <1>5 DEF Slept, ForkFails, AppInv, AppTypeOK
  <2>2. r \in LaunchRecord /\ main[p] = "none"
    BY <1>5 DEF Slept, ForkFails, AppInv, AppTypeOK, OneProcess, LaunchRecord, Places
  <2> QED
    BY <2>1, <2>2, Moves
<1>6. ASSUME NEW p \in Launches, OpenPidFile(p) PROVE AppInv'
  <2>1. Running(p) /\ UNCHANGED <<launch, forks, bound>> /\ contested' \in BOOLEAN
    BY <1>6 DEF OpenPidFile, Running, AppInv, AppTypeOK
  <2>2. CASE main' = [main EXCEPT ![p] = "truncated"]
    <3>1. main'[p] = "truncated" /\ \A q \in Launches \ {p} : main'[q] = main[q]
      BY <2>2 DEF AppInv, AppTypeOK
    <3>2. contested' = (contested \/ \E q \in Launches \ {p} :
                          Running(q) \/ launch[q].at \in {"wait", "sleep", "loop"})
      BY <1>6, <2>2, <3>1 DEF OpenPidFile, AppInv, AppTypeOK
    <3>3. ASSUME ~contested' PROVE \A q \in Launches \ {p} : ~Running(q)
      BY <3>2, <3>3
    <3>4. FileOwned'
      BY <3>1, <3>3 DEF FileOwned, Writing, Running
    <3>5. ServerBound'
      BY <2>1, <3>1 DEF AppInv, ServerBound
    <3> QED
      BY <2>1, <2>2, <3>4, <3>5, Runs
  <2>3. CASE main' = [main EXCEPT ![p] = "exited"]
    <3>1. main'[p] = "exited" /\ \A q \in Launches \ {p} : main'[q] = main[q]
      BY <2>3 DEF AppInv, AppTypeOK
    <3>2. UNCHANGED <<pidFile, contested>>
      BY <1>6, <3>1, <2>3 DEF OpenPidFile, AppInv, AppTypeOK
    <3>3. FileOwned' /\ ServerBound'
      BY <2>1, <2>3, <3>1, <3>2, Ends DEF AppInv, ServerBound
    <3> QED
      BY <2>1, <2>3, <3>3, Runs
  <2> QED
    BY <1>6, <2>2, <2>3 DEF OpenPidFile
<1>7. ASSUME NEW p \in Launches, WritePid(p) PROVE AppInv'
  <2>1. /\ Running(p) /\ UNCHANGED <<launch, forks, bound, contested>>
        /\ main' = [main EXCEPT ![p] = "bind"] /\ main[p] = "truncated" /\ pidFile' = Pid(p)
    BY <1>7 DEF WritePid, Running
  <2>2. main'[p] = "bind" /\ \A q \in Launches \ {p} : main'[q] = main[q]
    BY <2>1 DEF AppInv, AppTypeOK
  <2>3. ServerBound'
    BY <2>1, <2>2 DEF AppInv, ServerBound
  <2>4. FileOwned'
    BY <2>1, <2>2 DEF AppInv, FileOwned, Writing, Pid
  <2>5. contested' \in BOOLEAN
    BY <2>1 DEF AppInv, AppTypeOK
  <2> QED
    BY <2>1, <2>3, <2>4, <2>5, Runs
<1>8. ASSUME NEW p \in Launches, run_fiber(p) PROVE AppInv'
  <2>1. Running(p) /\ main[p] = "bind" /\ UNCHANGED <<launch, forks, pidFile, contested>>
    BY <1>8 DEF run_fiber, Running
  <2>2. contested' \in BOOLEAN
    BY <2>1 DEF AppInv, AppTypeOK
  <2>3. CASE bound = "" /\ main' = [main EXCEPT ![p] = "serving"] /\ bound' = p
    <3>1. main'[p] = "serving" /\ \A q \in Launches \ {p} : main'[q] = main[q]
      BY <2>3 DEF AppInv, AppTypeOK
    <3>2. ServerBound'
      BY <2>3, <3>1 DEF AppInv, ServerBound
    <3>3. FileOwned'
      BY <2>1, <3>1 DEF AppInv, FileOwned, Writing, Pid
    <3> QED
      BY <2>1, <2>2, <2>3, <3>2, <3>3, Runs
  <2>4. CASE main' = [main EXCEPT ![p] = "exited"] /\ bound' = bound
    <3>1. main'[p] = "exited" /\ \A q \in Launches \ {p} : main'[q] = main[q]
      BY <2>4 DEF AppInv, AppTypeOK
    <3>2. ServerBound' /\ FileOwned'
      BY <2>1, <2>4, <3>1, Ends DEF AppInv, ServerBound
    <3> QED
      BY <2>1, <2>2, <2>4, <3>2, Runs
  <2> QED
    BY <1>8, <2>3, <2>4 DEF run_fiber
<1>9. ASSUME NEW p \in Launches, Crash(p) PROVE AppInv'
  <2> DEFINE at == IF launch[p].daemon THEN "crashed" ELSE "none"
  <2>1. /\ Running(p) /\ UNCHANGED <<launch, forks, pidFile, contested>>
        /\ main' = [main EXCEPT ![p] = at] /\ at \in {"none", "crashed", "exited"}
        /\ bound' = IF bound = p THEN "" ELSE bound
    BY <1>9 DEF Crash
  <2> HIDE DEF at
  <2>2. main'[p] = at /\ \A q \in Launches \ {p} : main'[q] = main[q]
    BY <2>1 DEF AppInv, AppTypeOK
  <2>3. ServerBound'
    BY <2>1, <2>2 DEF AppInv, ServerBound
  <2>4. FileOwned' /\ contested' \in BOOLEAN
    BY <2>1, Ends DEF AppInv, AppTypeOK
  <2> QED
    BY <2>1, <2>3, <2>4, Runs
<1> QED
  BY <1>1, <1>2, <1>3, <1>4, <1>5, <1>6, <1>7, <1>8, <1>9 DEF AppNext, AppStep

\* AppInv is inductive: through init(), main(), fork() and the restart loop a launch
\* has one process in main() and the server has the address (application.cpp,
\* daemon.cpp).
THEOREM AppInductive == AppSpec => []AppInv
<1>1. ASSUME AppInit PROVE AppInv
  <2>1. NotYet \in LaunchRecord
    BY DEF NotYet, LaunchRecord, Places
  <2>2. AppTypeOK
    BY <1>1, <2>1 DEF AppInit, AppTypeOK
  <2>3. OneProcess /\ ServerBound /\ FileOwned
    BY <1>1 DEF AppInit, OneProcess, ServerBound, FileOwned, Writing
  <2> QED
    BY <2>2, <2>3 DEF AppInv
<1> QED
  BY <1>1, AppStepKeeps, PTL DEF AppSpec

INSTANCE FiniteSetTheorems

\* At most one process serves (the bind of run_fiber), and the pid file names
\* it unless two launches came up together (application.cpp 80-130).
THEOREM ServerIsKnown == AppSpec => []ServerKnown
<1>1. ASSUME AppInv PROVE OneServes
  <2> DEFINE S == {p \in Launches : main[p] = "serving"}
  <2>1. S \subseteq {bound}
    BY <1>1 DEF AppInv, ServerBound
  <2>2. IsFiniteSet({bound}) /\ Cardinality({bound}) = 1
    BY FS_Singleton
  <2>3. Cardinality(S) <= 1
    BY <2>1, <2>2, FS_Subset
  <2> QED
    BY <2>3 DEF OneServes
<1>2. AppInv => PidNamesServer
  BY DEF AppInv, FileOwned, PidNamesServer
<1> QED
  BY <1>1, <1>2, AppInductive, PTL DEF ServerKnown

-----------------------------------------------------------------------------
(* Chat.                                                                   *)

Steps == {"recv", "bad", "login", "send", "add", "write", "onClose", "close", "done"}

\* The domains of the variables the argument needs.
ChatTypeOK ==
    /\ m_sessions \in [Users -> Conns \cup {Nobody}]
    /\ id \in [Conns -> Users \cup {Nobody}]
    /\ pc \in [Conns -> Steps]
    /\ after \in [Conns -> {"recv", "close"}]
    /\ want \in [Conns -> Users \cup {Nobody}]
    /\ open \in [Conns -> BOOLEAN]

\* One handler at most is on the thread, and one that is not stands where a
\* call waits.
OneRuns ==
    /\ running = {} \/ \E c \in Conns : running = {c}
    /\ \A c \in Conns \ running : pc[c] \in {"recv", "write", "done"}

\* Where a connection has a name, and is on its way out.
Leaving(c) ==
    \/ pc[c] \in {"close", "done"}
    \/ pc[c] = "write" /\ after[c] = "close"
    \/ pc[c] = "onClose" /\ open[c]

\* A session is closed only on the way out; a name about to be added is free,
\* and so is the name of a connection that was dropped for a bad message.
OnTheThread ==
    \A c \in Conns :
        /\ ~open[c] => pc[c] = "onClose" \/ Leaving(c)
        /\ pc[c] = "add" => id[c] = Nobody /\ want[c] \in Users /\ m_sessions[want[c]] = Nobody
        /\ pc[c] = "onClose" /\ open[c] /\ id[c] # Nobody => m_sessions[id[c]] = Nobody

Named == \A c \in Conns, n \in Users : m_sessions[n] = c <=> id[c] = n /\ ~Leaving(c)

ChatInv == ChatTypeOK /\ OneRuns /\ OnTheThread /\ Named

USE ChatNames DEF Nobody

\* A handler that takes the thread finds it free.
LEMMA Free == ASSUME Threads = 1, OneRuns, Cardinality(running) < Threads PROVE running = {}
<1>1. ASSUME NEW c \in Conns, running = {c} PROVE FALSE
  BY <1>1, FS_Singleton
<1> QED
  BY <1>1 DEF OneRuns

\* While a handler is on the thread every other one waits.
LEMMA Others ==
    ASSUME OneRuns, NEW c \in Conns, c \in running
    PROVE  running = {c} /\ \A d \in Conns \ {c} : pc[d] \in {"recv", "write", "done"}
  BY DEF OneRuns

\* Steps that change neither the map nor any handler's place keep ChatInv.
LEMMA Elsewhere ==
    ASSUME ChatInv, OneRuns', UNCHANGED <<m_sessions, id, pc, after, want, open>>
    PROVE  ChatInv'
  BY DEF ChatInv, ChatTypeOK, OnTheThread, Named, Leaving

\* Every step of a handler, a peer or the scheduler preserves ChatInv.
LEMMA ChatStepKeeps == Threads = 1 /\ ChatInv /\ [ChatNext]_chatVars => ChatInv'
<1> SUFFICES ASSUME Threads = 1, ChatInv, [ChatNext]_chatVars PROVE ChatInv'
  OBVIOUS
<1>1. CASE UNCHANGED chatVars
  <2>1. OneRuns'
    BY <1>1 DEF ChatInv, OneRuns, chatVars
  <2> QED
    BY <1>1, <2>1, Elsewhere DEF chatVars
<1>2. ASSUME NEW c \in Conns, ResumeHandler(c) PROVE ChatInv'
  <2>1. running = {}
    BY <1>2, Free DEF ChatInv, ResumeHandler
  <2>2. OneRuns'
    BY <1>2, <2>1 DEF ChatInv, OneRuns, ResumeHandler
  <2> QED
    BY <1>2, <2>2, Elsewhere DEF ResumeHandler
<1>3. ASSUME NEW c \in Conns, recvMessage(c) PROVE ChatInv'
  <2>1. running = {} /\ running' = {c} /\ pc[c] = "recv"
    BY <1>3, Free DEF ChatInv, recvMessage
  <2>2. UNCHANGED <<m_sessions, id, after>>
    BY <1>3 DEF recvMessage
  <2>3. CASE /\ UNCHANGED open
             /\ \E n \in Users \cup {Nobody}, kind \in {"bad", "login", "send"} :
                   want' = [want EXCEPT ![c] = n] /\ pc' = [pc EXCEPT ![c] = kind]
    <3>1. PICK n \in Users \cup {Nobody}, kind \in {"bad", "login", "send"} :
              want' = [want EXCEPT ![c] = n] /\ pc' = [pc EXCEPT ![c] = kind]
      BY <2>3
    <3>2. ChatTypeOK' /\ OneRuns'
      BY <2>1, <2>2, <2>3, <3>1 DEF ChatInv, ChatTypeOK, OneRuns, Steps
    <3>3. \A d \in Conns : Leaving(d)' <=> Leaving(d)
      BY <2>1, <2>2, <2>3, <3>1 DEF ChatInv, ChatTypeOK, Leaving
    <3>4. OnTheThread'
      BY <2>1, <2>2, <2>3, <3>1, <3>3 DEF ChatInv, ChatTypeOK, OnTheThread
    <3> QED
      BY <2>2, <3>2, <3>3, <3>4 DEF ChatInv, Named
  <2>4. CASE /\ open' = [open EXCEPT ![c] = FALSE]
             /\ pc' = [pc EXCEPT ![c] = "onClose"] /\ UNCHANGED want
    <3>2. ChatTypeOK' /\ OneRuns'
      BY <2>1, <2>2, <2>4 DEF ChatInv, ChatTypeOK, OneRuns, Steps
    <3>3. \A d \in Conns : Leaving(d)' <=> Leaving(d)
      BY <2>1, <2>2, <2>4 DEF ChatInv, ChatTypeOK, Leaving
    <3>4. OnTheThread'
      BY <2>1, <2>2, <2>4, <3>3 DEF ChatInv, ChatTypeOK, OnTheThread
    <3> QED
      BY <2>2, <3>2, <3>3, <3>4 DEF ChatInv, Named
  <2> QED
    BY <1>3, <2>3, <2>4 DEF recvMessage, Goto
<1>4. ASSUME NEW c \in Conns, HandleBad(c) PROVE ChatInv'
  <2>1. /\ running' = running /\ running = {c} /\ pc[c] = "bad" /\ pc' = [pc EXCEPT ![c] = "onClose"]
        /\ UNCHANGED <<id, after, want, open>> /\ m_sessions' = sessionDel(id[c])
        /\ \A d \in Conns \ {c} : pc[d] \in {"recv", "write", "done"}
    BY <1>4, Others DEF ChatInv, HandleBad, At, Goto
  <2>2. ChatTypeOK' /\ OneRuns'
    BY <2>1 DEF ChatInv, ChatTypeOK, OneRuns, Steps, sessionDel
  <2>3. open[c] /\ ~Leaving(c)
    BY <2>1 DEF ChatInv, OnTheThread, Leaving
  <2>4. /\ Leaving(c)' /\ \A d \in Conns \ {c} : Leaving(d)' <=> Leaving(d)
    BY <2>1, <2>3 DEF ChatInv, ChatTypeOK, Leaving
  <2>5. \A n \in Users : m_sessions'[n] = IF n = id[c] THEN Nobody ELSE m_sessions[n]
    BY <2>1 DEF ChatInv, ChatTypeOK, sessionDel
  <2>6. Named'
    BY <2>1, <2>3, <2>4, <2>5 DEF ChatInv, ChatTypeOK, Named
  <2>7. OnTheThread'
    BY <2>1, <2>3, <2>4, <2>5 DEF ChatInv, ChatTypeOK, OnTheThread
  <2> QED
    BY <2>2, <2>6, <2>7 DEF ChatInv
<1>5. ASSUME NEW c \in Conns, HandleLogin(c) \/ HandleSend(c) \/ Written(c) PROVE ChatInv'
  <2>1. /\ UNCHANGED <<m_sessions, id, want, open>> /\ running = {c}
        /\ \A d \in Conns \ {c} : pc[d] \in {"recv", "write", "done"}
    BY <1>5, Others DEF ChatInv, HandleLogin, HandleSend, Written, At
  <2>2. \/ /\ pc[c] = "login" /\ pc' = [pc EXCEPT ![c] = "add"]
           /\ ~LoginRefused(c) /\ UNCHANGED <<after, running>>
        \/ /\ pc[c] \in {"login", "send"} /\ pc' = [pc EXCEPT ![c] = "write"]
           /\ after' = [after EXCEPT ![c] = "recv"] /\ UNCHANGED running
        \/ /\ pc[c] = "write" /\ pc' = [pc EXCEPT ![c] = after[c]] /\ after' = after
           /\ running' = IF after[c] = "recv" THEN running \ {c} ELSE running
    BY <1>5 DEF HandleLogin, HandleSend, Written, At, Goto, WriteTo
  <2>3. ChatTypeOK'
    BY <2>1, <2>2 DEF ChatInv, ChatTypeOK, Steps
  <2>4. OneRuns'
    BY <2>1, <2>2 DEF ChatInv, ChatTypeOK, OneRuns
  <2>5. \A d \in Conns : Leaving(d)' <=> Leaving(d)
    BY <2>1, <2>2 DEF ChatInv, ChatTypeOK, Leaving
  <2>6. OnTheThread'
    BY <2>1, <2>2, <2>5 DEF ChatInv, ChatTypeOK, OnTheThread, LoginRefused
  <2> QED
    BY <2>1, <2>3, <2>4, <2>5, <2>6 DEF ChatInv, Named
<1>6. ASSUME NEW c \in Conns, HandleAdd(c) PROVE ChatInv'
  <2>1. /\ UNCHANGED <<want, open, running>> /\ running = {c} /\ pc[c] = "add"
        /\ pc' = [pc EXCEPT ![c] = "write"] /\ after' = [after EXCEPT ![c] = "recv"]
        /\ id' = [id EXCEPT ![c] = want[c]] /\ m_sessions' = [m_sessions EXCEPT ![want[c]] = c]
        /\ \A d \in Conns \ {c} : pc[d] \in {"recv", "write", "done"}
    BY <1>6, Others DEF ChatInv, HandleAdd, At, Goto, WriteTo
  <2>2. id[c] = Nobody /\ want[c] \in Users /\ m_sessions[want[c]] = Nobody
    BY <2>1 DEF ChatInv, OnTheThread
  <2>3. ChatTypeOK' /\ OneRuns'
    BY <2>1, <2>2 DEF ChatInv, ChatTypeOK, OneRuns, Steps
  <2>4. ~Leaving(c) /\ \A d \in Conns : Leaving(d)' <=> Leaving(d)
    BY <2>1 DEF ChatInv, ChatTypeOK, Leaving
  <2>5. Named'
    BY <2>1, <2>2, <2>4 DEF ChatInv, ChatTypeOK, Named
  <2>6. OnTheThread'
    BY <2>1, <2>2, <2>4 DEF ChatInv, ChatTypeOK, OnTheThread
  <2> QED
    BY <2>3, <2>5, <2>6 DEF ChatInv
<1>7. ASSUME NEW c \in Conns, WSSendMessage(c) PROVE ChatInv'
  <2>1. /\ pc[c] = "write" /\ UNCHANGED <<m_sessions, id, pc, after, want, open>>
        /\ running' \in {running, running \ {c}}
    BY <1>7 DEF WSSendMessage, At
  <2>2. OneRuns'
    BY <2>1 DEF ChatInv, OneRuns
  <2> QED
    BY <2>1, <2>2, Elsewhere
<1>8. ASSUME NEW c \in Conns, onClose(c) PROVE ChatInv'
  <2>1. /\ running' = running /\ running = {c} /\ pc[c] = "onClose" /\ pc' = [pc EXCEPT ![c] = "write"]
        /\ after' = [after EXCEPT ![c] = "close"]
        /\ UNCHANGED <<id, want, open>> /\ m_sessions' = sessionDel(id[c])
        /\ \A d \in Conns \ {c} : pc[d] \in {"recv", "write", "done"}
    BY <1>8, Others DEF ChatInv, onClose, At, Goto, WriteTo
  <2>2. ChatTypeOK' /\ OneRuns'
    BY <2>1 DEF ChatInv, ChatTypeOK, OneRuns, Steps, sessionDel
  <2>3. /\ Leaving(c)' /\ \A d \in Conns \ {c} : Leaving(d)' <=> Leaving(d)
    BY <2>1 DEF ChatInv, ChatTypeOK, Leaving
  <2>4. \A n \in Users : m_sessions'[n] = IF n = id[c] THEN Nobody ELSE m_sessions[n]
    BY <2>1 DEF ChatInv, ChatTypeOK, sessionDel
  <2>5. \A d \in Conns \ {c}, n \in Users : m_sessions[n] = d => n # id[c]
    BY <2>1 DEF ChatInv, ChatTypeOK, Named, OnTheThread, Leaving
  <2>6. Named'
    BY <2>1, <2>3, <2>4, <2>5 DEF ChatInv, ChatTypeOK, Named
  <2>7. OnTheThread'
    BY <2>1, <2>3, <2>4 DEF ChatInv, ChatTypeOK, OnTheThread
  <2> QED
    BY <2>2, <2>6, <2>7 DEF ChatInv
<1>9. ASSUME NEW c \in Conns, CloseSession(c) PROVE ChatInv'
  <2>1. /\ running' = {} /\ pc[c] = "close" /\ pc' = [pc EXCEPT ![c] = "done"]
        /\ open' = [open EXCEPT ![c] = FALSE] /\ UNCHANGED <<m_sessions, id, after, want>>
        /\ \A d \in Conns \ {c} : pc[d] \in {"recv", "write", "done"}
    BY <1>9, Others DEF ChatInv, CloseSession, At, Goto
  <2>2. ChatTypeOK' /\ OneRuns'
    BY <2>1 DEF ChatInv, ChatTypeOK, OneRuns, Steps
  <2>3. \A d \in Conns : Leaving(d)' <=> Leaving(d)
    BY <2>1 DEF ChatInv, ChatTypeOK, Leaving
  <2>4. OnTheThread'
    BY <2>1, <2>3 DEF ChatInv, ChatTypeOK, OnTheThread, Leaving
  <2> QED
    BY <2>1, <2>2, <2>3, <2>4 DEF ChatInv, Named
<1>10. ASSUME NEW c \in Conns, Drain(c) \/ Leave(c) PROVE ChatInv'
  <2>1. UNCHANGED <<m_sessions, id, pc, after, want, open, running>>
    BY <1>10 DEF Drain, Leave
  <2>2. OneRuns'
    BY <2>1 DEF ChatInv, OneRuns
  <2> QED
    BY <2>1, <2>2, Elsewhere
<1> QED
  BY <1>1, <1>2, <1>3, <1>4, <1>5, <1>6, <1>7, <1>8, <1>9, <1>10 DEF ChatNext, Over

\* ChatInv is inductive when the servers run on one thread: onMessage, onClose and
\* the notifications keep m_sessions and the names of connections in step
\* (chat_servlet.cpp).
THEOREM ChatInductive == Threads = 1 => (ChatSpec => []ChatInv)
<1>1. ChatInit => ChatInv
  BY DEF ChatInit, ChatInv, ChatTypeOK, OneRuns, OnTheThread, Named, Leaving, Steps
<1> SUFFICES ASSUME Threads = 1 PROVE ChatSpec => []ChatInv
  OBVIOUS
<1>2. ChatInv /\ [ChatNext]_chatVars => ChatInv'
  BY ChatStepKeeps
<1> QED
  BY <1>1, <1>2, PTL DEF ChatSpec

\* The map holds every connection that is logged in under its name and nobody
\* else under that name, and no closed session (chat_servlet.cpp 20-143), for
\* any number of connections and names on one thread.
THEOREM SessionsAreRight == Threads = 1 => (ChatSpec => []SessionsRight)
<1>1. ChatInv => NameOwned
  BY DEF ChatInv, NameOwned, Named, Leaving
<1>2. ChatInv => RegisteredIsOpen
  <2> SUFFICES ASSUME ChatInv, NEW n \in Users, m_sessions[n] \in Conns \ running
               PROVE  open[m_sessions[n]]
    BY DEF RegisteredIsOpen
  <2>1. pc[m_sessions[n]] \in {"recv", "write", "done"} /\ ~Leaving(m_sessions[n])
    BY DEF ChatInv, OneRuns, Named
  <2> QED
    BY <2>1 DEF ChatInv, OnTheThread
<1> SUFFICES ASSUME Threads = 1 PROVE ChatSpec => []SessionsRight
  OBVIOUS
<1>3. ChatSpec => []ChatInv
  BY ChatInductive
<1> QED
  BY <1>1, <1>2, <1>3, PTL DEF SessionsRight
=============================================================================
