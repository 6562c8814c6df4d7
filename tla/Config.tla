-------------------------------- MODULE Config --------------------------------
(***************************************************************************)
(* Configuration and the loggers it sets up: Config::LoadFromConfDir with  *)
(* the recorded time of each file (config.cpp), ConfigVar::setValue under  *)
(* its two locks (config.h) and the listener LogInit (ready.h).            *)
(*                                                                         *)
(* One file with one key, "logs".  Its content is a sequence of logger     *)
(* entries, or Broken; an editor changes it at any time.                   *)
(***************************************************************************)
EXTENDS Naturals, Sequences, SequencesExt

CONSTANTS
    Loaders,      \* threads that call LoadFromConfDir
    FileContents, \* what the file may hold: sequences of entries, or Broken
    Names,        \* names of loggers
    MaxEdits      \* bound: edits of the file

VARIABLES
    confFile,     \* content and st_mtime
    recorded,     \* s_file2modifyTime
    m_val,        \* the value of "logs": logger name -> its LoggerDefine
    logger,       \* each Logger: its level and its appenders
    load,         \* what each loader does
    edits,        \* edits so far
    sameSecond,   \* was the file changed twice within one second?
    overlap,      \* did two loads ever overlap?
    dead          \* did the listener go through a null appender?

configVars == <<confFile, recorded, m_val, logger, load, edits, sameSecond, overlap, dead>>

Broken == <<[name |-> "", level |-> "", appenders |-> <<>>]>>
NoLoad == [at |-> "none", time |-> 0, val |-> <<>>, force |-> FALSE]
NoLogs == <<>>
UNKNOWN == [level |-> "UNKNOWN", appenders |-> <<>>]

ConfigInit ==
    /\ confFile = [content |-> <<>>, mtime |-> 1]
    /\ recorded = 0
    /\ m_val = NoLogs
    /\ logger = [n \in Names |-> [level |-> "DEBUG", appenders |-> <<>>]]
    /\ load = [l \in Loaders |-> NoLoad]
    /\ edits = 0 /\ sameSecond = FALSE /\ overlap = FALSE /\ dead = FALSE

-----------------------------------------------------------------------------
(* LexicalCast<std::string, std::set<LoggerDefine>>.                       *)

Levels == {"DEBUG", "INFO", "WARN", "ERROR", "FATAL"}
FromString(s) == IF s \in Levels THEN s ELSE "UNKNOWN"

\* An appender of a type that is not known stays in the list with type 0.
AppenderDefine(a) ==
    [type |-> CASE a.type = "FileLogAppender" -> 1
                [] a.type = "StdoutLogAppender" -> 2
                [] OTHER -> 0,
     pattern |-> IF a.type \in {"FileLogAppender", "StdoutLogAppender"} THEN a.pattern ELSE ""]

LoggerDefine(e) ==
    [level |-> FromString(e.level),
     appenders |-> LET typed == SelectSeq(e.appenders, LAMBDA a : a.type # "")
                   IN [i \in DOMAIN typed |-> AppenderDefine(typed[i])]]

\* An entry without a name, or a file appender without a file, throws.
Throws(content) ==
    \E i \in DOMAIN content :
        \/ content[i].name = ""
        \/ \E a \in ToSet(content[i].appenders) : a.type = "FileLogAppender" /\ ~a.file

\* std::set keeps the first of several entries with one name.
FromStr(content) ==
    [n \in {content[i].name : i \in DOMAIN content} |->
        LoggerDefine(content[SelectInSeq(content, LAMBDA e : e.name = n)])]

-----------------------------------------------------------------------------
(* The listener of ready.h.                                                *)

\* The appender for one define; a pattern of its own or the default one.
Appender(d) == [type |-> d.type, formatter |-> IF d.pattern = "" THEN "default" ELSE d.pattern]

Configured(d) ==
    [level |-> d.level, appenders |-> [i \in DOMAIN d.appenders |-> Appender(d.appenders[i])]]

\* A listener that forgets the loggers that are no longer named.
LogInit_ForgetsOld(old, new, lg) ==
    [n \in Names |->
        IF n \in DOMAIN new /\ (n \notin DOMAIN old \/ (n \in DOMAIN old /\ old[n] # new[n]))
        THEN Configured(new[n]) ELSE lg[n]]

LogInit(old, new, lg) ==
    [n \in Names |->
        CASE n \in DOMAIN new /\ n \notin DOMAIN old -> Configured(new[n])
          [] n \in DOMAIN new /\ n \in DOMAIN old ->
                IF old[n] # new[n] THEN Configured(new[n]) ELSE lg[n]
          [] n \notin DOMAIN new /\ n \in DOMAIN old -> UNKNOWN
          [] OTHER -> lg[n]]

\* logAppender stays null for type 0, and setFormatter is called on it.
NullAppender(old, new) ==
    \E n \in DOMAIN new :
        /\ n \in DOMAIN old => old[n] # new[n]
        /\ \E i \in DOMAIN new[n].appenders : new[n].appenders[i].type = 0

-----------------------------------------------------------------------------
(* LoadFromConfDir, one loader.                                            *)

\* lstat of the file.
Lstat(l, force) ==
    /\ ~dead /\ load[l].at = "none"
    /\ load' = [load EXCEPT ![l] = [at |-> "stat", time |-> confFile.mtime, val |-> <<>>, force |-> force]]
    /\ overlap' = (overlap \/ \E k \in Loaders \ {l} : load[k].at # "none")
    /\ UNCHANGED <<confFile, recorded, m_val, logger, edits, sameSecond, dead>>

\* Under s_mutex: skip the file, or record its time before it is loaded.
Record(l) ==
    /\ ~dead /\ load[l].at = "stat"
    /\ IF ~load[l].force /\ recorded = load[l].time
       THEN load' = [load EXCEPT ![l] = NoLoad] /\ recorded' = recorded
       ELSE load' = [load EXCEPT ![l].at = "read"] /\ recorded' = load[l].time
    /\ UNCHANGED <<confFile, m_val, logger, edits, sameSecond, overlap, dead>>

\* LoadFile and loadFromYaml up to setValue; what throws is swallowed.
LoadFile(l) ==
    /\ ~dead /\ load[l].at = "read"
    /\ load' = [load EXCEPT ![l] = IF Throws(confFile.content) THEN NoLoad
                                   ELSE [@ EXCEPT !.at = "set", !.val = FromStr(confFile.content)]]
    /\ UNCHANGED <<confFile, recorded, m_val, logger, edits, sameSecond, overlap, dead>>

\* setValue under the read lock: compare and call the listener.
setValue(l) ==
    /\ ~dead /\ load[l].at = "set"
    /\ IF load[l].val = m_val
       THEN load' = [load EXCEPT ![l] = NoLoad] /\ UNCHANGED <<logger, dead>>
       ELSE /\ load' = [load EXCEPT ![l].at = "store"]
            /\ dead' = NullAppender(m_val, load[l].val)
            /\ logger' = IF dead' THEN logger ELSE LogInit(m_val, load[l].val, logger)
    /\ UNCHANGED <<confFile, recorded, m_val, edits, sameSecond, overlap>>

\* A loader that notes the time of the file once it is loaded.
StoreValue_StampsAfter(l) ==
    /\ ~dead /\ load[l].at = "store"
    /\ m_val' = load[l].val
    /\ recorded' = confFile.mtime
    /\ load' = [load EXCEPT ![l] = NoLoad]
    /\ UNCHANGED <<confFile, logger, edits, sameSecond, overlap, dead>>

\* setValue under the write lock.
StoreValue(l) ==
    /\ ~dead /\ load[l].at = "store"
    /\ m_val' = load[l].val
    /\ load' = [load EXCEPT ![l] = NoLoad]
    /\ UNCHANGED <<confFile, recorded, logger, edits, sameSecond, overlap, dead>>

\* The file is written again, within the second of its last change or later.
Edit(content) ==
    /\ edits < MaxEdits /\ edits' = edits + 1
    /\ \E t \in {confFile.mtime, confFile.mtime + 1} :
        /\ confFile' = [content |-> content, mtime |-> t]
        /\ sameSecond' = (sameSecond \/ t = confFile.mtime)
    /\ UNCHANGED <<recorded, m_val, logger, load, overlap, dead>>

ConfigNext ==
    \/ \E l \in Loaders :
        \/ \E force \in BOOLEAN : Lstat(l, force)
        \/ Record(l) \/ LoadFile(l) \/ setValue(l) \/ StoreValue(l)
    \/ \E content \in FileContents : Edit(content)

ConfigSpec == ConfigInit /\ [][ConfigNext]_configVars

-----------------------------------------------------------------------------
\* Once loads are over, every logger is what the stored value says: the level
\* and the appenders of its entry, or silent when its entry has gone, however
\* often entries came, changed and went.  Two loads that overlap may leave
\* them apart, since the listeners run before the value is stored.
LoggersMatch ==
    (\A l \in Loaders : load[l].at # "store") /\ ~overlap =>
        \A n \in Names :
            IF n \in DOMAIN m_val THEN logger[n] = Configured(m_val[n])
            ELSE logger[n].appenders = <<>>

\* A file whose time is the recorded one has been loaded, so that skipping it
\* loses nothing: a change between lstat and LoadFile, or a load that failed,
\* is made good by the next load.  Changes within one second are the limit.
SkippedIsLoaded ==
    /\ recorded = confFile.mtime /\ \A l \in Loaders : load[l].at = "none"
    /\ ~sameSecond /\ ~overlap /\ ~Throws(confFile.content)
    => m_val = FromStr(confFile.content)

\* Loggers follow the stored value, and the stored value follows the file
\* (config.cpp 84-105, config.h 228-245, ready.h 120-190).
ConfigFollowed == LoggersMatch /\ SkippedIsLoaded
=============================================================================
