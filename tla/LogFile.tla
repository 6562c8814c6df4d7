------------------------------- MODULE LogFile -------------------------------
(***************************************************************************)
(* Logger::log and FileLogAppender (log.cpp 351-383, 396-417): threads     *)
(* write lines to one file that is opened anew from time to time, under a  *)
(* lock that does not cover the decision to do so.                         *)
(*                                                                         *)
(* m_filestream.open() truncates the file.                                 *)
(***************************************************************************)
EXTENDS Naturals

CONSTANTS
    LogThreads,   \* threads that log
    LineLevels,   \* levels of their lines
    Level,        \* m_level of the logger
    Period,       \* the 3 seconds of FileLogAppender::log
    EndOfTime     \* bound: the clock

\* A period is some seconds long (log.cpp:373).
ASSUME PeriodLength == Period \in Nat \ {0}

VARIABLES
    clock,        \* time(nullptr)
    disk,         \* can the file be opened?
    content,      \* the lines in the file, by the second of their event
    m_lastTime,
    m_reopenError,
    line,         \* the line each thread logs, and how far it is
    raced         \* were two threads ever past the check of one period?

logVars == <<clock, disk, content, m_lastTime, m_reopenError, line, raced>>

NoLine == [at |-> "none", time |-> 0]

\* The constructor has opened the file.
LogFileInit ==
    /\ clock = Period /\ disk = TRUE /\ content = {}
    /\ m_lastTime = 0 /\ m_reopenError = FALSE
    /\ line = [t \in LogThreads |-> NoLine]
    /\ raced = FALSE

\* Logger::log: lines below m_level are dropped, then the unlocked check.
log(t, level) ==
    /\ line[t].at = "none" /\ level >= Level
    /\ LET due == clock >= m_lastTime + Period
       IN /\ line' = [line EXCEPT ![t] = [at |-> IF due THEN "reopen" ELSE "check", time |-> clock]]
          /\ raced' = (raced \/ (due /\ \E u \in LogThreads : line[u].at \in {"reopen", "stamp"}))
    /\ UNCHANGED <<clock, disk, content, m_lastTime, m_reopenError>>

\* reopen() under the lock.
reopen(t) ==
    /\ line[t].at = "reopen"
    /\ line' = [line EXCEPT ![t].at = "stamp"]
    /\ m_reopenError' = ~disk
    /\ content' = IF disk THEN {} ELSE content
    /\ UNCHANGED <<clock, disk, m_lastTime, raced>>

\* A log that does not take note of the opening.
Stamp_Forgets(t) ==
    /\ line[t].at = "stamp"
    /\ line' = [line EXCEPT ![t].at = "check"]
    /\ UNCHANGED <<clock, disk, content, m_lastTime, m_reopenError, raced>>

\* m_lastTime is the time of the last opening.
Stamp(t) ==
    /\ line[t].at = "stamp"
    /\ line' = [line EXCEPT ![t].at = "check"]
    /\ m_lastTime' = line[t].time
    /\ UNCHANGED <<clock, disk, content, m_reopenError, raced>>

\* The line is dropped after a failed opening, or written under the lock.
WriteLine(t) ==
    /\ line[t].at = "check"
    /\ line' = [line EXCEPT ![t] = NoLine]
    /\ content' = IF m_reopenError THEN content ELSE content \cup {line[t].time}
    /\ UNCHANGED <<clock, disk, m_lastTime, m_reopenError, raced>>

LogTick ==
    /\ clock < EndOfTime /\ clock' = clock + 1
    /\ disk' \in BOOLEAN
    /\ UNCHANGED <<content, m_lastTime, m_reopenError, line, raced>>

LogFileNext ==
    \/ \E t \in LogThreads :
        \/ \E level \in LineLevels : log(t, level)
        \/ reopen(t) \/ Stamp(t) \/ WriteLine(t)
    \/ LogTick

LogFileSpec == LogFileInit /\ [][LogFileNext]_logVars

-----------------------------------------------------------------------------
\* An opening removes only lines of earlier seconds: what was logged since a
\* period began stays until the next one.  It fails only when two threads
\* have found the period over before either took note of it.
RemovesOlder ==
    [][\A t \in LogThreads :
         line[t].at = "reopen" /\ line'[t].at = "stamp" /\ ~raced =>
           \A x \in content \ content' : x < line[t].time]_logVars
=============================================================================
