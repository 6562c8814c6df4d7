---------------------------- MODULE ModuleManager ----------------------------
(***************************************************************************)
(* ModuleManager (module.cpp) and Library::GetModule (library.cpp): one    *)
(* thread loads modules from files, others remove them by name.  A Module  *)
(* is held by shared pointers; the last one calls DestoryModule and        *)
(* dlclose.                                                                *)
(***************************************************************************)
EXTENDS Naturals, FiniteSets

CONSTANTS
    Files,        \* library files
    IdOf,         \* file -> the id of its module
    Removers,     \* threads that call del and delAll
    MaxLoads      \* bound: modules ever made

NoFile == ""  \* of a module that is not made yet

\* Names of files are not empty; the thread that loads removes nothing.
ASSUME ModuleNames == NoFile \notin Files /\ "loader" \notin Removers
ASSUME LoadsBound == MaxLoads \in Nat

Loader == "loader"
ModThreads == Removers \cup {Loader}
Ids == {IdOf[f] : f \in Files}

VARIABLES
    m_modules,    \* id -> module, 0 when there is none
    module,       \* each module made: its file and how often it was unloaded
    alive,        \* modules that some pointer holds
    handles,      \* file -> how often it is open
    doing         \* each thread: ids it has still to delete, modules it holds

modVars == <<m_modules, module, alive, handles, doing>>

\* copy: the map of delAll; old: the module del has taken out; new: the one
\* that add() will put in.
Rest == [at |-> "none", ids |-> {}, copy |-> {}, old |-> 0, new |-> 0]
Deleting(ids, copy, new) ==
    [at |-> "del", ids |-> ids, copy |-> copy, old |-> 0, new |-> new]

ModInit ==
    /\ m_modules = [i \in Ids |-> 0]
    /\ module = [m \in 1..MaxLoads |-> [file |-> NoFile, unloads |-> 0]]
    /\ alive = {}
    /\ handles = [f \in Files |-> 0]
    /\ doing = [t \in ModThreads |-> Rest]

\* Modules that the map or a thread refers to.
HeldModules(map, does) ==
    ({map[i] : i \in Ids}
       \cup UNION {does[t].copy \cup {does[t].old, does[t].new} : t \in ModThreads}) \ {0}

\* ModuleCloser runs for the modules nobody holds any more.
ModuleCloser ==
    LET dead == alive \ HeldModules(m_modules', doing')
    IN /\ alive' = alive \ dead
       /\ handles' = [f \in Files |-> handles[f] - Cardinality({m \in dead : module[m].file = f})]

-----------------------------------------------------------------------------
NextModule == Cardinality({m \in 1..MaxLoads : module[m].file # NoFile}) + 1

\* A module of its own for each load; add() begins with del().
Made(f) ==
    /\ NextModule <= MaxLoads
    /\ module' = [module EXCEPT ![NextModule].file = f]
    /\ alive' = alive \cup {NextModule}
    /\ handles' = [handles EXCEPT ![f] = @ + 1]
    /\ doing' = [doing EXCEPT ![Loader] = Deleting({IdOf[f]}, {}, NextModule)]

\* A GetModule that leaves the library open when a symbol is missing.
GetModule_Leaks(f) ==
    /\ doing[Loader] = Rest
    /\ \/ Made(f)
       \/ handles' = [handles EXCEPT ![f] = 1] /\ UNCHANGED <<module, alive, doing>>
    /\ m_modules' = m_modules

\* dlopen and the two symbols; without one of them nothing is left open.
GetModule(f) ==
    /\ doing[Loader] = Rest
    /\ Made(f) \/ UNCHANGED <<module, alive, handles, doing>>
    /\ m_modules' = m_modules

\* del(name) is called, or delAll(), which copies the map first.
RemoveModule(r) ==
    /\ doing[r] = Rest
    /\ \/ \E i \in Ids : doing' = [doing EXCEPT ![r] = Deleting({i}, {}, 0)]
       \/ doing' = [doing EXCEPT ![r] = Deleting({i \in Ids : m_modules[i] # 0},
                                                {m_modules[i] : i \in Ids} \ {0}, 0)]
    /\ UNCHANGED <<m_modules, module, alive, handles>>

\* A del that leaves the entry in the map.
del_Keeps(t) ==
    /\ doing[t].at = "del"
    /\ \E i \in doing[t].ids :
        /\ doing' = [doing EXCEPT ![t].ids = @ \ {i}, ![t].old = m_modules[i],
                                  ![t].at = IF m_modules[i] = 0 THEN "del" ELSE "unload"]
        /\ m_modules' = m_modules
    /\ UNCHANGED <<module, alive, handles>>

\* del() under the lock: the entry is taken out of the map.
del(t) ==
    /\ doing[t].at = "del"
    /\ \E i \in doing[t].ids :
        /\ doing' = [doing EXCEPT ![t].ids = @ \ {i}, ![t].old = m_modules[i],
                                  ![t].at = IF m_modules[i] = 0 THEN "del" ELSE "unload"]
        /\ m_modules' = [m_modules EXCEPT ![i] = 0]
    /\ UNCHANGED <<module, alive, handles>>

\* onUnload() after the unlock, then del() lets go of the module.
onUnload(t) ==
    /\ doing[t].at = "unload"
    /\ module' = [module EXCEPT ![doing[t].old].unloads = @ + 1]
    /\ doing' = [doing EXCEPT ![t].at = "del", ![t].old = 0]
    /\ m_modules' = m_modules
    /\ ModuleCloser

\* add() puts the module in; del and delAll return.
Done(t) ==
    /\ doing[t].at = "del" /\ doing[t].ids = {}
    /\ m_modules' = IF t = Loader
                    THEN [m_modules EXCEPT ![IdOf[module[doing[t].new].file]] = doing[t].new]
                    ELSE m_modules
    /\ doing' = [doing EXCEPT ![t] = Rest]
    /\ module' = module
    /\ ModuleCloser

ModNext ==
    \/ \E f \in Files : GetModule(f)
    \/ \E r \in Removers : RemoveModule(r)
    \/ \E t \in ModThreads : del(t) \/ onUnload(t) \/ Done(t)

ModSpec == ModInit /\ [][ModNext]_modVars

-----------------------------------------------------------------------------
\* Every module is unloaded once before it is destroyed, and none twice, while
\* it is replaced by a new load and removed by several threads.
UnloadedOnce ==
    \A m \in 1..MaxLoads :
        /\ module[m].unloads <= 1
        /\ module[m].file # NoFile /\ m \notin alive => module[m].unloads = 1

\* A library is open as often as it has living modules: the code of a module
\* that somebody may still call stays mapped, and every path that fails or
\* drops a module closes its handle.
HandlesHeld ==
    \A f \in Files : handles[f] = Cardinality({m \in alive : module[m].file = f})

\* A module is unloaded once, and its library stays open as long as it lives
\* (module.cpp 40-110, library.cpp 15-75).
ModulesRight == UnloadedOnce /\ HandlesHeld
=============================================================================
