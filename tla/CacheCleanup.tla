---------------------------- MODULE CacheCleanup ----------------------------
(***************************************************************************)
(* tools/mei_disk_guard.py: remove the disposable KV caches of a runtime   *)
(* root, one by name or all of them, unless a Mei server is using a cache  *)
(* there, and check the free space.  The question is asked once, then the  *)
(* directories go one after the other, while servers start and stop.       *)
(*                                                                         *)
(* Abstracted: a name is disposable or protected by its membership below,  *)
(* a directory weighs one unit of disk; the log is left out.  External: a  *)
(* server writes the pid file or not, and a stop leaves it behind or not.  *)
(***************************************************************************)
EXTENDS Integers, FiniteSets

CONSTANTS
    CacheServers,   \* Mei servers of the machine
    GuardBound      \* commands of the guard

ASSUME CacheServersAssumption == "none" \notin CacheServers
ASSUME GuardBoundAssumption == GuardBound \in Nat

\* Entries of the root: two disposable directories, a protected one, a symbolic
\* link and a plain file with disposable names.
CacheDirs == {"cell", "sweep", "retained"}
Entries == CacheDirs \cup {"link", "plain"}
Disposable == Entries \ {"retained"}
CacheUnits == 3         \* disk units of the volume
MinFreeUnits == 2       \* --min-free-gib

VARIABLES
    serving,        \* server -> the directory it uses, "off", or "memory": no cache dir
    pidFile,        \* the server server.pid names, or "none"
    entries,        \* what the root holds
    guardAt,        \* idle, check, ask, remove
    command,        \* [name, retain]; name "all" is --all-disposable, "check" the check
    listed,         \* children still to go through
    failures,
    guardCode,      \* exit code of the last command, -1 before
    seen,           \* servers up when the guard looked and ever since
    guardRuns

cacheVars == <<serving, pidFile, entries, guardAt, command, listed, failures,
               guardCode, seen, guardRuns>>

CacheInit ==
    /\ serving = [s \in CacheServers |-> "off"]
    /\ pidFile = "none"
    /\ entries = Entries
    /\ guardAt = "idle"
    /\ command = [name |-> "all", retain |-> FALSE]
    /\ listed = {}
    /\ failures = 0
    /\ guardCode = -1
    /\ seen = {}
    /\ guardRuns = 0

Up(s) == serving[s] # "off"

\* _mei_server_active: the process server.pid names, then every process with a
\* --kv-cache-dir on its command line.
ServerActive_ByPidFile == \E s \in CacheServers : Up(s) /\ pidFile = s

ServerActive ==
    \E s \in CacheServers : Up(s) /\ (pidFile = s \/ serving[s] \in CacheDirs)

-----------------------------------------------------------------------------
(* Servers                                                                 *)

Guard == <<guardAt, command, listed, failures, guardCode, guardRuns>>

ServerStarts(s, d, pid) ==
    /\ ~Up(s)
    /\ serving' = [serving EXCEPT ![s] = d]
    /\ pidFile' = IF pid THEN s ELSE pidFile
    /\ entries' = IF d \in CacheDirs THEN entries \cup {d} ELSE entries
    /\ UNCHANGED <<Guard, seen>>

ServerStops(s, pid) ==
    /\ Up(s)
    /\ serving' = [serving EXCEPT ![s] = "off"]
    /\ pidFile' = IF pid THEN "none" ELSE pidFile
    /\ seen' = seen \ {s}
    /\ UNCHANGED <<entries, Guard>>

-----------------------------------------------------------------------------
(* The guard                                                               *)

Machine == <<serving, pidFile, entries>>

ExitGuard(code) == guardCode' = code /\ guardAt' = "idle"

BeginCommand(c) ==
    /\ guardAt = "idle"
    /\ guardRuns < GuardBound
    /\ guardRuns' = guardRuns + 1
    /\ command' = c
    /\ guardAt' = IF c.name = "check" THEN "check" ELSE "ask"
    /\ guardCode' = -1
    /\ failures' = 0
    /\ UNCHANGED <<Machine, listed, seen>>

\* check_disk: 3 refuses the experiment.
CheckDisk ==
    /\ guardAt = "check"
    /\ ExitGuard(IF CacheUnits - Cardinality(entries \cap CacheDirs) >= MinFreeUnits
              THEN 0 ELSE 3)
    /\ UNCHANGED <<Machine, command, listed, failures, seen, guardRuns>>

\* _safe_cache_path
SafePath(e) == e # "link" /\ e \in Disposable

\* main and the head of cleanup_cache and cleanup_all: what ends a command before it
\* looks at the servers.
RefuseCommand ==
    /\ guardAt = "ask"
    /\ IF command.name = "all"
         THEN command.retain /\ ExitGuard(2)
         ELSE \/ ~SafePath(command.name) /\ ExitGuard(2)
              \/ SafePath(command.name) /\ command.retain /\ ExitGuard(0)
    /\ UNCHANGED <<Machine, command, listed, failures, seen, guardRuns>>

\* The servers are looked at once.  A skip is 3 for all directories, 0 for one.
LookForServers ==
    /\ guardAt = "ask"
    /\ ~command.retain
    /\ command.name # "all" => SafePath(command.name)
    /\ seen' = {s \in CacheServers : Up(s)}
    /\ IF ServerActive
         THEN ExitGuard(IF command.name = "all" THEN 3 ELSE 0) /\ UNCHANGED listed
         ELSE /\ guardAt' = "remove"
              /\ listed' = IF command.name = "all" THEN entries \cap Disposable
                           ELSE {command.name}
              /\ UNCHANGED guardCode
    /\ UNCHANGED <<Machine, command, failures, guardRuns>>

\* A link is refused and counted; an entry that is gone is no failure.
Refused(e) == IF command.name = "all" THEN e = "link"
              ELSE e = "plain" /\ e \in entries

\* The file is skipped, the directory is removed or rmtree fails and leaves it.
RemoveChild(e, works) ==
    /\ guardAt = "remove"
    /\ e \in listed
    /\ LET dir == e \in entries \cap CacheDirs
           fails == Refused(e) \/ (dir /\ ~works)
       IN  /\ entries' = IF dir /\ works THEN entries \ {e} ELSE entries
           /\ failures' = IF fails THEN failures + 1 ELSE failures
    /\ listed' = listed \ {e}
    /\ UNCHANGED <<serving, pidFile, guardAt, command, guardCode, seen, guardRuns>>

\* One directory: an error is a refusal, 2.  All: 1.
EndCommand ==
    /\ guardAt = "remove"
    /\ listed = {}
    /\ ExitGuard(IF failures = 0 THEN 0 ELSE IF command.name = "all" THEN 1 ELSE 2)
    /\ UNCHANGED <<Machine, command, listed, failures, seen, guardRuns>>

Commands == {[name |-> n, retain |-> r] : n \in Entries \cup {"all"}, r \in BOOLEAN}
            \cup {[name |-> "check", retain |-> FALSE]}

CacheNext ==
    \/ \E s \in CacheServers, pid \in BOOLEAN :
           \/ ServerStops(s, pid)
           \/ \E d \in CacheDirs \cup {"memory"} : ServerStarts(s, d, pid)
    \/ \E c \in Commands : BeginCommand(c)
    \/ CheckDisk
    \/ RefuseCommand
    \/ LookForServers
    \/ \E e \in Entries, works \in BOOLEAN : RemoveChild(e, works)
    \/ EndCommand

CacheSpec == CacheInit /\ [][CacheNext]_cacheVars

-----------------------------------------------------------------------------

\* A removal spares what is protected and what is not a directory, and the cache of
\* every server that was up when the guard looked and has been since, however the
\* pid file came to name another server or a dead one.
RemovalIsSafe ==
    [][\A e \in entries \ entries' :
          /\ e \in CacheDirs \cap Disposable
          /\ \A s \in seen : serving[s] # e]_cacheVars

=============================================================================
