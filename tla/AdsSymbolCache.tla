---------------------------- MODULE AdsSymbolCache ----------------------------
(***************************************************************************)
(* AdsSymbolCache of src/aioads/ads_symbol_cache.py: symbol information    *)
(* read through a cache, and the monitor task that clears the cache when   *)
(* the PLC reports a new symbol table version.                             *)
(*                                                                         *)
(* What is cached is abstracted to the version of the symbol table it was  *)
(* read from; an error the bulk read caches is information like any other. *)
(* Requests reach the PLC, are answered and are read in order, and what    *)
(* waits for an answer runs in the order the answers are read, as on one   *)
(* connection.                                                             *)
(***************************************************************************)
EXTENDS Integers, Sequences, SequencesExt

CONSTANTS
    Names,          \* symbol names, casefolded
    Readers,        \* tasks that read symbol information
    BatchSize,      \* symbols per sum command
    Offload,        \* whether an answer may be long enough to be deserialized
                    \* in a thread
    VersionMod,     \* the reported version is one byte: 256
    MaxChanges,     \* bound: how often the symbol table changes
    Monitor,        \* the name of the monitor's requests on the wire
    None

ASSUME CacheAssumption ==
    /\ BatchSize \in Nat \ {0}
    /\ Offload \in BOOLEAN
    /\ VersionMod \in Nat \ {0}
    /\ MaxChanges \in Nat
    /\ Monitor \notin Readers
    /\ None \notin Nat

VARIABLES
    cache,      \* _cache: name -> the version the entry was read from
    reader,     \* where each reader is
    rest,       \* the names a reader has yet to request
    read,       \* the names a reader has got, with their versions
    task,       \* whether _cache_monitor_task is set
    monitor,    \* where the monitor task is
    known,      \* its symbol_table_version
    stopping,   \* whether stop_cache_monitor() awaits the task
    toPlc,      \* requests on their way to the PLC
    inbox,      \* answers on their way to us
    version,    \* the version of the symbol table in the PLC
    seen,       \* history: the newest version the monitor was told
    watched,    \* history: the entries requested while the present monitor
                \* knew a version, in one batch, and stored when answered
    watching    \* history: the same of the reads in progress

monitorVars == <<task, monitor, known, stopping>>
readVars == <<reader, rest, read, watching>>
vars == <<cache, readVars, monitorVars, toPlc, inbox, version, seen, watched>>

Versions == 0..MaxChanges

NothingRead == [n \in Names |-> None]

(***************************************************************************)
(* Types, and that the task is known as long as it has not ended.          *)
(***************************************************************************)
TypeOK ==
    /\ cache \in [Names -> Versions \cup {None}]
    /\ reader \in [Readers -> {"idle", "waiting", "thread"}]
    /\ rest \in [Readers -> SUBSET Names]
    /\ read \in [Readers -> [Names -> Versions \cup {None}]]
    /\ task \in BOOLEAN
    /\ monitor \in {"none", "start", "request", "sleep", "lastsleep"}
    /\ monitor # "none" => task
    /\ known \in 0..(VersionMod - 1) \cup {None}
    /\ stopping \in BOOLEAN
    /\ toPlc \in Seq([from : Readers \cup {Monitor}, names : SUBSET Names])
    /\ inbox \in Seq([to : Readers \cup {Monitor}, names : SUBSET Names, v : Versions])
    /\ version \in Versions
    /\ seen \in Versions
    /\ watched \subseteq Names
    /\ watching \subseteq Readers

Init ==
    /\ cache = NothingRead
    /\ reader = [r \in Readers |-> "idle"]
    /\ rest = [r \in Readers |-> {}]
    /\ read = [r \in Readers |-> NothingRead]
    /\ task = FALSE
    /\ monitor = "none"
    /\ known = None
    /\ stopping = FALSE
    /\ toPlc = <<>>
    /\ inbox = <<>>
    /\ version = 0
    /\ seen = 0
    /\ watched = {}
    /\ watching = {}

-----------------------------------------------------------------------------
Send(x, N) == toPlc' = Append(toPlc, [from |-> x, names |-> N])

(***************************************************************************)
(* A request that fails, times out or is cancelled: an answer to it that   *)
(* comes later is dropped.  A task has at most one request on its way, or  *)
(* its answer; none while it sleeps or a thread works for it.              *)
(***************************************************************************)
Withdraw(x) ==
    \/ \E i \in DOMAIN toPlc :
        /\ toPlc[i].from = x
        /\ toPlc' = RemoveAt(toPlc, i)
        /\ UNCHANGED inbox
    \/ \E i \in DOMAIN inbox :
        /\ inbox[i].to = x
        /\ inbox' = RemoveAt(inbox, i)
        /\ UNCHANGED toPlc
    \/ /\ \A i \in DOMAIN toPlc : toPlc[i].from # x
       /\ \A i \in DOMAIN inbox : inbox[i].to # x
       /\ UNCHANGED <<toPlc, inbox>>

\* Mutant: the batch is requested again.
SendBatch_Repeats(r, N) ==
    \E B \in SUBSET N :
        /\ Cardinality(B) = IF Cardinality(N) < BatchSize THEN Cardinality(N) ELSE BatchSize
        /\ Send(r, B)
        /\ rest' = [rest EXCEPT ![r] = N]

(***************************************************************************)
(* AdsSumReadWrite.execute(): the next batch of at most BatchSize names.   *)
(***************************************************************************)
SendBatch(r, N) ==
    \E B \in SUBSET N :
        /\ Cardinality(B) = IF Cardinality(N) < BatchSize THEN Cardinality(N) ELSE BatchSize
        /\ Send(r, B)
        /\ rest' = [rest EXCEPT ![r] = N \ B]

(***************************************************************************)
(* The lookup of the names N: entries past their time to live (E) are      *)
(* deleted, and what is not cached is requested from the PLC.              *)
(***************************************************************************)
Lookup(r, N) ==
    /\ reader[r] = "idle"
    /\ \E E \in SUBSET {n \in N : cache[n] # None} :
        LET missing == E \cup {n \in N : cache[n] = None}
        IN  /\ cache' = [n \in Names |-> IF n \in E THEN None ELSE cache[n]]
            /\ IF missing = {}
               THEN UNCHANGED <<readVars, toPlc>>
               ELSE /\ SendBatch(r, missing)
                    /\ reader' = [reader EXCEPT ![r] = "waiting"]
                    /\ watching' = IF known # None THEN watching \cup {r} ELSE watching
                    /\ UNCHANGED read
    /\ UNCHANGED <<monitorVars, inbox, version, seen, watched>>

ReadSymbolInfoByName(r) == \E n \in Names : Lookup(r, {n})

ReadSymbolInfosByNames(r) == \E N \in SUBSET Names : N # {} /\ Lookup(r, N)

(***************************************************************************)
(* A reader that has all it wants stores it and returns; one that failed   *)
(* stores nothing.                                                         *)
(***************************************************************************)
ReadEnds(r) ==
    /\ reader' = [reader EXCEPT ![r] = "idle"]
    /\ rest' = [rest EXCEPT ![r] = {}]
    /\ read' = [read EXCEPT ![r] = NothingRead]
    /\ watching' = watching \ {r}

AddToCache(r, infos) ==
    LET N == {n \in Names : infos[n] # None}
    IN  /\ cache' = [n \in Names |-> IF n \in N THEN infos[n] ELSE cache[n]]
        /\ watched' = IF r \in watching THEN watched \cup N ELSE watched \ N
        /\ ReadEnds(r)

(***************************************************************************)
(* An answer is read: a thread may deserialize it; else the reader goes on *)
(* at once, with the next batch or to its end.                             *)
(***************************************************************************)
AnswerRead(r) ==
    /\ inbox # <<>>
    /\ Head(inbox).to = r
    /\ inbox' = Tail(inbox)
    /\ LET a == Head(inbox)
           infos == [n \in Names |-> IF n \in a.names THEN a.v ELSE read[r][n]]
       IN  \/ /\ Offload
              /\ reader' = [reader EXCEPT ![r] = "thread"]
              /\ read' = [read EXCEPT ![r] = infos]
              /\ watching' = watching \ {r}
              /\ UNCHANGED <<cache, watched, rest, toPlc>>
           \/ /\ rest[r] # {}
              /\ SendBatch(r, rest[r])
              /\ read' = [read EXCEPT ![r] = infos]
              /\ watching' = watching \ {r}
              /\ UNCHANGED <<cache, watched, reader>>
           \/ /\ rest[r] = {}
              /\ AddToCache(r, infos)
              /\ UNCHANGED toPlc
    /\ UNCHANGED <<monitorVars, version, seen>>

ThreadReturns(r) ==
    /\ reader[r] = "thread"
    /\ \/ /\ rest[r] # {}
          /\ SendBatch(r, rest[r])
          /\ reader' = [reader EXCEPT ![r] = "waiting"]
          /\ UNCHANGED <<cache, watched, read, watching>>
       \/ /\ rest[r] = {}
          /\ AddToCache(r, read[r])
          /\ UNCHANGED toPlc
    /\ UNCHANGED <<monitorVars, inbox, version, seen>>

(***************************************************************************)
(* A request of the reader fails, is answered with an error (one symbol),  *)
(* or the reader is cancelled.                                             *)
(***************************************************************************)
ReadFails(r) ==
    /\ reader[r] # "idle"
    /\ Withdraw(r)
    /\ ReadEnds(r)
    /\ UNCHANGED <<cache, monitorVars, version, seen, watched>>

-----------------------------------------------------------------------------
(***************************************************************************)
(* start_cache_monitor() and stop_cache_monitor(), called in turn by the   *)
(* client that owns the cache; connect() and disconnect() call them.       *)
(***************************************************************************)
StartCacheMonitor ==
    /\ ~stopping
    /\ ~task
    /\ task' = TRUE
    /\ monitor' = "start"
    /\ UNCHANGED <<cache, readVars, known, stopping, toPlc, inbox, version, seen, watched>>

\* Mutant: the cancellation is taken for a failed poll.
Cancelled_KeepsPolling(m) == IF m = "request" THEN "sleep" ELSE "none"

(***************************************************************************)
(* Where a cancelled monitor goes: out of a poll it breaks, but the        *)
(* finally clause sleeps once more; elsewhere it ends.                     *)
(***************************************************************************)
Cancelled(m) == IF m = "request" THEN "lastsleep" ELSE "none"

\* Mutant: the end of the task is not awaited.
StopCacheMonitor_NoAwait ==
    /\ ~stopping
    /\ task
    /\ task' = FALSE
    /\ monitor' = Cancelled(monitor)
    /\ Withdraw(Monitor)
    /\ UNCHANGED <<cache, readVars, known, stopping, version, seen, watched>>

StopCacheMonitor ==
    /\ ~stopping
    /\ task
    /\ stopping' = TRUE
    /\ monitor' = Cancelled(monitor)
    /\ Withdraw(Monitor)
    /\ UNCHANGED <<cache, readVars, task, known, version, seen, watched>>

StopReturns ==
    /\ stopping
    /\ monitor = "none"
    /\ stopping' = FALSE
    /\ task' = FALSE
    /\ UNCHANGED <<cache, readVars, monitor, known, toPlc, inbox, version, seen, watched>>

-----------------------------------------------------------------------------
(***************************************************************************)
(* _monitor(): a poll at once and after every sleep.  A new monitor knows  *)
(* no version, so nothing cached before is watched any more.               *)
(***************************************************************************)
Poll ==
    /\ monitor' = "request"
    /\ Send(Monitor, {})

MonitorStarts ==
    /\ monitor = "start"
    /\ known' = None
    /\ watched' = {}
    /\ watching' = {}
    /\ Poll
    /\ UNCHANGED <<cache, reader, rest, read, task, stopping, inbox, version, seen>>

MonitorWakes ==
    /\ monitor = "sleep"
    /\ Poll
    /\ UNCHANGED <<cache, readVars, task, known, stopping, inbox, version, seen, watched>>

Reported(v) == v % VersionMod

\* Mutant: the new version is stored and the cache is kept.
VersionRead_NoClear(v) ==
    /\ known' = Reported(v)
    /\ UNCHANGED <<cache, watched>>

(***************************************************************************)
(* A version is known: the first one is stored, a different one clears the *)
(* cache.                                                                  *)
(***************************************************************************)
VersionRead(v) ==
    \/ /\ known \in {None, Reported(v)}
       /\ known' = Reported(v)
       /\ UNCHANGED <<cache, watched>>
    \/ /\ known \notin {None, Reported(v)}
       /\ cache' = NothingRead
       /\ watched' = {}
       /\ known' = Reported(v)

VersionAnswered ==
    /\ inbox # <<>>
    /\ Head(inbox).to = Monitor
    /\ inbox' = Tail(inbox)
    /\ VersionRead(Head(inbox).v)
    /\ seen' = Head(inbox).v
    /\ monitor' = "sleep"
    /\ UNCHANGED <<readVars, task, stopping, toPlc, version>>

\* Mutant: a failed poll ends the loop.
PollFails_Ends ==
    /\ monitor = "request"
    /\ Withdraw(Monitor)
    /\ monitor' = "none"
    /\ UNCHANGED <<cache, readVars, task, known, stopping, version, seen, watched>>

(***************************************************************************)
(* The poll fails, which is logged, and the monitor sleeps as usual.       *)
(***************************************************************************)
PollFails ==
    /\ monitor = "request"
    /\ Withdraw(Monitor)
    /\ monitor' = "sleep"
    /\ UNCHANGED <<cache, readVars, task, known, stopping, version, seen, watched>>

LastSleepEnds ==
    /\ monitor = "lastsleep"
    /\ monitor' = "none"
    /\ UNCHANGED <<cache, readVars, task, known, stopping, toPlc, inbox, version, seen, watched>>

-----------------------------------------------------------------------------
(***************************************************************************)
(* The PLC: the symbol table changes with a download or an online change.  *)
(***************************************************************************)
PlcAnswers(x) ==
    /\ toPlc # <<>>
    /\ Head(toPlc).from = x
    /\ toPlc' = Tail(toPlc)
    /\ inbox' = Append(inbox, [to |-> x, names |-> Head(toPlc).names, v |-> version])
    /\ UNCHANGED <<cache, readVars, monitorVars, version, seen, watched>>

PlcChanges ==
    /\ version < MaxChanges
    /\ version' = version + 1
    /\ UNCHANGED <<cache, readVars, monitorVars, toPlc, inbox, seen, watched>>

-----------------------------------------------------------------------------
ReaderNext(r) ==
    \/ ReadSymbolInfoByName(r)
    \/ ReadSymbolInfosByNames(r)
    \/ AnswerRead(r)
    \/ ThreadReturns(r)
    \/ ReadFails(r)

MonitorNext ==
    \/ MonitorStarts
    \/ MonitorWakes
    \/ VersionAnswered
    \/ PollFails
    \/ LastSleepEnds

Next ==
    \/ \E r \in Readers : ReaderNext(r)
    \/ StartCacheMonitor
    \/ StopCacheMonitor
    \/ StopReturns
    \/ MonitorNext
    \/ \E x \in Readers \cup {Monitor} : PlcAnswers(x)
    \/ PlcChanges

Spec == Init /\ [][Next]_vars

(***************************************************************************)
(* Fairness: sleeps end, what is ready runs, the PLC answers, and a        *)
(* monitor that polls again and again has an answer again and again (the   *)
(* connection is not down for ever).                                       *)
(***************************************************************************)
PollsSucceed == []<>(monitor = "request") => []<><<VersionAnswered>>_vars

Fairness ==
    /\ WF_vars(MonitorStarts)
    /\ WF_vars(MonitorWakes)
    /\ WF_vars(LastSleepEnds)
    /\ WF_vars(StopReturns)
    /\ WF_vars(PlcAnswers(Monitor))
    /\ WF_vars(VersionAnswered)
    /\ PollsSucceed
    /\ \A r \in Readers :
        /\ WF_vars(PlcAnswers(r))
        /\ WF_vars(AnswerRead(r))
        /\ WF_vars(ThreadReturns(r))

FairSpec == Spec /\ Fairness

-----------------------------------------------------------------------------
(***************************************************************************)
(* No entry is older than the newest version the monitor has been told:    *)
(* the cache is invalidated when necessary (ads_symbol_cache.py:25).       *)
(***************************************************************************)
NoStaleEntry == \A n \in Names : cache[n] # None => cache[n] >= seen

(***************************************************************************)
(* The same of the watched entries: requested while the present monitor    *)
(* knew a version, in one batch, and stored in the step that read the      *)
(* answer.  The version the monitor hears next is then the newer one.      *)
(***************************************************************************)
NoStaleWatchedEntry == \A n \in watched : cache[n] # None => cache[n] >= seen

(***************************************************************************)
(* A watched entry that the PLC has made stale does not stay: the monitor  *)
(* clears it, or is stopped.                                               *)
(***************************************************************************)
StaleIsDropped ==
    \A n \in Names :
        (n \in watched /\ cache[n] # None /\ cache[n] < version /\ task /\ ~stopping)
            ~> (n \notin watched \/ cache[n] = None \/ cache[n] = version \/ stopping)

(***************************************************************************)
(* A read of any number of batches ends, also when answers are handed to   *)
(* a thread and the monitor polls in between.                              *)
(***************************************************************************)
ReadCompletes == \A r \in Readers : reader[r] # "idle" ~> reader[r] = "idle"

(***************************************************************************)
(* stop_cache_monitor() returns, also when it interrupts a poll.           *)
(***************************************************************************)
StopCompletes == stopping ~> ~stopping
=============================================================================
