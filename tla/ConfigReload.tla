--------------------------- MODULE ConfigReload ---------------------------
(***************************************************************************)
(* settings.json and what the running router makes of it                   *)
(* (app/config/loader.py, app/main.py, app/api/admin.py): a thread looks   *)
(* at the file's mtime and reloads, the admin endpoint reloads at once.    *)
(* Most of the router asks for the settings anew; three components keep a  *)
(* reference to the settings they were last told of, and some of their     *)
(* parts were built from the settings of the start and are never told.     *)
(*                                                                         *)
(* The versions of the file are numbered; version 0 is the defaults.       *)
(***************************************************************************)
EXTENDS Integers, FiniteSets

CONSTANTS
    MaxWrites,   \* times the file is written or removed
    MaxAdmin,    \* calls of the admin reload
    None

ASSUME ConfigReloadAssumption ==
    MaxWrites \in Nat /\ MaxAdmin \in Nat /\ None \notin {"watcher", "admin"}

VARIABLES
    file,        \* version and kind of the file
    mtime,       \* its modification time
    lastMtime,   \* _last_mtime
    settings,    \* _settings
    lock,        \* who holds _lock, or None
    loader,      \* where the watcher and the admin call are
    got,         \* what each of them read
    live,        \* the settings each part refers to or was built from
    adminCalls,  \* admin reloads so far
    raced,       \* history: the file changed between a load's read and its stat
    adminLast    \* history: the settings in force were loaded by the admin call

configVars == <<file, mtime, lastMtime, settings, lock, loader, got, live, adminCalls,
                raced, adminLast>>

Loaders == {"watcher", "admin"}

\* Those whose attribute `config` the callback of main.py assigns.
Components == {"provider", "classifier", "temporal"}

\* Built from the settings of the start: the adapter's FallbackExecutor (the
\* default base_url, timeout, retries, backoff, retry_on_status), and the classifier's
\* digest builder, prompt and key.
Captured == {"executor", "digest"}

Parts == Components \cup Captured

\* "broken": not JSON.  "invalid": JSON the schema refuses.
Kinds == {"good", "broken", "invalid", "absent"}
Files == [version : Nat, kind : Kinds]

Defaults == [version |-> 0, kind |-> "good"]
Original == [version |-> 1, kind |-> "good"]

\* lifespan: everything starts with the file as it was.
ConfigInit ==
    /\ file = Original /\ mtime = 1 /\ lastMtime = 1 /\ settings = 1
    /\ lock = None
    /\ loader = [a \in Loaders |-> "idle"]
    /\ got = [a \in Loaders |-> Original]
    /\ live = [c \in Parts |-> 1]
    /\ adminCalls = 0 /\ raced = FALSE /\ adminLast = FALSE

Goto(a, there) == loader' = [loader EXCEPT ![a] = there]

-----------------------------------------------------------------------------
(* The operator of the router                                              *)

\* A save is not atomic: the file may be seen broken before it is whole.
Write ==
    /\ mtime <= MaxWrites
    /\ mtime' = mtime + 1
    /\ \E kind \in Kinds : file' = [version |-> mtime + 1, kind |-> kind]
    /\ raced' = (\E a \in Loaders : loader[a] = "stat")
    /\ UNCHANGED <<lastMtime, settings, lock, loader, got, live, adminCalls, adminLast>>

\* POST /admin/settings/reload
AdminReload ==
    /\ loader["admin"] = "idle" /\ adminCalls < MaxAdmin
    /\ adminCalls' = adminCalls + 1
    /\ Goto("admin", "load")
    /\ UNCHANGED <<file, mtime, lastMtime, settings, lock, got, live, raced, adminLast>>

-----------------------------------------------------------------------------
(* check_and_reload and load                                               *)

Changed == mtime # lastMtime

\* No file: getmtime raises, and the watcher waits for the next round.
Watch ==
    /\ loader["watcher"] = "idle" /\ file.kind # "absent" /\ Changed
    /\ Goto("watcher", "load")
    /\ UNCHANGED <<file, mtime, lastMtime, settings, lock, got, live, adminCalls, raced, adminLast>>

\* The lock is taken and the file read: without one the defaults are loaded, one
\* that is not JSON ends the load before the mtime is looked at.
Read(a) ==
    /\ loader[a] = "load" /\ lock = None
    /\ got' = [got EXCEPT ![a] = IF file.kind = "absent" THEN Defaults ELSE file]
    /\ IF file.kind = "broken"
       THEN Goto(a, "idle") /\ UNCHANGED lock
       ELSE /\ Goto(a, IF file.kind = "absent" THEN "validate" ELSE "stat")
            /\ lock' = a
    /\ UNCHANGED <<file, mtime, lastMtime, settings, live, adminCalls, raced, adminLast>>

\* The mtime as it is now, if there still is a file.
Stat(a) ==
    /\ loader[a] = "stat"
    /\ lastMtime' = IF file.kind = "absent" THEN lastMtime ELSE mtime
    /\ Goto(a, "validate")
    /\ UNCHANGED <<file, mtime, settings, lock, got, live, adminCalls, raced, adminLast>>

\* Mutant: the watcher does not call the change callbacks either.
Mut_Validate(a) ==
    /\ loader[a] = "validate"
    /\ lock' = None
    /\ IF got[a].kind = "invalid"
       THEN Goto(a, "idle") /\ UNCHANGED <<settings, adminLast>>
       ELSE /\ settings' = got[a].version
            /\ adminLast' = (a = "admin")
            /\ Goto(a, "idle")
    /\ UNCHANGED <<file, mtime, lastMtime, got, live, adminCalls, raced>>

\* Only the watcher calls the change callbacks.
Validate(a) ==
    /\ loader[a] = "validate"
    /\ lock' = None
    /\ IF got[a].kind = "invalid"
       THEN Goto(a, "idle") /\ UNCHANGED <<settings, adminLast>>
       ELSE /\ settings' = got[a].version
            /\ adminLast' = (a = "admin")
            /\ Goto(a, IF a = "watcher" THEN "notify" ELSE "idle")
    /\ UNCHANGED <<file, mtime, lastMtime, got, live, adminCalls, raced>>

\* _notify_callbacks, outside the lock: the settings in force by now.
Notify ==
    /\ loader["watcher"] = "notify"
    /\ got' = [got EXCEPT !["watcher"] = [version |-> settings, kind |-> "good"]]
    /\ Goto("watcher", "provider")
    /\ UNCHANGED <<file, mtime, lastMtime, settings, lock, live, adminCalls, raced, adminLast>>

\* Mutant: the first component that is told ends the callback.
Mut_Following == [c \in Components |-> "idle"]

Following == [c \in Components |->
    CASE c = "provider" -> "classifier" [] c = "classifier" -> "temporal" [] c = "temporal" -> "idle"]

\* _on_reload: one component after the other, its attribute and nothing below it.
Tell(c) ==
    /\ loader["watcher"] = c
    /\ live' = [live EXCEPT ![c] = got["watcher"].version]
    /\ Goto("watcher", Following[c])
    /\ UNCHANGED <<file, mtime, lastMtime, settings, lock, got, adminCalls, raced, adminLast>>

Load(a) == Read(a) \/ Stat(a) \/ Validate(a)

WatcherStep == Watch \/ Load("watcher") \/ Notify \/ \E c \in Components : Tell(c)

ConfigNext == Write \/ AdminReload \/ Load("admin") \/ WatcherStep

-----------------------------------------------------------------------------
(* Properties                                                              *)

LoaderPCs == {"idle", "load", "stat", "validate", "notify"} \cup Components

ConfigTypeOK ==
    /\ file \in Files /\ mtime \in Nat /\ lastMtime \in Nat /\ settings \in Nat
    /\ lock \in Loaders \cup {None}
    /\ loader \in [Loaders -> LoaderPCs]
    /\ got \in [Loaders -> Files]
    /\ live \in [Parts -> Nat]
    /\ adminCalls \in Nat /\ raced \in BOOLEAN /\ adminLast \in BOOLEAN

Quiet == \A a \in Loaders : loader[a] = "idle"

\* The parts that work by other settings than those in force.
Behind == {c \in Parts : live[c] # settings}

UpToDate ==
    /\ settings = file.version
    /\ adminLast \/ Behind \subseteq Captured

Settled == Quiet /\ ~Changed /\ file.kind = "good" /\ ~raced

\* When both loaders are idle and the watcher sees nothing to do, the settings are
\* the file's, and the only parts that work by others are the captured ones, which
\* the callback does not reach: reloads by the thread and by the admin call may
\* overlap in any way.  Two cases are excepted: a write between a load's read and
\* its getmtime is never noticed, and an admin reload records the mtime without
\* calling the callback, so the watcher will not call it either.
ReloadComplete == Settled => UpToDate

\* After the last write the watcher gets there, but for the same two cases and for
\* the captured parts.
CatchesUp == <>[](file.kind = "good" /\ ~raced => UpToDate)
=============================================================================
