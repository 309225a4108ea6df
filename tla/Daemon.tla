------------------------------- MODULE Daemon -------------------------------
(***************************************************************************)
(* The life of a sourcachefs process: main of cmd/sourcachefs, and Loop    *)
(* and unmountOnSignal of internal/fs/root.go, as three goroutines (main,  *)
(* the signal handler and the HTTP server) that race with each other, with *)
(* signals and with a user who unmounts the file system.                   *)
(*                                                                         *)
(* The mount belongs to the kernel and outlives the process: a process     *)
(* that ends while it is mounted leaves a dead mount point, on which       *)
(* nothing can be mounted before somebody unmounts it.  What the process   *)
(* serves in between is SourcacheFS.tla.                                   *)
(***************************************************************************)
CONSTANTS
    Signal,  \* the signals that unmountOnSignal asks for
    Nil      \* an empty channel, or no exit status yet

ASSUME SignalAssumption ==
    /\ Nil \notin Signal
    /\ {"usage", "ok", "fatal"} \intersect (Signal \union {Nil}) = {}

VARIABLES
    main,     \* where the main goroutine is
    handler,  \* where unmountOnSignal is
    http,     \* where the HTTP server is
    notified, \* whether signals go to the channel wait, or kill the process
    wait,     \* the channel of signals that unmountOnSignal reads
    held,     \* the signal that unmountOnSignal has read and not yet passed on
    caught,   \* the channel caughtSignal
    mount,    \* the mount point: none, live or dead
    exit,     \* the exit status
    user,     \* history: somebody else has unmounted what this process had mounted
    again     \* history: a signal was sent after unmountOnSignal had read one

chanVars == <<notified, wait, held, caught>>
historyVars == <<user, again>>
vars == <<main, handler, http, chanVars, mount, exit, historyVars>>

Status == {"usage", "ok", "fatal"} \union Signal

TypeOK ==
    /\ main \in {"cache", "mount", "setup", "serve", "ended", "redeliver", "sleep", "exited"}
    /\ handler \in {"absent", "started", "waiting", "received", "caught", "unmount", "returned"}
    /\ http \in {"absent", "starting", "serving"}
    /\ notified \in BOOLEAN
    /\ wait \in Signal \union {Nil}
    /\ held \in Signal \union {Nil}
    /\ caught \in Signal \union {Nil}
    /\ mount \in {"none", "live", "dead"}
    /\ exit \in IF main = "exited" THEN Status ELSE {Nil}
    /\ user \in BOOLEAN
    /\ again \in BOOLEAN

Init ==
    /\ main = "cache"
    /\ handler = "absent"
    /\ http = "absent"
    /\ notified = FALSE
    /\ wait = Nil
    /\ held = Nil
    /\ caught = Nil
    /\ mount = "none"
    /\ exit = Nil
    /\ user = FALSE
    /\ again = FALSE

\* The process ends: a live mount loses its server.  glog.Fatalf and signals run
\* no deferred calls, and the deferred connection.Close does not unmount.
Exit(status) ==
    /\ main' = "exited"
    /\ exit' = status
    /\ mount' = IF mount = "live" THEN "dead" ELSE mount
    /\ UNCHANGED <<handler, http, chanVars>>
-----------------------------------------------------------------------------
\* main: a usage error, -help or a bad regular expression.
BadUsage == main = "cache" /\ (Exit("usage") \/ Exit("fatal"))

\* main: NewCache opens the cache, and --listen_address starts the HTTP server.
OpenCache ==
    /\ main = "cache"
    /\ main' = "mount"
    /\ http' \in {"absent", "starting"}
    /\ UNCHANGED <<handler, chanVars, mount, exit>>

\* main: NewCache fails (and removes the database, see SourcacheFS.tla).
OpenCacheFails == main = "cache" /\ Exit("fatal")

\* Loop: the file system is mounted, and the signal handler started.
Mount ==
    /\ main = "mount"
    /\ mount = "none"
    /\ mount' = "live"
    /\ main' = "setup"
    /\ handler' = "started"
    /\ UNCHANGED <<http, chanVars, exit>>

\* Loop: mounting fails, always so on a dead mount point.
MountFails == main = "mount" /\ Exit("fatal")

\* Loop: the row and the node of the root.
SetUp ==
    /\ main = "setup"
    /\ main' = "serve"
    /\ UNCHANGED <<handler, http, chanVars, mount, exit>>

SetUpFails == main = "setup" /\ Exit("fatal")

\* Loop: fs.Serve returns when the file system has been unmounted.
Serve ==
    /\ main = "serve"
    /\ mount = "none"
    /\ main' = "ended"
    /\ UNCHANGED <<handler, http, chanVars, mount, exit>>

\* Loop: fs.Serve fails.
ServeFails == main = "serve" /\ Exit("fatal")

\* The signal is redelivered without a look at whether there is one.
SelectRedelivers ==
    /\ main = "ended"
    /\ main' = "redeliver"
    /\ UNCHANGED <<handler, http, chanVars, mount, exit>>

\* The select has no default.
SelectBlocks ==
    /\ main = "ended"
    /\ caught # Nil
    /\ main' = "redeliver"
    /\ UNCHANGED <<handler, http, chanVars, mount, exit>>

\* Loop: the select.  Without a signal the process ends well.
Select ==
    /\ main = "ended"
    /\ \/ /\ caught # Nil
          /\ main' = "redeliver"
          /\ UNCHANGED <<handler, http, chanVars, mount, exit>>
       \/ caught = Nil /\ Exit("ok")

\* A signal s reaches the process: it kills it, or goes to the channel, where
\* there is room for one.
Deliver(s) ==
    IF notified
    THEN /\ wait' = IF wait = Nil THEN s ELSE wait
         /\ UNCHANGED <<handler, http, notified, held, caught, mount, exit>>
    ELSE Exit(s)

\* Loop: the signal is sent again, by the process to itself.
Redeliver ==
    /\ main = "redeliver"
    /\ Deliver(caught)
    /\ notified => main' = "sleep"
-----------------------------------------------------------------------------
\* unmountOnSignal: signal.Notify.
Notify ==
    /\ handler = "started"
    /\ handler' = "waiting"
    /\ notified' = TRUE
    /\ UNCHANGED <<main, http, wait, held, caught, mount, exit>>

\* unmountOnSignal, with the signals reset as soon as one is read.
ReceiveResets ==
    /\ handler = "waiting"
    /\ wait # Nil
    /\ held' = wait
    /\ wait' = Nil
    /\ handler' = "received"
    /\ notified' = FALSE
    /\ UNCHANGED <<main, http, caught, mount, exit>>

\* unmountOnSignal: <-wait.
Receive ==
    /\ handler = "waiting"
    /\ wait # Nil
    /\ held' = wait
    /\ wait' = Nil
    /\ handler' = "received"
    /\ UNCHANGED <<main, http, notified, caught, mount, exit>>

\* The signal is dropped, as if nobody were ready to receive it.
PassOnDropped ==
    /\ handler = "received"
    /\ held' = Nil
    /\ handler' = "caught"
    /\ UNCHANGED <<main, http, notified, wait, caught, mount, exit>>

\* unmountOnSignal: caught <- of what was received.  There is room for one.
PassOn ==
    /\ handler = "received"
    /\ caught' = held
    /\ held' = Nil
    /\ handler' = "caught"
    /\ UNCHANGED <<main, http, notified, wait, mount, exit>>

\* signal.Reset is forgotten.
NoReset ==
    /\ handler = "caught"
    /\ handler' = "unmount"
    /\ UNCHANGED <<main, http, chanVars, mount, exit>>

\* unmountOnSignal: signal.Reset.
Reset ==
    /\ handler = "caught"
    /\ handler' = "unmount"
    /\ notified' = FALSE
    /\ UNCHANGED <<main, http, wait, held, caught, mount, exit>>

\* unmountOnSignal: fuse.Unmount, then the goroutine returns.  That it failed,
\* with files in use or nothing mounted, is only logged.
Unmount ==
    /\ handler = "unmount"
    /\ mount' \in {mount} \union (IF mount = "live" THEN {"none"} ELSE {})
    /\ handler' = "returned"
    /\ UNCHANGED <<main, http, chanVars, exit>>

\* runHTTPServer: the address can be listened on, or glog.Fatalf ends the process.
Listen ==
    /\ http = "starting"
    /\ \/ /\ http' = "serving"
          /\ UNCHANGED <<main, handler, chanVars, mount, exit>>
       \/ Exit("fatal")
-----------------------------------------------------------------------------
\* Somebody sends a signal to the process.
SendSignal(s) ==
    /\ Deliver(s)
    /\ notified => UNCHANGED main
    /\ again' = (again \/ handler \in {"received", "caught", "unmount", "returned"})
    /\ UNCHANGED user

\* The process is killed, or panics in a handler.
Kill == Exit("fatal")

\* Somebody unmounts the file system, dead or alive.
UserUnmount ==
    /\ mount # "none"
    /\ mount' = "none"
    /\ user' = (user \/ mount = "live")
    /\ UNCHANGED <<main, handler, http, chanVars, exit, again>>

\* The program is started again.
Start ==
    /\ main = "exited"
    /\ main' = "cache"
    /\ handler' = "absent"
    /\ http' = "absent"
    /\ notified' = FALSE
    /\ wait' = Nil
    /\ held' = Nil
    /\ caught' = Nil
    /\ exit' = Nil
    /\ user' = FALSE
    /\ again' = FALSE
    /\ UNCHANGED mount

MainStep ==
    /\ \/ BadUsage \/ OpenCache \/ OpenCacheFails \/ Mount \/ MountFails \/ SetUp \/ SetUpFails
       \/ Serve \/ Select \/ Redeliver
    /\ UNCHANGED historyVars

HandlerStep ==
    /\ Notify \/ Receive \/ PassOn \/ Reset \/ Unmount
    /\ UNCHANGED historyVars

Next ==
    \/ /\ main # "exited"
       /\ \/ MainStep \/ HandlerStep
          \/ (ServeFails \/ Listen \/ Kill) /\ UNCHANGED historyVars
          \/ \E s \in Signal : SendSignal(s)
    \/ UserUnmount
    \/ Start

\* Goroutines are scheduled, and system calls return.  Nobody has to send a
\* signal, unmount the file system or start the program.
Fairness ==
    /\ WF_vars(main # "exited" /\ MainStep)
    /\ WF_vars(main # "exited" /\ HandlerStep)

Spec == Init /\ [][Next]_vars /\ Fairness
-----------------------------------------------------------------------------
\* unmountOnSignal "avoids leaking a mount point without the backing FUSE
\* server".  A process that did not fail leaves one behind only if the signal
\* came before the handler was installed, or if yet another one came between
\* signal.Reset and the unmount, or after an unmount that failed: the signal that
\* is caught, and the same one redelivered, never do.
CleanExit ==
    main = "exited" /\ mount = "dead" /\ exit # "fatal" =>
        \/ handler \in {"absent", "started"}
        \/ again /\ handler \in {"unmount", "returned"}

\* "Redeliver the signal to ourselves [...] to exit with the correct exit code":
\* a process never reports success once unmountOnSignal has gone on to reset the
\* signals and to unmount.  (It may do so when the signal was read and not
\* yet passed on, and somebody else unmounts the file system at that moment.)
SignalledExit ==
    exit = "ok" => handler \in {"started", "waiting", "received"}

\* A process that has caught a signal ends, unless it could not unmount or
\* somebody else does: it does not go on to serve, nor sleep for ever.
CaughtEnds ==
    caught # Nil ~> main = "exited" \/ user \/ (handler = "returned" /\ mount = "live")

\* A process whose file system was unmounted ends, after a signal or without
\* one, unless somebody else unmounted it and unmountOnSignal tried to as well;
\* and if that had returned before, it ends nevertheless.
UnmountedEnds ==
    /\ main = "serve" /\ mount = "none" ~> main = "exited" \/ (user /\ handler = "returned")
    /\ main = "serve" /\ mount = "none" /\ handler = "returned" ~> main = "exited"

\* integration_test.go: fuse.Unmount "Causes server to exit cleanly": after an
\* unmount the process ends, whatever else happens.
UnmountEnds == main = "serve" /\ mount = "none" ~> main = "exited"

=============================================================================
