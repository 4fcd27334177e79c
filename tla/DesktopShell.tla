------------------------------ MODULE DesktopShell ------------------------------
(* The desktop application around the daemon: the shell that attaches to a daemon *)
(* or starts and supervises one (apps/desktop/shell, lib.rs), the daemon's own    *)
(* start and shutdown with daemon.json (packages/cli, daemon.ts), and the entry   *)
(* under which the page keeps the local runtime (apps/desktop/ui, connection.tsx).*)
(* Every start of a daemon makes a new token: a daemon is its token.  All listen  *)
(* on the port that is configured.                                                *)
EXTENDS Naturals, Sequences

CONSTANTS
    MAX_RESTARTS,
    MaxDaemons, \* bound: starts of a daemon
    MaxLaunches \* bound: launches of the application

VARIABLES
    daemons,    \* what each start has come to, and who made it
    info,       \* daemon.json: the daemon it names, 0 without the file
    shell,      \* the supervisor and its loop
    window,     \* the daemon of the initialization script, 0 without a window
    page,       \* the entry the page uses for the local runtime
    stored,     \* the entry in localStorage
    launches

shellVars == <<daemons, info, shell, window, page, stored, launches>>

Off == [pc |-> "off", child |-> 0, pid |-> 0, owns_process |-> FALSE, stopping |-> FALSE,
        restarts |-> 0, late |-> FALSE]
NoPage == [loaded |-> FALSE, token |-> 0]

ShellInit ==
    /\ daemons = <<>> /\ info = 0
    /\ shell = Off /\ window = 0
    /\ page = NoPage /\ stored = 0
    /\ launches = 0

--------------------------------------------------------------------------------
(* The daemon                                                                   *)

over(d) == daemons[d].pc \in {"exited", "cleared"}
listens(d) == daemons[d].pc \in {"listening", "ready", "stopping"}
becomes(d, pc) == daemons' = [daemons EXCEPT ![d].pc = pc]
started(by) ==
    /\ Len(daemons) < MaxDaemons
    /\ daemons' = Append(daemons, [pc |-> "starting", by |-> by])

\* startControlPlane: only one has the port; the others end with an error.
Listen(d) ==
    /\ daemons[d].pc = "starting"
    /\ becomes(d, IF \E other \in DOMAIN daemons : listens(other) THEN "exited" ELSE "listening")
    /\ UNCHANGED <<info, shell, window, page, stored, launches>>

\* writeDaemonInfo, and the handlers of the signals.
WriteInfo(d) ==
    /\ daemons[d].pc = "listening"
    /\ becomes(d, "ready")
    /\ info' = d
    /\ UNCHANGED <<shell, window, page, stored, launches>>

\* A signal before the handlers are installed ends the process.
signalled(d) ==
    CASE daemons[d].pc \in {"starting", "listening"} -> becomes(d, "exited")
      [] daemons[d].pc = "ready" -> becomes(d, "stopping")
      [] OTHER -> UNCHANGED daemons

\* The shutdown closes the port, waits for the runs and then removes daemon.json.
ClosePort(d) ==
    /\ daemons[d].pc = "stopping"
    /\ becomes(d, "draining")
    /\ UNCHANGED <<info, shell, window, page, stored, launches>>
clearDaemonInfo(d) ==
    /\ daemons[d].pc = "draining"
    /\ becomes(d, "cleared")
    /\ info' = 0
    /\ UNCHANGED <<shell, window, page, stored, launches>>

Crash(d) ==
    /\ ~over(d)
    /\ becomes(d, "exited")
    /\ UNCHANGED <<info, shell, window, page, stored, launches>>

\* `overture daemon` in a terminal, and Ctrl+C.
ByHand ==
    /\ \/ started(0)
       \/ \E d \in DOMAIN daemons : daemons[d].by = 0 /\ signalled(d)
    /\ UNCHANGED <<info, shell, window, page, stored, launches>>

--------------------------------------------------------------------------------
(* The shell                                                                    *)

at(pc) == shell.pc = pc
goes(pc) == shell' = [shell EXCEPT !.pc = pc]
check_health == info # 0 /\ listens(info)

\* The connection is baked into the script of the window; a window there is is told in
\* its live page, where nobody looks again.
open_window == window' = IF window = 0 THEN info ELSE window

Launch ==
    /\ at("off") /\ launches < MaxLaunches
    /\ launches' = launches + 1
    /\ shell' = [Off EXCEPT !.pc = "bootstrap"]
    /\ UNCHANGED <<daemons, info, window, page, stored>>

\* A daemon that answers is attached to, and never signalled.
Bootstrap ==
    /\ at("bootstrap")
    /\ IF check_health THEN open_window /\ goes("done") ELSE goes("loop") /\ UNCHANGED window
    /\ UNCHANGED <<daemons, info, page, stored, launches>>

\* supervise: the flag is looked at, then the daemon is spawned, then it is owned.
Supervise ==
    /\ at("loop")
    /\ goes(IF shell.stopping THEN "done" ELSE "spawn")
    /\ UNCHANGED <<daemons, info, window, page, stored, launches>>
Spawn ==
    /\ at("spawn")
    /\ \/ /\ started(launches)
          /\ shell' = [shell EXCEPT !.pc = "spawned", !.child = Len(daemons) + 1, !.pid = Len(daemons) + 1]
       \/ goes("done") /\ UNCHANGED daemons
    /\ UNCHANGED <<info, window, page, stored, launches>>
Own ==
    /\ at("spawned")
    /\ shell' = [shell EXCEPT !.pc = "waits", !.owns_process = TRUE]
    /\ UNCHANGED <<daemons, info, window, page, stored, launches>>

\* wait_for_daemon: whichever daemon.json names, if it answers; or time is up, and no
\* window opens for this one.
wait_for_daemon ==
    /\ at("waits")
    /\ goes("watches")
    /\ (check_health /\ open_window) \/ UNCHANGED window
    /\ UNCHANGED <<daemons, info, page, stored, launches>>

\* child.wait() returns. The restarts are counted over the life of the application.
ChildEnded ==
    /\ at("watches") /\ over(shell.child)
    /\ LET ends == shell.stopping \/ shell.restarts = MAX_RESTARTS IN
       shell' = [shell EXCEPT !.pc = IF ends THEN "done" ELSE "loop",
                              !.pid = 0, !.owns_process = FALSE,
                              !.restarts = IF ends THEN @ ELSE @ + 1]
    /\ UNCHANGED <<daemons, info, window, page, stored, launches>>

\* RunEvent::Exit, on another thread than the loop; it goes on until the process ends.
shutdown ==
    /\ ~at("off") /\ ~shell.stopping
    /\ shell' = [shell EXCEPT !.stopping = TRUE, !.late = shell.pc \in {"spawn", "spawned"}]
    /\ IF shell.owns_process /\ shell.pid # 0 THEN signalled(shell.pid) ELSE UNCHANGED daemons
    /\ UNCHANGED <<info, window, page, stored, launches>>
Gone ==
    /\ shell.stopping /\ ~at("off")
    /\ shell' = [shell EXCEPT !.pc = "off"]
    /\ window' = 0 /\ page' = NoPage
    /\ UNCHANGED <<daemons, info, stored, launches>>

--------------------------------------------------------------------------------
(* The page                                                                     *)

keeps(token) ==
    /\ page' = [loaded |-> TRUE, token |-> token]
    /\ stored' = token

\* resolveInitialEntries: an entry of the same address is kept with its token, otherwise
\* the one of the window is added; also when the page is loaded again.
Load ==
    /\ window # 0
    /\ keeps(IF stored # 0 THEN stored ELSE window)
    /\ UNCHANGED <<daemons, info, shell, window, launches>>

\* The connection is removed, or added with the token daemon.json has.
removeConnection ==
    /\ page.loaded /\ page.token # 0
    /\ keeps(0)
    /\ UNCHANGED <<daemons, info, shell, window, launches>>
addConnection ==
    /\ page.loaded /\ page.token = 0 /\ info # 0
    /\ keeps(info)
    /\ UNCHANGED <<daemons, info, shell, window, launches>>

ShellNext ==
    \/ \E d \in DOMAIN daemons : Listen(d) \/ WriteInfo(d) \/ ClosePort(d) \/ clearDaemonInfo(d) \/ Crash(d)
    \/ ByHand \/ Launch \/ Bootstrap \/ Supervise \/ Spawn \/ Own \/ wait_for_daemon \/ ChildEnded
    \/ shutdown \/ Gone
    \/ Load \/ removeConnection \/ addConnection

ShellSpec == ShellInit /\ [][ShellNext]_shellVars

--------------------------------------------------------------------------------
(* Properties                                                                   *)

\* "so shutdown() would never run and a daemon we spawned would be orphaned" (lib.rs):
\* whoever quits leaves no daemon behind that goes on by itself, unless the exit falls
\* between the look at `stopping` and the store of `owns_process`; and a shell ends no
\* daemon it has only attached to.
OrphansOnlyWhileSpawning ==
    at("off") /\ launches > 0 /\ ~shell.late =>
        \A d \in DOMAIN daemons : daemons[d].by = launches => ~listens(d) \/ daemons[d].pc = "stopping"

\* Clients find the daemon by daemon.json: it names the one that is ready, unless an
\* older one, which was still waiting for its runs, has removed the file since.
DaemonFound ==
    \A d \in DOMAIN daemons : daemons[d].pc = "ready" /\ info # d =>
        info = 0 /\ \E older \in DOMAIN daemons : daemons[older].pc = "cleared"

\* Between a window and its daemon, which answers, comes at most the entry of a daemon
\* that has given up the port: tokens are made anew at each start, and the page keeps the
\* one it has stored for the address.
StaleOnlyOfEnded ==
    window # 0 /\ listens(window) /\ page.token \notin {0, window} =>
        daemons[page.token].pc \in {"draining", "cleared", "exited"}
================================================================================
