------------------------------ MODULE Launcher ------------------------------
(***************************************************************************)
(* DefaultModelServerLauncher and its Node variant: when the backend       *)
(* starts, it pings the model server and launches it if there is no        *)
(* answer.  The model server is external; it is "up" when it accepts       *)
(* requests, which it may do and refuse them, or never answer; it forgets  *)
(* its configuration when it goes down, and then requests fail.            *)
(***************************************************************************)
EXTENDS Naturals, Sequences

CONSTANTS
    NoWorkspace, \* the configuration of a server nobody configured
    Configured,  \* whether the launch options name the programs to run
    MaxCrashes   \* BOUND: how often the server goes down

ASSUME ConfiguredAssumption == Configured \in BOOLEAN
ASSUME MaxCrashesAssumption == MaxCrashes \in Nat

VARIABLES
    launcher,  \* how far initialize is
    process,   \* the server process the launcher spawned
    server,    \* "up" or "down": does it accept requests
    config,    \* the workspace the server was configured with
    crashes    \* how often the server went down

launcherVars == <<launcher, process, server, config, crashes>>

LauncherTypeOK ==
    /\ launcher \in {"new", "pinging", "alive", "unreachable", "done"}
    /\ process \in {"none", "starting", "running", "failed"}
    /\ server \in {"up", "down"}
    /\ crashes \in 0..MaxCrashes

(* Somebody may have started the server before.                            *)
LauncherInit ==
    /\ launcher = "new"
    /\ process = "none"
    /\ server \in {"up", "down"}
    /\ config = NoWorkspace
    /\ crashes = 0

LauncherMoves(from, to) ==
    /\ launcher = from
    /\ launcher' = to

(* initialize pings the server, ...                                        *)
Initialize ==
    /\ LauncherMoves("new", "pinging")
    /\ UNCHANGED <<process, server, config, crashes>>

(* ... which answers with success, or with anything else that throws, ...  *)
AnswerLauncher ==
    /\ server = "up"
    /\ \E to \in {"alive", "unreachable"} : LauncherMoves("pinging", to)
    /\ UNCHANGED <<process, server, config, crashes>>

(* ... or is not there, which throws, too.                                 *)
NoAnswerLauncher ==
    /\ server = "down"
    /\ LauncherMoves("pinging", "unreachable")
    /\ UNCHANGED <<process, server, config, crashes>>

FindRunning ==
    /\ LauncherMoves("alive", "done")
    /\ UNCHANGED <<process, server, config, crashes>>

(* Mutant: the server is not started when the ping fails.                  *)
StartServerForgotten ==
    /\ LauncherMoves("unreachable", "done")
    /\ UNCHANGED <<process, server, config, crashes>>

(* It starts the server if that threw and the options are valid.           *)
StartServer ==
    /\ LauncherMoves("unreachable", "done")
    /\ process' = IF Configured THEN "starting" ELSE process
    /\ UNCHANGED <<server, config, crashes>>

(* Another backend, or a developer, starts the server.                     *)
ServerStartsElsewhere ==
    /\ server = "down"
    /\ server' = "up"
    /\ UNCHANGED <<launcher, process, config, crashes>>

(* The spawned process: it comes up if nobody else took its port, or it    *)
(* cannot be spawned or dies, which is logged and nothing else.            *)
ProcessComesUp ==
    /\ process = "starting"
    /\ server = "down"
    /\ process' = "running"
    /\ server' = "up"
    /\ UNCHANGED <<launcher, config, crashes>>

ProcessFails ==
    /\ process = "starting"
    /\ process' = "failed"
    /\ UNCHANGED <<launcher, server, config, crashes>>

(* Nobody restarts a server that is gone.                                  *)
ServerCrashes ==
    /\ server = "up"
    /\ crashes < MaxCrashes
    /\ server' = "down"
    /\ config' = NoWorkspace
    /\ crashes' = crashes + 1
    /\ process' = IF process = "running" THEN "failed" ELSE process
    /\ UNCHANGED launcher

LauncherNext ==
    \/ Initialize \/ AnswerLauncher \/ NoAnswerLauncher \/ FindRunning \/ StartServer
    \/ ServerStartsElsewhere \/ ProcessComesUp \/ ProcessFails \/ ServerCrashes

(* A request to nobody fails, and a process comes up or does not.  Nothing *)
(* makes a server that is up answer: the client has no timeout.            *)
LauncherProgress ==
    \/ Initialize \/ NoAnswerLauncher \/ FindRunning \/ StartServer
    \/ ProcessComesUp \/ ProcessFails
=============================================================================
