--------------------------- MODULE NodeLifecycle ---------------------------
(***************************************************************************)
(* How the Linux peer node (Lab 7) starts, runs and stops: main, the       *)
(* listener, the REPL, the syncer, and SIGINT, which any of the threads    *)
(* may be given.                                                           *)
(*                                                                         *)
(* The node never comes to serve: init_tcp_server does not call listen,    *)
(* so that accept fails at once, and nothing is ever put into nodepool or  *)
(* filepool.  What is left of the threads is what this module models.      *)
(***************************************************************************)
VARIABLES
    process,     \* "alive" or "exited"
    handler,     \* gently_shitdown has been installed for SIGINT
    running,     \* the flag that stops the loops, 0 when the process starts
    mpc,         \* where main is
    lpc,         \* where the listener thread is
    spc,         \* where the syncer thread is
    rpc,         \* where the REPL thread is
    command,     \* what is in the REPL's buffer, "" before the first word
    prompted     \* the REPL has asked for a command

threads == <<mpc, lpc, spc, rpc>>
vars == <<process, handler, running, threads, command, prompted>>

Init ==
    /\ process = "alive" /\ handler = FALSE /\ running = FALSE
    /\ mpc = "questions" /\ lpc = "none" /\ spc = "none" /\ rpc = "none"
    /\ command = "" /\ prompted = FALSE

-----------------------------------------------------------------------------
(* main asks its questions, starts the threads and joins the listener.     *)

MainFrame == UNCHANGED <<handler, running, spc, command, prompted>>

CreateListener ==
    /\ mpc = "questions"
    /\ mpc' = "create repl" /\ lpc' = "start"
    /\ MainFrame /\ UNCHANGED <<process, rpc>>

CreateRepl ==
    /\ mpc = "create repl"
    /\ mpc' = "join" /\ rpc' = "test"
    /\ MainFrame /\ UNCHANGED <<process, lpc>>

Joined_All == lpc = "gone" /\ rpc = "gone"
Joined == lpc = "gone"

MainReturns ==
    /\ mpc = "join" /\ Joined
    /\ process' = "exited"
    /\ MainFrame /\ UNCHANGED <<mpc, lpc, rpc>>

(* Without main the process ends with its last thread. *)
LastThreadEnds ==
    /\ mpc = "gone" /\ {lpc, spc, rpc} \subseteq {"none", "gone"}
    /\ process' = "exited"
    /\ MainFrame /\ UNCHANGED <<mpc, lpc, rpc>>

-----------------------------------------------------------------------------
(* incoming_handler *)

ListenerFrame == UNCHANGED <<process, mpc, rpc, command, prompted>>

InstallHandler ==
    /\ lpc = "start"
    /\ handler' = TRUE /\ lpc' = "run"
    /\ ListenerFrame /\ UNCHANGED <<running, spc>>

SetRunning ==
    /\ lpc = "run"
    /\ running' = TRUE /\ lpc' = "create syncer"
    /\ ListenerFrame /\ UNCHANGED <<handler, spc>>

CreateSyncer ==
    /\ lpc = "create syncer"
    /\ spc' = "test" /\ lpc' = "loop"
    /\ ListenerFrame /\ UNCHANGED <<handler, running>>

(* As long as running is set accept fails, and the loop is gone through    *)
(* once more.                                                              *)
ListenerStops ==
    /\ lpc = "loop" /\ ~running
    /\ lpc' = "gone"
    /\ ListenerFrame /\ UNCHANGED <<handler, running, spc>>

(* syncer: the pool is empty, and each turn of its loop is a sleep.        *)
SyncerStops ==
    /\ spc = "test" /\ ~running
    /\ spc' = "gone"
    /\ ListenerFrame /\ UNCHANGED <<handler, running, lpc>>

-----------------------------------------------------------------------------
(* user_repl.  The command is looked at before one is read.                *)

ReplFrame == UNCHANGED <<process, handler, mpc, lpc, spc>>

gently_shitdown_Forgets == UNCHANGED running
gently_shitdown == running' = FALSE

leftOver_Cleared == ""
leftOver == command       \* the buffer is declared anew, and not cleared

ReplTests ==
    /\ rpc = "test"
    /\ rpc' = IF running THEN "compare" ELSE "gone"
    /\ command' = leftOver
    /\ ReplFrame /\ UNCHANGED <<running, prompted>>

ReplCompares ==
    /\ rpc = "compare"
    /\ prompted' = TRUE
    /\ \/ command = "exit" /\ gently_shitdown /\ rpc' = "gone"
       \/ command # "exit" /\ rpc' = "scanf" /\ UNCHANGED running
    /\ ReplFrame /\ UNCHANGED command

words == {"exit", "a file"}

(* A word is read and taken for the name of a file; at the end of the      *)
(* input nothing is read, and the last word stays.                         *)
ReplReads ==
    /\ rpc = "scanf"
    /\ command' \in words \cup {command}
    /\ rpc' = "test"
    /\ ReplFrame /\ UNCHANGED <<running, prompted>>

-----------------------------------------------------------------------------
(* SIGINT ends the process until the handler is installed.  The thread it  *)
(* is then given to clears running and ends.                               *)

Sigint ==
    \/ /\ ~handler
       /\ process' = "exited"
       /\ UNCHANGED <<handler, running, threads, command, prompted>>
    \/ /\ handler
       /\ gently_shitdown
       /\ \/ mpc # "gone" /\ mpc' = "gone" /\ UNCHANGED <<lpc, spc, rpc>>
          \/ lpc # "gone" /\ lpc' = "gone" /\ UNCHANGED <<mpc, spc, rpc>>
          \/ spc \notin {"none", "gone"} /\ spc' = "gone" /\ UNCHANGED <<mpc, lpc, rpc>>
          \/ rpc \notin {"none", "gone"} /\ rpc' = "gone" /\ UNCHANGED <<mpc, lpc, spc>>
       /\ UNCHANGED <<process, handler, command, prompted>>

Main == CreateListener \/ CreateRepl \/ MainReturns \/ LastThreadEnds
Listener == InstallHandler \/ SetRunning \/ CreateSyncer \/ ListenerStops
Repl == ReplTests \/ ReplCompares \/ ReplReads

Next == process = "alive" /\ (Main \/ Listener \/ SyncerStops \/ Repl \/ Sigint)

Spec == Init /\ [][Next]_vars

(* Every thread runs, except where it waits for the user: main with its    *)
(* questions, and the REPL in scanf.                                       *)
Fairness ==
    /\ WF_vars(Next /\ (CreateRepl \/ MainReturns \/ LastThreadEnds))
    /\ WF_vars(Next /\ Listener) /\ WF_vars(Next /\ SyncerStops)
    /\ WF_vars(Next /\ (ReplTests \/ ReplCompares))

FairSpec == Spec /\ Fairness

-----------------------------------------------------------------------------
(* Properties *)

(* Every variable has its type. *)
TypeOK ==
    /\ process \in {"alive", "exited"}
    /\ handler \in BOOLEAN /\ running \in BOOLEAN /\ prompted \in BOOLEAN
    /\ mpc \in {"questions", "create repl", "join", "gone"}
    /\ lpc \in {"none", "start", "run", "create syncer", "loop", "gone"}
    /\ spc \in {"none", "test", "gone"}
    /\ rpc \in {"none", "test", "compare", "scanf", "gone"}
    /\ command \in {"", "exit", "a file"}

(* A node that runs without a REPL has never had a prompt: the REPL looked *)
(* at running before the listener had set it, or a SIGINT in that moment   *)
(* was undone.  Such a node takes no command (user_repl line 405,          *)
(* incoming_handler line 294).                                             *)
DeafFromTheStart == running /\ rpc = "gone" => ~prompted

Started == lpc \in {"create syncer", "loop", "gone"}

(* Once the listener has set running, a stop is obeyed: main returns when  *)
(* the listener has seen it, or, if it was main that took the signal, the  *)
(* process ends with its threads; then only a REPL that waits for its user *)
(* keeps it.                                                               *)
StopIsObeyed ==
    (Started /\ ~running) ~> (process = "exited" \/ [](mpc = "gone" /\ rpc = "scanf"))

(* "exit" is compared one turn after it was read, when it has been taken   *)
(* for a file; it is obeyed all the same, because nothing clears the       *)
(* buffer in between (user_repl lines 407-414).                            *)
ExitIsObeyed == (command = "exit") ~> (process = "exited")
=============================================================================
