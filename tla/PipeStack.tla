----------------------------- MODULE PipeStack -----------------------------
(***************************************************************************)
(* The client-server stack of Lab 1 (ClientServerStack.c): one process in  *)
(* which main starts the thread ServerJob and then runs ClientJob, which   *)
(* reads commands from the user.  They talk over a named pipe.  The server *)
(* keeps a linked stack whose nodes and integers come from the heap.       *)
(*                                                                         *)
(* A system call is a step, and so is what the server does with a request  *)
(* between two of them: no other thread sees the stack.                    *)
(***************************************************************************)
EXTENDS Integers, Sequences, FiniteSets, FiniteSetsExt

CONSTANTS Addr,      \* bound: the blocks of the heap
          NULL,
          Vals       \* the integers the user may type

ASSUME NullAssumption == NULL \notin Addr
ASSUME ValsAssumption == Vals \subseteq Int
ASSUME AddrAssumption == IsFiniteSet(Addr)

VARIABLES
    process,         \* "alive" or "exited"
    spc,             \* where ServerJob is, or how it ended
    cpc,             \* where ClientJob is
    toServer,        \* what the client has written and the server not read
    toClient,        \* the answers written and not read
    ended,           \* the user's input has ended
    unread,          \* a word that scanf_s has left in the input, or NONE
    inputBuffer,     \* the last word read as a command
    requestBuffer,   \* the client's request: an operation and a value
    stack,           \* the record [bottom, top, size]
    used,            \* the blocks of the heap in use
    prev, data,      \* the fields of a node
    int,             \* the integer in a block
    shown            \* what the server has printed last

heap == <<used, prev, data, int>>
input == <<ended, unread, inputBuffer, requestBuffer>>
server == <<spc, stack, heap, shown>>
vars == <<process, server, cpc, toServer, toClient, input>>

SERVERHELP == -2
SERVEREXIT == -1
STACKPEEK == 0
STACKPOP == 1
STACKPUSH == 2
STACKNEW == 3
STACKSIZE == 4
STACKISEMPTY == 5
STACKDISPLAY == 6

(* The commands that are sent as they are, and what they are sent as.      *)
Simple == [peek |-> STACKPEEK, pop |-> STACKPOP, new |-> STACKNEW, size |-> STACKSIZE,
           isempty |-> STACKISEMPTY, display |-> STACKDISPLAY, help |-> SERVERHELP]

Words == DOMAIN Simple \cup {"push", "exit", "other"}
NONE == "none"

HELLO == <<1>>       \* the byte that opens a session; a request is a pair
Requests == (SERVERHELP..STACKDISPLAY) \X (Vals \cup {0})

emptyStack_NoSize == [bottom |-> NULL, top |-> NULL, size |-> -1]
emptyStack == [bottom |-> NULL, top |-> NULL, size |-> 0]

Init ==
    /\ process = "alive" /\ spc = "start" /\ cpc = "sleep"
    /\ toServer = << >> /\ toClient = << >>
    /\ ended = FALSE /\ unread = NONE
    /\ inputBuffer = "other"      \* uninitialised: no command
    /\ requestBuffer = <<0, 0>>
    /\ stack = emptyStack         \* its block is allocated with the session
    /\ used = {}
    /\ prev = [a \in Addr |-> NULL] /\ data = [a \in Addr |-> NULL]
    /\ int = [a \in Addr |-> 0]
    /\ shown = <<"nothing", << >>>>

-----------------------------------------------------------------------------
(* The stack.  Each operation gives the stack and the heap it leaves.      *)

(* The node so many links down from the top, or NULL past the end.         *)
NodeAt ==
    LET walk[n \in 0..Cardinality(Addr)] ==
            IF n = 0 THEN stack.top
            ELSE IF walk[n - 1] = NULL THEN NULL ELSE prev[walk[n - 1]]
    IN  walk

(* The nodes from the top to the one that links to NULL.                   *)
nodes ==
    LET walk == NodeAt
        ends == {n \in DOMAIN walk : walk[n] = NULL}
    IN  [i \in 1..(IF ends = {} THEN Cardinality(Addr) ELSE Min(ends)) |-> walk[i - 1]]

stackPush_Unlinked(n) == stack' = [stack EXCEPT !.top = n, !.size = @ + 1] /\ UNCHANGED prev
stackPush(n) ==
    /\ prev' = [prev EXCEPT ![n] = IF stack.size = 0 THEN NULL ELSE stack.top]
    /\ stack' = [bottom |-> IF stack.size = 0 THEN n ELSE stack.bottom,
                 top |-> n, size |-> stack.size + 1]

stackPeekInt_Bottom == IF stack.bottom = NULL THEN -1 ELSE int[data[stack.bottom]]
stackPeekInt == IF stack.top = NULL THEN -1 ELSE int[data[stack.top]]

(* An integer and then a node are allocated; when there is no room for the *)
(* node the integer is lost.                                               *)
stackPushInt(v) ==
    \/ shown' = <<"refused", << >>>> /\ UNCHANGED <<stack, heap>>
    \/ \E d \in Addr \ used :
         /\ int' = [int EXCEPT ![d] = v]
         /\ \/ /\ used' = used \cup {d}
               /\ shown' = <<"refused", << >>>>
               /\ UNCHANGED <<stack, prev, data>>
            \/ \E n \in Addr \ (used \cup {d}) :
                 /\ used' = used \cup {d, n}
                 /\ data' = [data EXCEPT ![n] = d]
                 /\ stackPush(n)
                 /\ shown' = <<"push", <<stackPeekInt'>>>>

(* The node is freed, its integer is not.                                  *)
HeapFree_WithData == used' = used \ {stack.top, data[stack.top]}
HeapFree == used' = used \ {stack.top}

stackPop ==
    IF stack.top = NULL THEN UNCHANGED <<stack, heap>>
    ELSE /\ stack' = [stack EXCEPT !.top = prev[stack.top], !.size = @ - 1]
         /\ HeapFree
         /\ UNCHANGED <<prev, data, int>>

(* As many pops as the size says.                                          *)
stackClear == used' = used \ {NodeAt[i] : i \in 0..(stack.size - 1)} /\ UNCHANGED <<prev, data, int>>

-----------------------------------------------------------------------------
(* ServerJob.  Every way out closes the pipe; once there is a stack it is   *)
(* cleared and given back as well.                                         *)

Serving == {"ready", "answer"}
ServerHasPipe_Forgotten == spc \in {"created", "listening", "hello", "no memory"} \cup Serving
ServerHasPipe == spc \in {"created", "listening", "hello"} \cup Serving
ClientHasPipe == cpc \in {"greet", "command", "value", "send", "await"}

ServerFrame == UNCHANGED <<process, cpc, input>>

Ends(how) ==
    /\ spc' = how
    /\ IF spc \in Serving
         THEN stackClear /\ stack' = emptyStack /\ UNCHANGED shown
         ELSE UNCHANGED <<stack, heap, shown>>

CreatePipe ==
    /\ spc = "start"
    /\ \/ spc' = "created" /\ UNCHANGED <<stack, heap, shown>>
       \/ Ends("no pipe")
    /\ ServerFrame /\ UNCHANGED <<toServer, toClient>>

(* ConnectNamedPipe fails when a client is there before it is called.      *)
ConnectPipe ==
    /\ spc = "created"
    /\ IF cpc = "sleep" THEN spc' = "listening" /\ UNCHANGED <<stack, heap, shown>>
       ELSE Ends("too late")
    /\ ServerFrame /\ UNCHANGED <<toServer, toClient>>

PipeConnected ==
    /\ spc = "listening" /\ cpc # "sleep"
    /\ spc' = "hello"
    /\ ServerFrame /\ UNCHANGED <<stack, heap, shown, toServer, toClient>>

ReadHello ==
    /\ spc = "hello" /\ toServer # << >>
    /\ toServer' = Tail(toServer)
    /\ \/ Head(toServer) = HELLO /\ spc' = "ready" /\ stack' = emptyStack /\ UNCHANGED <<heap, shown>>
       \/ Ends(IF Head(toServer) = HELLO THEN "no memory" ELSE "no client")
    /\ ServerFrame /\ UNCHANGED toClient

(* The switch over a request.  A request that asks the server to end is in *)
(* it too, though the client never sends one.                              *)
Serve(op, v) ==
    \/ /\ op = STACKPEEK
       /\ shown' = <<"peek", <<stackPeekInt>>>> /\ UNCHANGED <<stack, heap>>
    \/ /\ op = STACKPOP
       /\ shown' = <<"pop", <<stackPeekInt>>>> /\ stackPop
    \/ /\ op = STACKPUSH
       /\ stackPushInt(v)
    \/ /\ op = STACKNEW
       /\ shown' = <<"new", << >>>> /\ stackClear /\ stack' = emptyStack
    \/ /\ op = STACKSIZE
       /\ shown' = <<"size", <<stack.size>>>> /\ UNCHANGED <<stack, heap>>
    \/ /\ op = STACKISEMPTY
       /\ shown' = <<IF stack.size > 0 THEN "filled" ELSE "empty", << >>>>
       /\ UNCHANGED <<stack, heap>>
    \/ /\ op = STACKDISPLAY
       /\ shown' = <<"display", [i \in DOMAIN nodes |-> int[data[nodes[i]]]]>>
       /\ UNCHANGED <<stack, heap>>
    \/ /\ op = SERVERHELP
       /\ shown' = <<"help", << >>>> /\ UNCHANGED <<stack, heap>>

ReadRequest ==
    /\ spc = "ready" /\ toServer # << >>
    /\ toServer' = Tail(toServer)
    /\ IF Head(toServer)[1] = SERVEREXIT THEN Ends("stopped")
       ELSE Serve(Head(toServer)[1], Head(toServer)[2]) /\ spc' = "answer"
    /\ ServerFrame /\ UNCHANGED toClient

ReadFails ==
    /\ spc = "ready" /\ toServer = << >> /\ ~ClientHasPipe
    /\ Ends("read failed")
    /\ ServerFrame /\ UNCHANGED <<toServer, toClient>>

WriteAnswer ==
    /\ spc = "answer"
    /\ IF ClientHasPipe
         THEN /\ toClient' = Append(toClient, 1) /\ spc' = "ready"
              /\ UNCHANGED <<stack, heap, shown>>
         ELSE Ends("write failed") /\ UNCHANGED toClient
    /\ ServerFrame /\ UNCHANGED toServer

ServerJob ==
    \/ CreatePipe \/ ConnectPipe \/ PipeConnected \/ ReadHello
    \/ ReadRequest \/ ReadFails \/ WriteAnswer

-----------------------------------------------------------------------------
(* ClientJob, which main runs after half a second.  The pause orders        *)
(* nothing: the client may open the pipe at any moment.                    *)

ClientFrame == UNCHANGED <<process, server>>

OpenPipe ==
    /\ cpc = "sleep"
    /\ cpc' = IF spc \in {"created", "listening"} THEN "greet" ELSE "gone"
    /\ ClientFrame /\ UNCHANGED <<toServer, toClient, input>>

(* A write fails when the server has closed the pipe.                      *)
Writes(message, next) ==
    /\ \/ ServerHasPipe /\ toServer' = Append(toServer, message) /\ cpc' = next
       \/ ~ServerHasPipe /\ cpc' = "gone" /\ UNCHANGED toServer
    /\ ClientFrame /\ UNCHANGED <<toClient, input>>

Greet_Silent == cpc = "greet" /\ cpc' = "command" /\ ClientFrame /\ UNCHANGED <<toServer, toClient, input>>
Greet == cpc = "greet" /\ Writes(HELLO, "command")

(* What is done with the word read as a command.  The operation is in the  *)
(* request even when no value follows; exit is not sent.                   *)
exitSends_Yes == TRUE
exitSends == FALSE

Obey(w) ==
    /\ inputBuffer' = w
    /\ requestBuffer' =
         IF w \in DOMAIN Simple THEN <<Simple[w], requestBuffer[2]>>
         ELSE IF w = "push" THEN <<STACKPUSH, requestBuffer[2]>>
         ELSE IF w = "exit" THEN <<SERVEREXIT, requestBuffer[2]>>
         ELSE requestBuffer
    /\ cpc' = CASE w \in DOMAIN Simple -> "send"
                [] w = "push" -> "value"
                [] w = "exit" -> IF exitSends THEN "send" ELSE "gone"
                [] OTHER -> "command"

(* A word is read: one left in the input, or one the user types; after the *)
(* end of the input the buffer keeps the word it had.                      *)
ReadCommand ==
    /\ cpc = "command"
    /\ \/ unread # NONE /\ Obey(unread) /\ unread' = NONE
       \/ unread = NONE /\ ~ended /\ UNCHANGED unread /\ \E w \in Words : Obey(w)
       \/ unread = NONE /\ ended /\ UNCHANGED unread /\ Obey(inputBuffer)
    /\ ClientFrame /\ UNCHANGED <<ended, toServer, toClient>>

valueAtEnd_Reset == 0
valueAtEnd == requestBuffer[2]

afterWord_Sends == "send"
afterWord == "command"

(* The value to push: an integer; or a word, which stays in the input; or  *)
(* the end of the input, where scanf_s returns EOF, which is not 0, and    *)
(* the value of the push before goes out again.                            *)
ReadValue ==
    /\ cpc = "value"
    /\ \/ /\ ~ended
          /\ \/ \E v \in Vals : requestBuffer' = <<STACKPUSH, v>> /\ cpc' = "send" /\ UNCHANGED unread
             \/ \E w \in Words : unread' = w /\ cpc' = afterWord /\ UNCHANGED requestBuffer
       \/ /\ ended
          /\ requestBuffer' = <<STACKPUSH, valueAtEnd>>
          /\ cpc' = "send" /\ UNCHANGED unread
    /\ ClientFrame /\ UNCHANGED <<ended, inputBuffer, toServer, toClient>>

afterSend_NoWait == "command"
afterSend == "await"

SendRequest == cpc = "send" /\ Writes(requestBuffer, afterSend)

ReadAnswer ==
    /\ cpc = "await"
    /\ \/ toClient # << >> /\ toClient' = Tail(toClient)
          /\ cpc' = IF Head(toClient) = 1 THEN "command" ELSE "gone"
       \/ toClient = << >> /\ ~ServerHasPipe /\ cpc' = "gone" /\ UNCHANGED toClient
    /\ ClientFrame /\ UNCHANGED <<toServer, input>>

ClientJob == OpenPipe \/ Greet \/ ReadCommand \/ ReadValue \/ SendRequest \/ ReadAnswer

(* The user ends the input at any moment, perhaps right after a word that  *)
(* is still to be read.                                                    *)
InputEnds ==
    /\ ~ended /\ ended' = TRUE
    /\ ClientFrame /\ UNCHANGED <<cpc, toServer, toClient, unread, inputBuffer, requestBuffer>>

(* main returns, which ends the process and the server with it.            *)
MainReturns ==
    /\ cpc = "gone"
    /\ process' = "exited"
    /\ UNCHANGED <<server, cpc, toServer, toClient, input>>

-----------------------------------------------------------------------------
Next == process = "alive" /\ (ServerJob \/ ClientJob \/ InputEnds \/ MainReturns)

Spec == Init /\ [][Next]_vars

(* The threads run: every step but the reading of what the user may not    *)
(* type.  Nothing is assumed of the user.                                  *)
Fairness ==
    /\ WF_vars(Next /\ ServerJob)
    /\ WF_vars(Next /\ (OpenPipe \/ Greet \/ SendRequest \/ ReadAnswer))

FairSpec == Spec /\ Fairness

-----------------------------------------------------------------------------
(* Properties *)

Gone == {"no pipe", "too late", "no client", "no memory", "read failed", "write failed", "stopped"}

(* Every variable has its type. *)
TypeOK ==
    /\ process \in {"alive", "exited"}
    /\ spc \in {"start", "created", "listening", "hello"} \cup Serving \cup Gone
    /\ cpc \in {"sleep", "greet", "command", "value", "send", "await", "gone"}
    /\ toServer \in Seq({HELLO} \cup Requests) /\ toClient \in Seq({1})
    /\ ended \in BOOLEAN /\ unread \in Words \cup {NONE} /\ inputBuffer \in Words
    /\ requestBuffer \in Requests
    /\ stack \in [bottom : Addr \cup {NULL}, top : Addr \cup {NULL}, size : Nat]
    /\ used \subseteq Addr
    /\ prev \in [Addr -> Addr \cup {NULL}] /\ data \in [Addr -> Addr \cup {NULL}]
    /\ int \in [Addr -> Vals \cup {0}]

(* The size counts the nodes down to NULL; the nodes and their integers    *)
(* are different blocks, all in use; the bottom is the last of them        *)
(* (stackPush and stackPop keep three fields in step with the links).      *)
WellStacked ==
    LET ns == {nodes[i] : i \in DOMAIN nodes}
        ds == {data[n] : n \in ns}
    IN  /\ stack.size = Len(nodes)
        /\ ns \cup ds \subseteq used
        /\ Cardinality(ns \cup ds) = 2 * stack.size
        /\ stack.size > 0 => stack.bottom = nodes[stack.size]

contents == [i \in DOMAIN nodes |-> int[data[nodes[Len(nodes) + 1 - i]]]]

Contract == INSTANCE StackContract WITH stack <- contents

(* Every request does to the stack what the contract says, and the server  *)
(* prints the truth about it, whatever the heap refuses (ServerJob).       *)
Implements == Contract!Spec

(* The blocks in use that are no part of the stack. *)
lost == used \ UNION {{nodes[i], data[nodes[i]]} : i \in DOMAIN nodes}

(* Every value that leaves the stack, popped or cleared, leaves its        *)
(* integer on the heap for ever: memory runs out after so many pushes,     *)
(* however small the stack is kept (stackPopint, stackClear).              *)
PoppedIsLost ==
    [][ /\ lost \subseteq lost'
        /\ Len(nodes') < Len(nodes)
             => Cardinality(lost') = Cardinality(lost) + Len(nodes) - Len(nodes') ]_vars

(* Client and server take turns.  At the prompt the server has done all it *)
(* was asked: no request waits, and the answers have been read.  While the *)
(* client waits, a request, the work on it or its answer is under way, and *)
(* only one of them, so that the two never wait for each other.            *)
OneAtATime ==
    /\ cpc \in {"command", "value", "send"} =>
          /\ toClient = << >> /\ spc # "answer"
          /\ toServer \in {<< >>, <<HELLO>>}
    /\ cpc = "await" /\ spc \in Serving =>
          \/ spc = "answer" /\ toServer = << >> /\ toClient = << >>
          \/ spc = "ready" /\ ((toServer = << >>) # (toClient = << >>))

(* What the server has done while the client waits is what the last word    *)
(* read asks for, and a push is of the integer in the request.  A word      *)
(* typed in place of that integer is read as a command before anything is   *)
(* sent, so that the STACKPUSH it finds in the request is never sent for it *)
(* (ClientJob lines 301-338, ServerJob's switch).                           *)
Prints == [w \in DOMAIN Simple \cup {"push"} |->
             CASE w = "push" -> {"push", "refused"}
               [] w = "isempty" -> {"empty", "filled"}
               [] OTHER -> {w}]

AnswersTheWord ==
    /\ cpc \in {"send", "await"} => unread = NONE
    /\ cpc = "await" /\ spc = "answer" =>
          /\ shown[1] \in Prints[inputBuffer]
          /\ shown[1] = "push" => shown[2] = <<requestBuffer[2]>>

(* A session ends only through the client, which hangs up: the server is   *)
(* never told to stop and never fails to answer.  The code for both, and   *)
(* for a wrong greeting, is dead.                                          *)
EndsByHangUp == spc \notin {"stopped", "write failed", "no client"}

(* Once the input has ended and no word is left to be read, the request     *)
(* never changes again, and is what the client sends for ever: the command  *)
(* it read last with the integer it read last, which need not have been     *)
(* typed together.  After "push 1, peek, push" 1 is pushed without end,     *)
(* though nobody asked for it twice (ClientJob lines 297-311).              *)
AfterTheEndOnlyRepeats ==
    [][ended /\ unread = NONE => UNCHANGED requestBuffer]_vars

(* A client that waits for an answer gets it or learns that the server is  *)
(* gone.                                                                   *)
NoAnswerIsAwaitedForEver == cpc = "await" ~> cpc # "await"

(* A client that has opened the pipe gets a session, unless it came before *)
(* the server was listening, or memory ran out, or the user left.          *)
ServedUnlessEarly ==
    cpc = "greet" ~> spc \in Serving \cup {"too late", "no memory"} \/ process = "exited"
=============================================================================
