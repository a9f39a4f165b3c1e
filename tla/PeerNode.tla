------------------------------ MODULE PeerNode ------------------------------
(***************************************************************************)
(* The serving side of the Windows peer node (Lab 7 Windows): main and its *)
(* REPL, the listener thread IncomingHandler, the SyncHandler and          *)
(* FIleRequestHandler threads it starts, and the clients that connect.     *)
(*                                                                         *)
(* The listener hands its work over through two cells that it keeps using: *)
(* *handlerSock on the heap and the struct fileRequest on its stack.  A    *)
(* handler reads its cell when it comes to run, so the creation of a       *)
(* thread, its first read, and the two fields of the struct are separate   *)
(* steps.                                                                  *)
(*                                                                         *)
(* Connections are numbered in the order accept returns them.  What the    *)
(* program has of one is a socket, a value that may be given to a later    *)
(* connection once it has been closed, while threads still hold it.        *)
(*                                                                         *)
(* The Syncer thread is present only through what these threads see of it: *)
(* the number of nodes in nodePool, which it may change at any time.       *)
(***************************************************************************)
EXTENDS Integers

CONSTANTS MaxConn,    \* bound: connections opened in one run
          BackLog,    \* connections the kernel queues for accept; 8 in the code
          MaxKnown,   \* bound: nodes in nodePool
          Asks,       \* the requests the clients may send
          Pieces,     \* the numbers of bytes in which a request may arrive
          Ends,       \* how the clients may end a connection
          Stops       \* how the user may stop the node

ASSUME MaxConnAssumption == MaxConn \in Nat
ASSUME BackLogAssumption == BackLog \in Nat
ASSUME MaxKnownAssumption == MaxKnown \in Nat
ASSUME PiecesAssumption == Pieces \subseteq 1..4
ASSUME EndsAssumption == Ends \subseteq {"closed", "reset"}
ASSUME StopsAssumption == Stops \subseteq {"exit", "Ctrl-C"}

Conn == 1..MaxConn

VARIABLES
    process,      \* "alive", "crashed" by an invalid access, or "exited"
    running,      \* the flag that stops the loops
    mpc,          \* where the main thread is
    known,        \* nodePool->size
    arrived,      \* connections opened by clients
    accepted,     \* connections accepted
    asked,        \* by connection: the request its client has sent
    named,        \* by connection: its client has sent a file name
    hung,         \* by connection: "open", or how its client ended it
    cut,          \* connections whose request came in more than one piece
    sock,         \* by connection: the socket that accept returned for it
    closed,       \* connections this node has closed
    sent,         \* by connection: what this node has sent to it
    pc,           \* where the listener thread is
    sockTalk,     \* its locals: the socket at hand, 0 if accept failed
    requestBuf,   \* ... the four bytes of the last request, never reset
    fileName,     \* ... whose name the buffer holds
    handlerSock,  \* the heap cell that SyncHandler reads
    fileRequest,  \* the struct that FIleRequestHandler reads
    kind,         \* by connection: which handler thread was started for it
    hpc,          \* where that thread is
    hsock,        \* the socket it works on, UNREAD before it has looked
    hname,        \* whose file name it has, UNREAD before it has looked
    hcount,       \* nKnownNodes as its loop compares with
    hix           \* its loop index

clients == <<arrived, asked, named, hung>>
buffers == <<requestBuf, fileName, handlerSock, fileRequest>>
sockets == <<sock, closed, sent>>
listener == <<accepted, cut, pc, sockTalk, buffers>>
handlers == <<kind, hpc, hsock, hname, hcount, hix>>
vars == <<process, running, mpc, known, clients, sockets, listener, handlers>>

NODE_FILE_REQUEST == 0
NODE_SYNC == 1
FourBytes(n) == n \in Nat /\ n \div 16777216 \in 0..255
ASSUME AsksAssumption == \A r \in Asks : FourBytes(r)
NOTHING == -1        \* the client has sent no request yet

UNREAD == -1
GARBAGE == 0         \* what an unwritten or a freed cell holds

(* A number in the memory of the little-endian machine the program is      *)
(* built for, and what ntohlO and htonlO make of it.                       *)
Word == [1..4 -> 0..255]
Bytes(n) == [i \in 1..4 |-> (n \div <<1, 256, 65536, 16777216>>[i]) % 256]
Number(word) == word[1] + 256 * word[2] + 65536 * word[3] + 16777216 * word[4]
Swap(word) == [i \in 1..4 |-> word[5 - i]]

htonlO(n) == Number(Swap(Bytes(n)))

UNSET_Zero == [i \in 1..4 |-> 0]
UNSET == [i \in 1..4 |-> 255]   \* requestBuf starts as -1

Init ==
    /\ process = "alive" /\ running = FALSE /\ mpc = "start"
    /\ known \in {0, 1} \cap 0..MaxKnown     \* the node main may be told of
    /\ arrived = 0 /\ accepted = 0
    /\ asked = [c \in Conn |-> NOTHING]
    /\ named = [c \in Conn |-> FALSE]
    /\ hung = [c \in Conn |-> "open"]
    /\ cut = {} /\ closed = {}
    /\ sock = [c \in Conn |-> 0] /\ sent = [c \in Conn |-> {}]
    /\ pc = "start" /\ sockTalk = 0
    /\ requestBuf = UNSET /\ fileName = GARBAGE
    /\ handlerSock = GARBAGE
    /\ fileRequest = [fileName |-> GARBAGE, sockfd |-> GARBAGE]
    /\ kind = [c \in Conn |-> "none"]
    /\ hpc = [c \in Conn |-> "none"]
    /\ hsock = [c \in Conn |-> UNREAD]
    /\ hname = [c \in Conn |-> UNREAD]
    /\ hcount = [c \in Conn |-> 0]
    /\ hix = [c \in Conn |-> 0]

(* The connection behind a socket, if there is one. *)
Behind(s) == {c \in 1..accepted : sock[c] = s /\ c \notin closed}

closesocket(s) == closed' = closed \cup Behind(s)

(* send fails on a closed socket and may fail once the peer is gone.       *)
SendWorks(s) == \E c \in Behind(s) : hung[c] # "reset"
SendFails(s) == \A c \in Behind(s) : hung[c] # "open"
Sends(s, what) ==
    sent' = [c \in Conn |-> IF c \in Behind(s) THEN sent[c] \cup {what} ELSE sent[c]]

-----------------------------------------------------------------------------
(* The main thread.  It has created the listener thread and goes on in     *)
(* parallel with it; "exit" ends the main thread but not the process.      *)

MainFrame == UNCHANGED <<known, clients, sockets, listener, handlers>>

MainSetsRunning ==
    /\ mpc = "start"
    /\ running' = TRUE
    /\ mpc' = "repl"
    /\ UNCHANGED process /\ MainFrame

(* The test of the REPL's loop, which then waits for a command however     *)
(* running changes meanwhile.                                              *)
ReplTests ==
    /\ mpc = "repl"
    /\ mpc' = IF running THEN "command" ELSE "wait"
    /\ UNCHANGED <<process, running>> /\ MainFrame

ReplExit ==
    /\ mpc = "command" /\ "exit" \in Stops
    /\ running' = FALSE
    /\ mpc' = "gone"
    /\ UNCHANGED process /\ MainFrame

(* Any other command is the name of a file to retrieve. *)
ReplRetrieves ==
    /\ mpc = "command"
    /\ mpc' = "repl"
    /\ UNCHANGED <<process, running>> /\ MainFrame

MainReturns ==
    /\ mpc = "wait" /\ pc = "done"
    /\ process' = "exited"
    /\ UNCHANGED <<running, mpc>> /\ MainFrame

(* Ctrl-C runs CtrlHandler in a thread of its own once the listener has    *)
(* installed it; before that it ends the process.                          *)
CtrlC ==
    /\ "Ctrl-C" \in Stops
    /\ \/ pc # "start" /\ running' = FALSE /\ UNCHANGED process
       \/ pc = "start" /\ process' = "exited" /\ UNCHANGED running
    /\ UNCHANGED mpc /\ MainFrame

Main == MainSetsRunning \/ ReplTests \/ ReplExit \/ ReplRetrieves \/ MainReturns \/ CtrlC

(* The Syncer thread, which the listener starts, adds and removes nodes.   *)
SyncerChanges ==
    /\ pc # "start"
    /\ known' \in 0..MaxKnown
    /\ UNCHANGED <<process, running, mpc, clients, sockets, listener, handlers>>

-----------------------------------------------------------------------------
(* Clients: they connect, may send a request, and after a file request may *)
(* send a name; at any point they may close or reset the connection.       *)

ClientFrame == UNCHANGED <<process, running, mpc, known, sockets, listener, handlers>>

Connect ==
    /\ pc \notin {"start", "done"}
    /\ arrived < MaxConn
    /\ arrived - accepted < BackLog
    /\ arrived' = arrived + 1
    /\ UNCHANGED <<asked, named, hung>> /\ ClientFrame

Ask(c, r) ==
    /\ c <= arrived /\ hung[c] = "open" /\ asked[c] = NOTHING
    /\ asked' = [asked EXCEPT ![c] = r]
    /\ UNCHANGED <<arrived, named, hung>> /\ ClientFrame

SendName(c) ==
    /\ hung[c] = "open" /\ asked[c] = NODE_FILE_REQUEST /\ ~named[c]
    /\ named' = [named EXCEPT ![c] = TRUE]
    /\ UNCHANGED <<arrived, asked, hung>> /\ ClientFrame

HangUp(c, how) ==
    /\ c <= arrived /\ hung[c] = "open"
    /\ hung' = [hung EXCEPT ![c] = how]
    /\ UNCHANGED <<arrived, asked, named>> /\ ClientFrame

Client ==
    \/ Connect
    \/ \E c \in Conn :
         \/ \E r \in Asks : Ask(c, r)
         \/ SendName(c)
         \/ \E how \in Ends : HangUp(c, how)

-----------------------------------------------------------------------------
(* IncomingHandler.  The connection at hand is the last one accepted.  A   *)
(* recv returns data the client has sent, 0 after an orderly close with    *)
(* nothing left to read, or fails after a reset, or because a handler has  *)
(* closed the socket.                                                      *)

HasSent(data) == data /\ accepted \notin closed
RecvZero(data) == ~data /\ accepted \notin closed /\ hung[accepted] = "closed"
RecvFails == accepted \in closed \/ hung[accepted] = "reset"

(* What no step of the listener changes, and what few of them do. *)
Outside == UNCHANGED <<mpc, known, clients, sent>>
Flags == UNCHANGED <<process, running>>

ListenerStarts ==
    /\ pc = "start"
    /\ running' = TRUE
    /\ pc' = "check"
    /\ Outside /\ UNCHANGED <<process, sockets, accepted, cut, sockTalk, buffers, handlers>>

KeepRunning_Always == TRUE
KeepRunning == running

BackToLoop_Retries == UNCHANGED pc
BackToLoop == pc' = "check"

(* The test of the listener's loop; once it fails the cells are given up   *)
(* and the last socket is closed, whoever is using them.                   *)
CheckRunning ==
    /\ pc = "check"
    /\ \/ KeepRunning /\ pc' = "accept" /\ UNCHANGED closed
       \/ ~KeepRunning /\ pc' = "done" /\ closesocket(sockTalk)
    /\ Outside /\ Flags /\ UNCHANGED <<sock, accepted, cut, sockTalk, buffers, handlers>>

(* A new connection gets a new socket or one that has been closed.  A      *)
(* socket is named for the first connection that had it.                   *)
Accept ==
    /\ pc = "accept" /\ accepted < arrived
    /\ \E s \in {accepted + 1} \cup {sock[c] : c \in 1..accepted} :
         /\ Behind(s) = {}
         /\ sock' = [sock EXCEPT ![accepted + 1] = s]
         /\ sockTalk' = s
    /\ accepted' = accepted + 1
    /\ pc' = "request"
    /\ Outside /\ Flags /\ UNCHANGED <<closed, cut, buffers, handlers>>

AcceptFails ==
    /\ pc = "accept"
    /\ sockTalk' = 0
    /\ BackToLoop
    /\ Outside /\ Flags /\ UNCHANGED <<sockets, accepted, cut, buffers, handlers>>

StartThread(k) ==
    /\ kind' = [kind EXCEPT ![accepted] = k]
    /\ hpc' = [hpc EXCEPT ![accepted] = "new"]
    /\ UNCHANGED <<hsock, hname, hcount, hix>>

FillCell_Never == UNCHANGED handlerSock
FillCell_Once == handlerSock' = IF handlerSock = GARBAGE THEN sockTalk ELSE handlerSock

(* The cell is filled whatever the request is, and whether or not the      *)
(* thread that was given it before has read it.                            *)
FillCell == handlerSock' = sockTalk

(* What is in requestBuf is swapped to host order and dispatched.          *)
Dispatch(word) ==
    LET request == Swap(word)
    IN  /\ requestBuf' = request
        /\ FillCell
        /\ \/ request = Bytes(NODE_SYNC) /\ StartThread("sync") /\ BackToLoop
           \/ request = Bytes(NODE_FILE_REQUEST) /\ UNCHANGED handlers /\ pc' = "fileName"
           \/ /\ request \notin {Bytes(NODE_SYNC), Bytes(NODE_FILE_REQUEST)}
              /\ UNCHANGED handlers /\ BackToLoop

(* As many bytes of the request as there are replace the first ones of     *)
(* requestBuf.  A peer that closed without sending leaves what was there.  *)
RecvRequest ==
    /\ pc = "request"
    /\ \/ /\ HasSent(asked[accepted] # NOTHING)
          /\ \E n \in Pieces :
               /\ Dispatch([i \in 1..4 |-> IF i <= n THEN Swap(Bytes(asked[accepted]))[i] ELSE requestBuf[i]])
               /\ cut' = IF n < 4 THEN cut \cup {accepted} ELSE cut
       \/ RecvZero(asked[accepted] # NOTHING) /\ Dispatch(requestBuf) /\ UNCHANGED cut
       \/ RecvFails /\ BackToLoop /\ UNCHANGED <<cut, requestBuf, handlerSock, handlers>>
    /\ Outside /\ Flags /\ UNCHANGED <<sock, closed, accepted, sockTalk, fileName, fileRequest>>

CopyName_Once ==
    fileRequest' = [fileRequest EXCEPT !.fileName = IF @ = GARBAGE THEN fileName' ELSE @]

CopyName == fileRequest' = [fileRequest EXCEPT !.fileName = fileName']

(* The name, or what was left of the request, goes to the stack buffer and *)
(* from there into the struct.  The copy of a buffer that was never        *)
(* written may overrun and end the process.                                *)
RecvFileName ==
    /\ pc = "fileName"
    /\ LET data == named[accepted] \/ accepted \in cut
       IN  \/ /\ \/ HasSent(data) /\ fileName' = accepted
                 \/ RecvZero(data) /\ UNCHANGED fileName
              /\ \/ CopyName /\ pc' = "fileSock" /\ UNCHANGED process
                 \/ fileName' = GARBAGE /\ process' = "crashed" /\ UNCHANGED <<pc, fileRequest>>
           \/ RecvFails /\ BackToLoop /\ UNCHANGED <<process, fileName, fileRequest>>
    /\ Outside
    /\ UNCHANGED <<running, sock, closed, accepted, cut, sockTalk, requestBuf, handlerSock, handlers>>

StartFileHandler ==
    /\ pc = "fileSock"
    /\ fileRequest' = [fileRequest EXCEPT !.sockfd = sockTalk]
    /\ StartThread("file")
    /\ BackToLoop
    /\ Outside /\ Flags
    /\ UNCHANGED <<sock, closed, accepted, cut, sockTalk, requestBuf, fileName, handlerSock>>

IncomingHandler ==
    \/ ListenerStarts \/ CheckRunning \/ Accept \/ AcceptFails
    \/ RecvRequest \/ RecvFileName \/ StartFileHandler

-----------------------------------------------------------------------------
(* The handler threads, each known by the connection it was started for    *)

HandlerFrame == UNCHANGED <<running, mpc, known, clients, sock, listener, kind>>

Goto(h, where) == hpc' = [hpc EXCEPT ![h] = where]

(* A handler copies a cell of the listener's.  Once the listener is gone   *)
(* the cell may still hold what it held, or something else, or be no       *)
(* longer mapped, which ends the process.                                  *)
Copy(h, copy, cell) ==
    \/ copy' = [copy EXCEPT ![h] = cell] /\ UNCHANGED process
    \/ pc = "done" /\ copy' = [copy EXCEPT ![h] = GARBAGE] /\ UNCHANGED process
    \/ pc = "done" /\ process' = "crashed" /\ UNCHANGED copy

SyncCopySock(h) ==
    /\ kind[h] = "sync" /\ hpc[h] = "new"
    /\ Copy(h, hsock, handlerSock)
    /\ Goto(h, "greet")
    /\ HandlerFrame /\ UNCHANGED <<hname, hcount, hix, closed, sent>>

nKnownNodes_Host == known

(* The count stays in network order when the loop compares with it. *)
nKnownNodes == htonlO(known)

(* The signal and this node's own data, then the number of known nodes.    *)
SyncGreet(h) ==
    /\ kind[h] = "sync" /\ hpc[h] = "greet"
    /\ \/ SendFails(hsock[h]) /\ Goto(h, "failed") /\ UNCHANGED <<hcount, hix, sent>>
       \/ SendWorks(hsock[h]) /\ Sends(hsock[h], "sync") /\ UNCHANGED <<hpc, hcount, hix>>
       \/ /\ SendWorks(hsock[h]) /\ Sends(hsock[h], "sync")
          /\ hcount' = [hcount EXCEPT ![h] = nKnownNodes]
          /\ hix' = [hix EXCEPT ![h] = 0]
          /\ Goto(h, "list")
    /\ HandlerFrame /\ UNCHANGED <<process, hsock, hname, closed>>

(* One turn of the loop over the known nodes.  getVal past the end of      *)
(* nodePool is NULL, and on an empty one goes through NULL: the process    *)
(* dies either way.                                                        *)
SyncList(h) ==
    /\ kind[h] = "sync" /\ hpc[h] = "list"
    /\ \/ hix[h] >= hcount[h] /\ Goto(h, "served") /\ UNCHANGED <<process, hix, sent>>
       \/ /\ hix[h] < hcount[h] /\ hix[h] < known
          /\ \/ /\ SendWorks(hsock[h]) /\ Sends(hsock[h], "sync")
                /\ hix' = [hix EXCEPT ![h] = @ + 1] /\ UNCHANGED hpc
             \/ SendFails(hsock[h]) /\ Goto(h, "failed") /\ UNCHANGED <<hix, sent>>
          /\ UNCHANGED process
       \/ /\ hix[h] < hcount[h] /\ hix[h] >= known
          /\ process' = "crashed"
          /\ UNCHANGED <<hpc, hix, sent>>
    /\ HandlerFrame /\ UNCHANGED <<hsock, hname, hcount, closed>>

SyncHandler(h) == SyncCopySock(h) \/ SyncGreet(h) \/ SyncList(h)

FileCopySock_SyncCell(h) ==
    /\ kind[h] = "file" /\ hpc[h] = "new" /\ hsock[h] = UNREAD
    /\ Copy(h, hsock, handlerSock)
    /\ HandlerFrame /\ UNCHANGED <<hpc, hname, hcount, hix, closed, sent>>

(* The struct is copied field by field, in the order the compiler chose.   *)
FileCopySock(h) ==
    /\ kind[h] = "file" /\ hpc[h] = "new" /\ hsock[h] = UNREAD
    /\ Copy(h, hsock, fileRequest.sockfd)
    /\ HandlerFrame /\ UNCHANGED <<hpc, hname, hcount, hix, closed, sent>>

FileCopyName(h) ==
    /\ kind[h] = "file" /\ hpc[h] = "new" /\ hname[h] = UNREAD
    /\ Copy(h, hname, fileRequest.fileName)
    /\ HandlerFrame /\ UNCHANGED <<hpc, hsock, hcount, hix, closed, sent>>

(* The number of words of the file, or -1 if there is none; the words, to  *)
(* whatever connection is behind the socket by then; and the close.  No    *)
(* result of send is looked at.                                            *)
FileAnswer(h) ==
    /\ kind[h] = "file" /\ hpc[h] = "new" /\ hsock[h] # UNREAD /\ hname[h] # UNREAD
    /\ \/ Sends(hsock[h], "file") /\ Goto(h, "words")
       \/ Sends(hsock[h], "noFile") /\ Goto(h, "missing")
    /\ HandlerFrame /\ UNCHANGED <<process, hsock, hname, hcount, hix, closed>>

FileWord(h) ==
    /\ kind[h] = "file" /\ hpc[h] = "words"
    /\ Sends(hsock[h], "file")
    /\ HandlerFrame /\ UNCHANGED <<process, hpc, hsock, hname, hcount, hix, closed>>

FileClose(h) ==
    /\ kind[h] = "file"
    /\ \/ hpc[h] = "words" /\ Goto(h, "served")
       \/ hpc[h] = "missing" /\ Goto(h, "failed")
    /\ closesocket(hsock[h])
    /\ HandlerFrame /\ UNCHANGED <<process, hsock, hname, hcount, hix, sent>>

FIleRequestHandler(h) ==
    FileCopySock(h) \/ FileCopyName(h) \/ FileAnswer(h) \/ FileWord(h) \/ FileClose(h)

-----------------------------------------------------------------------------
Next ==
    /\ process = "alive"
    /\ \/ Main \/ SyncerChanges \/ Client \/ IncomingHandler
       \/ \E h \in Conn : SyncHandler(h) \/ FIleRequestHandler(h)

Spec == Init /\ [][Next]_vars

(* The threads that are not waiting for somebody run: the listener's own   *)
(* steps and the first read of a sync handler.  accept may fail but does   *)
(* not fail for ever.  Nothing is assumed of clients, of the user or of    *)
(* the Syncer.                                                             *)
Fairness ==
    /\ WF_vars(process = "alive" /\ (ListenerStarts \/ CheckRunning))
    /\ SF_vars(process = "alive" /\ Accept)
    /\ WF_vars(process = "alive" /\ (RecvRequest \/ RecvFileName \/ StartFileHandler))
    /\ \A h \in Conn : WF_vars(process = "alive" /\ SyncCopySock(h))

FairSpec == Spec /\ Fairness

-----------------------------------------------------------------------------
(* Properties *)

MainTyped ==
    /\ process \in {"alive", "crashed", "exited"}
    /\ running \in BOOLEAN
    /\ mpc \in {"start", "repl", "command", "gone", "wait"}
    /\ known \in 0..MaxKnown

ClientsTyped ==
    /\ arrived \in 0..MaxConn /\ accepted \in 0..arrived
    /\ asked \in [Conn -> Asks \cup {NOTHING}]
    /\ named \in [Conn -> BOOLEAN]
    /\ hung \in [Conn -> {"open", "closed", "reset"}]

ListenerTyped ==
    /\ pc \in {"start", "check", "accept", "request", "fileName", "fileSock", "done"}
    /\ cut \subseteq 1..accepted
    /\ sockTalk \in 0..accepted
    /\ requestBuf \in Word
    /\ fileName \in 0..accepted
    /\ handlerSock \in 0..accepted
    /\ fileRequest \in [fileName : 0..accepted, sockfd : 0..accepted]

HandlersTyped ==
    /\ closed \subseteq 1..accepted
    /\ sock \in [Conn -> 0..accepted]
    /\ sent \in [Conn -> SUBSET {"sync", "file", "noFile"}]
    /\ kind \in [Conn -> {"none", "sync", "file"}]
    /\ hpc \in [Conn -> {"none", "new", "greet", "list", "words", "missing", "served", "failed"}]
    /\ hsock \in [Conn -> {UNREAD} \cup 0..accepted]
    /\ hname \in [Conn -> {UNREAD} \cup 0..accepted]
    /\ hcount \in [Conn -> Int]
    /\ hix \in [Conn -> Nat]

(* Every variable has its type.                                            *)
TypeOK == MainTyped /\ ClientsTyped /\ ListenerTyped /\ HandlersTyped

(* The cells are rewritten while handlers have yet to read them, so a      *)
(* handler may work on another connection than its own, and on one after   *)
(* another as they get the same socket.  They are always later ones: no    *)
(* handler goes back to a connection that was dispatched before its own,   *)
(* and none finds a cell that was never written, unless the listener has   *)
(* given it up (IncomingHandler, SyncHandler, FIleRequestHandler).         *)
NeverOlder ==
    \A h \in Conn :
        /\ \A c \in Behind(hsock[h]) : c >= h
        /\ hsock[h] = GARBAGE => pc = "done"

(* A connection is closed only by a file handler whose own client came no  *)
(* later, or, the last one, when the listener ends.  And it is one that    *)
(* was dispatched for a file, unless two file handlers have copied the     *)
(* same socket: the second close ends whatever connection the socket       *)
(* belongs to by then (FIleRequestHandler, IncomingHandler lines 370, 390, *)
(* 397).  Sockets that the node itself opens are taken to be others.       *)
OnlyFileThreadsClose ==
    \A c \in closed :
        \/ pc = "done" /\ c = accepted
        \/ \E h \in 1..c :
             /\ kind[h] = "file" /\ hpc[h] \in {"served", "failed"} /\ hsock[h] = sock[c]
             /\ \/ kind[c] = "file"
                \/ \E g \in Conn \ {h} : kind[g] = "file" /\ hsock[g] = sock[c]

(* A file handler sends a file somebody asked for before its own client    *)
(* did only if some client since then has hung up without sending a name,  *)
(* which leaves the earlier name in the listener's buffer.                 *)
NameNeverOlder ==
    \A h \in Conn :
        hname[h] \notin {UNREAD, GARBAGE} /\ hname[h] < h
            => \E c \in h..accepted : ~named[c] /\ hung[c] = "closed"

(* A SyncHandler that finishes has told its client that there are no known *)
(* nodes: its loop compares with a count in network order, so a list with  *)
(* anything in it is never delivered whole, whatever the Syncer does to    *)
(* the list meanwhile.                                                     *)
OnlyEmptyListsServed ==
    \A h \in Conn : kind[h] = "sync" /\ hpc[h] = "served" => hcount[h] = 0

Stopped == ~running /\ mpc # "start" /\ pc # "start"

(* Once the threads have started and running has been cleared, the listener *)
(* takes at most the one connection it may already be waiting for.          *)
AtMostOneMore ==
    \A k \in 0..MaxConn : [](Stopped /\ accepted = k => [](accepted <= k + 1))

(* The listener waits for the client at hand to send what is due. *)
Waiting ==
    /\ \/ pc = "request" /\ asked[accepted] = NOTHING
       \/ pc = "fileName" /\ ~named[accepted] /\ accepted \notin cut
    /\ hung[accepted] = "open" /\ accepted \notin closed

(* A connection that has arrived is accepted unless the node is stopped or *)
(* dies, or a client the listener has accepted before it falls silent for  *)
(* ever: one blocking recv is all that can starve the queue.               *)
OnlySilenceStarves ==
    \A k \in 0..(MaxConn - 1) :
        (arrived > k) ~> (accepted > k \/ ~running \/ pc = "done" \/ process # "alive" \/ []Waiting)

(* A sync request loses its answer only to a later connection: when no     *)
(* later one is accepted before its thread runs, the thread takes its own. *)
SyncReachesNewest ==
    \A c \in Conn :
        (kind[c] = "sync" /\ hpc[c] = "new")
            ~> (hsock[c] = sock[c] \/ accepted > c \/ pc = "done" \/ process # "alive")

(* A client that hangs up without a word leaves in requestBuf what is      *)
(* there, to be swapped once more and obeyed.  So such a client may be     *)
(* served, but only with what an earlier one sent.  A file request comes   *)
(* back at once, as 0 is its own image, and otherwise needs a request that *)
(* came in pieces.  A sync request takes an earlier client's whose first   *)
(* byte is 1; or one whose last byte is 1, as NODE_SYNC's, and then only   *)
(* the second client that leaves in silence gets it (PeerToPeer.c:359-367). *)
SilentRequestsEcho ==
    \A c \in Conn : kind[c] # "none" /\ asked[c] = NOTHING =>
        \E d \in 1..(c - 1) : LET wire == Swap(Bytes(asked[d])) IN
            \/ kind[c] = "file" /\ (asked[d] = NODE_FILE_REQUEST \/ d \in cut)
            \/ /\ kind[c] = "sync" /\ asked[d] # NOTHING
               /\ \/ wire[1] = 1
                  \/ wire[4] = 1 /\ \E e \in (d + 1)..(c - 1) : asked[e] = NOTHING /\ hung[e] = "closed"
=============================================================================
