----------------------------- MODULE PeerPair ------------------------------
(***************************************************************************)
(* Two Windows peer nodes: the serving side of one, as PeerNode models it, *)
(* and the user of another who retrieves a file from it (RetrieveFile and  *)
(* DownloadFile).  The downloading node is one of the clients of PeerNode; *)
(* its connection is "mine".  All other clients do what they do there.     *)
(*                                                                         *)
(* Both nodes are processes of their own; the downloading one may end and  *)
(* be started again, and what it has left on the disk stays.               *)
(***************************************************************************)
EXTENDS PeerNode

CONSTANT Before   \* bound: connections of others before the first retrieval
ASSUME BeforeAssumption == Before \in Nat
ASSUME DownloadAssumption == NODE_FILE_REQUEST \in Asks

VARIABLES
    dpc,       \* where the downloading node is, "ended" when it has ended
    mine,      \* its connection, 0 while it has none
    tried,     \* DownloadFile has been called since the node was started
    words,     \* wordCount, counted down
    held,      \* the file is open for writing, so that nobody else opens it
    written,   \* what has been written to it, in memory
    disk       \* what is on the disk: no file, or what the file holds

download == <<dpc, mine, tried, words, held, written, disk>>
pairVars == <<vars, download>>

PairInit ==
    /\ Init
    /\ dpc = "prompt" /\ mine = 0 /\ tried = FALSE /\ words = 0
    /\ held = FALSE /\ written = "empty" /\ disk = "none"

ServerFrame == UNCHANGED vars
GoOn(where) == dpc' = where

-----------------------------------------------------------------------------
(* RetrieveFile.  A file that is there is printed; otherwise filePool is   *)
(* searched.  ParseNode leaves the names in it unwritten: they are what    *)
(* was in the memory, and one of them may be the name that is asked for.   *)

RetrieveFile ==
    /\ dpc = "prompt"
    /\ disk = "none" /\ arrived >= Before
    /\ GoOn("connect") /\ tried' = TRUE
    /\ ServerFrame /\ UNCHANGED <<mine, words, held, written, disk>>

Opens_Shared == disk # "none"

(* A file that is open for writing cannot be opened by fopen_s again.      *)
Opens == disk # "none" /\ ~held

(* After DownloadFile: the file, or NULL, is read as a file.               *)
PrintFile ==
    /\ dpc = "reopen"
    /\ GoOn(IF Opens THEN "prompt" ELSE "dying")
    /\ ServerFrame /\ UNCHANGED <<mine, tried, words, held, written, disk>>

(* The process ends, from PrintFile(NULL) or because its user ends it: the *)
(* system closes its connection, and what was not flushed may be lost.     *)
EndNode ==
    /\ dpc # "ended"
    /\ GoOn("ended")
    /\ IF mine # 0 /\ hung[mine] = "open"
       THEN \E how \in {"closed", "reset"} : HangUp(mine, how)
       ELSE ServerFrame
    /\ disk' \in IF held THEN {disk, written} ELSE {disk}
    /\ held' = FALSE
    /\ UNCHANGED <<mine, tried, words, written>>

StartNode ==
    /\ dpc = "ended"
    /\ GoOn("prompt")
    /\ mine' = 0 /\ tried' = FALSE /\ words' = 0 /\ written' = "empty"
    /\ ServerFrame /\ UNCHANGED <<held, disk>>

-----------------------------------------------------------------------------
(* DownloadFile *)

InitTCPClient ==
    /\ dpc = "connect"
    /\ \/ /\ process = "alive" /\ Connect
          /\ mine' = arrived + 1 /\ GoOn("request")
       \/ ServerFrame /\ GoOn("reopen") /\ UNCHANGED mine
    /\ UNCHANGED <<tried, words, held, written, disk>>

SendRequest_Complete ==
    /\ asked' = [asked EXCEPT ![mine] = NODE_FILE_REQUEST]
    /\ named' = [named EXCEPT ![mine] = TRUE]
    /\ UNCHANGED <<arrived, hung>> /\ ClientFrame

(* The number of the request is all that is sent, and not the file's name. *)
SendRequest == Ask(mine, NODE_FILE_REQUEST)

Send ==
    /\ dpc = "request"
    /\ \/ SendRequest /\ GoOn("count")
       \/ process # "alive" /\ ServerFrame /\ GoOn("reopen")
    /\ UNCHANGED <<mine, tried, words, held, written, disk>>

(* recv returns 0, or fails, once the other node is gone, or has closed    *)
(* this connection or the socket on which it waited to be accepted.        *)
OtherGone == process # "alive" \/ mine \in closed \/ (pc = "done" /\ mine > accepted)

(* The first four bytes are taken for the count, whatever the other node   *)
(* has sent: the number of words, the signal or the data of a sync answer, *)
(* a word, or ~0 when there is no file; and 0 when nothing came.           *)
RecvWordCount ==
    /\ dpc = "count"
    /\ \/ \E what \in sent[mine], count \in {-1, 0, 1} :
            /\ what = "noFile" => count = -1
            /\ words' = count
            /\ GoOn(IF count < 0 THEN "reopen" ELSE "open")
       \/ OtherGone /\ GoOn("open") /\ words' = 0
       \/ OtherGone /\ GoOn("reopen") /\ UNCHANGED words
    /\ ServerFrame /\ UNCHANGED <<mine, tried, held, written, disk>>

OpenFile ==
    /\ dpc = "open"
    /\ \/ GoOn("words") /\ held' = TRUE /\ written' = "empty" /\ disk' = "empty"
       \/ GoOn("reopen") /\ UNCHANGED <<held, written, disk>>
    /\ ServerFrame /\ UNCHANGED <<mine, tried, words>>

(* wordBuf is written whether or not recv has filled it. *)
RecvWord ==
    /\ dpc = "words" /\ words > 0
    /\ \/ "file" \in sent[mine] /\ written' = "the file"
       \/ (sent[mine] # {} \/ OtherGone) /\ written' = "rubbish"
    /\ words' = words - 1
    /\ ServerFrame /\ UNCHANGED <<dpc, mine, tried, held, disk>>

(* The connection is closed, and the file is not. *)
CloseSocket ==
    /\ dpc = "words" /\ words = 0
    /\ GoOn("reopen")
    /\ HangUp(mine, "closed")
    /\ UNCHANGED <<mine, tried, words, held, written, disk>>

DownloadFile ==
    InitTCPClient \/ Send \/ RecvWordCount \/ OpenFile \/ RecvWord \/ CloseSocket

-----------------------------------------------------------------------------
OtherClients ==
    \/ Connect
    \/ \E c \in Conn \ {mine} :
         \/ \E r \in Asks : Ask(c, r)
         \/ SendName(c)
         \/ \E how \in Ends : HangUp(c, how)

Server ==
    /\ process = "alive"
    /\ \/ Main \/ SyncerChanges \/ OtherClients \/ IncomingHandler
       \/ \E h \in Conn : SyncHandler(h) \/ FIleRequestHandler(h)
    /\ UNCHANGED download

PairNext == Server \/ RetrieveFile \/ PrintFile \/ EndNode \/ StartNode \/ DownloadFile

PairSpec == PairInit /\ [][PairNext]_pairVars

-----------------------------------------------------------------------------
(* Properties *)

(* Two file handlers have copied the socket s. *)
Twice(s) == \E g, h \in Conn : g # h /\ kind[g] = "file" /\ kind[h] = "file" /\ hsock[g] = s /\ hsock[h] = s

(* A node gets no byte of the file it asks for: it waits for a count, and  *)
(* the other node for a name (DownloadFile line 62, IncomingHandler line   *)
(* 376).  Bytes of a file reach it only if the rest of a request that came *)
(* in pieces was taken for the name, or if two file handlers have copied   *)
(* the same socket, one closed it, and it was given to this connection.    *)
(* Otherwise what is left on the disk is an empty file, which is printed   *)
(* as the file from then on, or something else.                            *)
NeverTheFile ==
    written = "the file" \/ disk = "the file" =>
        cut # {} \/ \E c \in 1..accepted : Twice(sock[c])

(* DownloadFile comes past its first recv only when the other node is gone, *)
(* when its request came in pieces, or when a handler of another client    *)
(* holds its socket and has answered the wrong connection: what a sync     *)
(* handler sends first, the signal, then passes for a count of words.      *)
OnlyAMistakeAnswers ==
    dpc \in {"open", "words"} =>
        OtherGone \/ mine \in cut \/ \E h \in Conn \ {mine} : hsock[h] = sock[mine]

(* A node that has called DownloadFile does not come back to its prompt:   *)
(* the file is not there, or is still open for writing when it is to be    *)
(* printed, and NULL is read as a file (RetrieveFile lines 437-444).       *)
EveryDownloadIsTheLast == dpc = "prompt" => ~tried

(* A download that has reached the other node's listener stops it: until    *)
(* the downloading node is gone no other client is accepted, read or given  *)
(* a thread, and neither exit nor Ctrl-C is noticed.  Only a file handler   *)
(* that is the second to close the socket ends the wait (IncomingHandler    *)
(* line 376, DownloadFile line 70).                                         *)
DownloadStallsTheNode ==
    [][/\ pc = "fileName" /\ accepted = mine /\ hung[mine] = "open" /\ mine \notin cut
       => UNCHANGED listener \/ Twice(sock[mine])]_pairVars
=============================================================================
