--------------------------- MODULE PeerNodeProofs ---------------------------
(***************************************************************************)
(* The serving side of the Windows peer node proved for any number of      *)
(* connections, any length of the queue and any clients: the types, which  *)
(* connection and which name a handler thread can end up with, who closes  *)
(* a connection, whose request a silent client is served, how far the      *)
(* listener goes on once it is stopped, and what becomes of the list of    *)
(* known nodes.                                                            *)
(***************************************************************************)
EXTENDS PeerNode, TLAPS

(* What any client may do, whatever the node does and whether it lives.    *)
AnyClient ==
    \/ Connect
    \/ \E c \in Conn :
         \/ \E r \in Asks : Ask(c, r)
         \/ SendName(c)
         \/ \E how \in {"closed", "reset"} : HangUp(c, how)

Move == Next \/ AnyClient

Handler(h) == SyncHandler(h) \/ FIleRequestHandler(h)

(* The connections that were accepted, and they alone, have a socket.      *)
Numbered == \A c \in Conn : IF c <= accepted THEN sock[c] \in 1..c ELSE sock[c] = 0

(* The listener's socket is that of the last connection accepted.          *)
AtHand ==
    /\ sockTalk # 0 => accepted # 0 /\ sockTalk = sock[accepted]
    /\ pc \in {"request", "fileName", "fileSock"} => sockTalk # 0

Grounded == TypeOK /\ Numbered /\ AtHand

-----------------------------------------------------------------------------
(* What each part leaves alone *)

(* The main thread and the Syncer *)
LEMMA MainFrames ==
    ASSUME Main \/ SyncerChanges
    PROVE  UNCHANGED <<clients, sockets, listener, handlers>>
BY DEF Main, MainSetsRunning, ReplTests, ReplExit, ReplRetrieves, MainReturns, CtrlC, MainFrame,
       SyncerChanges

(* A client *)
LEMMA ClientFrames ==
    ASSUME AnyClient
    PROVE  UNCHANGED <<process, running, mpc, known, sockets, listener, handlers>>
BY DEF AnyClient, Connect, Ask, SendName, HangUp, ClientFrame

(* The listener *)
LEMMA ListenerFrames ==
    ASSUME IncomingHandler
    PROVE  UNCHANGED <<mpc, known, clients, sent, hsock, hname, hcount, hix>>
BY DEF IncomingHandler, ListenerStarts, CheckRunning, Accept, AcceptFails, RecvRequest, Dispatch,
       RecvFileName, StartFileHandler, StartThread, Outside, sockets, handlers

(* A handler *)
LEMMA HandlerFrames ==
    ASSUME NEW h \in Conn, Handler(h)
    PROVE  UNCHANGED <<running, mpc, known, clients, sock, listener, kind>>
BY DEF Handler, SyncHandler, SyncCopySock, SyncGreet, SyncList, FIleRequestHandler, FileCopySock,
       FileCopyName, FileAnswer, FileWord, FileClose, HandlerFrame

(* Every step is one of these. *)
LEMMA Moves ==
    ASSUME [Move]_vars
    PROVE  \/ UNCHANGED vars \/ Main \/ SyncerChanges \/ AnyClient \/ IncomingHandler
           \/ \E h \in Conn : Handler(h)
BY EndsAssumption DEF Move, Next, Client, AnyClient, Handler

(* Only the listener changes its own state and starts threads.             *)
LEMMA OthersLeaveListener ==
    ASSUME [Move]_vars, ~IncomingHandler
    PROVE  UNCHANGED <<sock, listener, kind>>
<1>1. CASE UNCHANGED vars
  BY <1>1 DEF vars, sockets, handlers
<1>2. CASE Main \/ SyncerChanges \/ AnyClient
  BY <1>2, MainFrames, ClientFrames DEF sockets, handlers
<1>3. CASE \E h \in Conn : Handler(h)
  BY <1>3, HandlerFrames
<1> QED
  BY <1>1, <1>2, <1>3, Moves

(* What a step of handler h does to its own state, and to nobody else's.   *)
LEMMA HandlerMoves ==
    ASSUME TypeOK, NEW h \in Conn, Handler(h), NEW c \in Conn
    PROVE  /\ c # h => /\ hpc'[c] = hpc[c] /\ hsock'[c] = hsock[c] /\ hname'[c] = hname[c]
                       /\ hcount'[c] = hcount[c] /\ hix'[c] = hix[c]
           /\ kind[h] # "none"
           /\ hpc'[h] = "new" => hpc[h] = "new"
           /\ kind[h] = "file" => hpc[h] \notin {"served", "failed"}
           /\ hname'[h] # hname[h] => hpc[h] = "new" /\ kind[h] = "file" /\ hname[h] = UNREAD
           /\ \/ hsock'[h] = hsock[h]
              \/ /\ hpc[h] = "new" /\ kind[h] = "sync" /\ hpc'[h] = "greet"
                 /\ hsock'[h] = handlerSock \/ (pc = "done" /\ hsock'[h] = GARBAGE)
              \/ /\ hpc[h] = "new" /\ kind[h] = "file" /\ hsock[h] = UNREAD
                 /\ hsock'[h] = fileRequest.sockfd \/ (pc = "done" /\ hsock'[h] = GARBAGE)
<1> USE DEF TypeOK, HandlersTyped
<1>1. CASE SyncCopySock(h)
  BY <1>1 DEF SyncCopySock, Copy, Goto
<1>2. CASE SyncGreet(h)
  BY <1>2 DEF SyncGreet, Goto
<1>3. CASE SyncList(h)
  BY <1>3 DEF SyncList, Goto
<1>4. CASE FileCopySock(h)
  BY <1>4 DEF FileCopySock, Copy
<1>5. CASE FileCopyName(h)
  BY <1>5 DEF FileCopyName, Copy
<1>6. CASE FileAnswer(h) \/ FileWord(h) \/ FileClose(h)
  BY <1>6 DEF FileAnswer, FileWord, FileClose, Goto
<1> QED
  BY <1>1, <1>2, <1>3, <1>4, <1>5, <1>6 DEF Handler, SyncHandler, FIleRequestHandler

(* A thread is started for the connection at hand, as the listener goes    *)
(* back to its loop.                                                       *)
LEMMA ThreadStarts ==
    ASSUME Grounded, IncomingHandler
    PROVE  \/ UNCHANGED <<kind, hpc>>
           \/ /\ pc \in {"request", "fileSock"} /\ pc' = "check" /\ accepted \in Conn
              /\ UNCHANGED <<accepted, sock, closed, sockTalk>>
              /\ kind' = [kind EXCEPT ![accepted] = IF pc = "request" THEN "sync" ELSE "file"]
              /\ hpc' = [hpc EXCEPT ![accepted] = "new"]
              /\ pc = "request" => fileRequest' = fileRequest /\ handlerSock' = sockTalk
              /\ pc = "fileSock" => /\ handlerSock' = handlerSock
                                    /\ fileRequest' = [fileRequest EXCEPT !.sockfd = sockTalk]
<1>1. pc \in {"request", "fileSock"} => accepted \in Conn
  BY MaxConnAssumption DEF Grounded, AtHand, TypeOK, ClientsTyped, Conn
<1>2. CASE RecvRequest
  BY <1>1, <1>2 DEF RecvRequest, Dispatch, StartThread, BackToLoop, FillCell, handlers
<1>3. CASE StartFileHandler
  BY <1>1, <1>3 DEF StartFileHandler, StartThread, BackToLoop
<1>4. CASE ListenerStarts \/ CheckRunning \/ Accept \/ AcceptFails \/ RecvFileName
  BY <1>4 DEF ListenerStarts, CheckRunning, Accept, AcceptFails, RecvFileName, handlers
<1> QED
  BY <1>2, <1>3, <1>4 DEF IncomingHandler

-----------------------------------------------------------------------------
(* Types and sockets *)

(* The bytes of a number make a word, and so do those of a word swapped.   *)
LEMMA WordType ==
    /\ UNSET \in Word
    /\ \A n \in Nat : Bytes(n) \in Word
    /\ \A word \in Word : Swap(word) \in Word
<1>1. UNSET \in Word
  BY DEF UNSET, Word
<1>2. ASSUME NEW n \in Nat, NEW i \in 1..4
      PROVE  (n \div <<1, 256, 65536, 16777216>>[i]) % 256 \in 0..255
  <2>1. <<1, 256, 65536, 16777216>>[i] \in {1, 256, 65536, 16777216}
    BY <1>2
  <2>2. \A d \in {1, 256, 65536, 16777216} : n \div d \in Nat
    BY SMT
  <2>3. PICK q \in Nat : q = n \div <<1, 256, 65536, 16777216>>[i]
    BY ONLY <2>1, <2>2
  <2>4. q % 256 \in 0..255
    BY SMT
  <2> QED
    BY ONLY <2>3, <2>4
<1>3. ASSUME NEW n \in Nat
      PROVE  Bytes(n) \in Word
  <2> DEFINE byte(i) == (n \div <<1, 256, 65536, 16777216>>[i]) % 256
  <2>1. \A i \in 1..4 : byte(i) \in 0..255
    BY <1>2
  <2>2. Bytes(n) = [i \in 1..4 |-> byte(i)]
    BY DEF Bytes
  <2> HIDE DEF byte
  <2> QED
    BY <2>1, <2>2 DEF Word
<1>4. \A word \in Word : Swap(word) \in Word
  BY DEF Swap, Word
<1> QED
  BY <1>1, <1>3, <1>4

(* The program starts with no connection and no thread.                    *)
LEMMA InitiallyGrounded == Init => Grounded
<1> SUFFICES ASSUME Init PROVE Grounded
  OBVIOUS
<1> USE DEF Init
<1>1. MainTyped
  <2>1. process = "alive" /\ running = FALSE /\ mpc = "start" /\ known \in 0..MaxKnown
    OBVIOUS
  <2> QED
    BY ONLY <2>1 DEF MainTyped
<1>2. ClientsTyped
  BY MaxConnAssumption DEF ClientsTyped
<1>3. ListenerTyped
  BY WordType DEF ListenerTyped, GARBAGE
<1>4. HandlersTyped
  BY DEF HandlersTyped
<1>5. Numbered /\ AtHand
  BY MaxConnAssumption DEF Numbered, AtHand, Conn
<1> QED
  BY <1>1, <1>2, <1>3, <1>4, <1>5 DEF Grounded, TypeOK

(* The main thread, the Syncer and the clients.                            *)
LEMMA OutsideGrounded ==
    ASSUME Grounded, Main \/ SyncerChanges \/ AnyClient
    PROVE  Grounded'
<1>1. UNCHANGED <<sockets, listener, handlers>>
  BY MainFrames, ClientFrames
<1>2. MainTyped'
  <2>1. CASE Main
    BY <2>1 DEF Main, MainSetsRunning, ReplTests, ReplExit, ReplRetrieves, MainReturns, CtrlC,
                MainFrame, Grounded, TypeOK, MainTyped
  <2>2. CASE SyncerChanges
    BY <2>2 DEF SyncerChanges, Grounded, TypeOK, MainTyped
  <2>3. CASE AnyClient
    BY <2>3, ClientFrames DEF Grounded, TypeOK, MainTyped
  <2> QED
    BY <2>1, <2>2, <2>3
<1>3. ClientsTyped'
  <2> USE DEF Grounded, TypeOK, ClientsTyped, listener
  <2>1. CASE UNCHANGED clients
    BY <1>1, <2>1 DEF clients
  <2>2. CASE Connect
    BY <1>1, <2>2, MaxConnAssumption DEF Connect
  <2>3. ASSUME NEW c \in Conn, NEW r \in Asks, Ask(c, r)
        PROVE  ClientsTyped'
    BY <1>1, <2>3 DEF Ask
  <2>4. ASSUME NEW c \in Conn, SendName(c)
        PROVE  ClientsTyped'
    BY <1>1, <2>4 DEF SendName
  <2>5. ASSUME NEW c \in Conn, NEW how \in {"closed", "reset"}, HangUp(c, how)
        PROVE  ClientsTyped'
    BY <1>1, <2>5 DEF HangUp
  <2> QED
    BY <2>1, <2>2, <2>3, <2>4, <2>5, MainFrames DEF AnyClient
<1>4. ListenerTyped' /\ HandlersTyped'
  BY <1>1 DEF Grounded, TypeOK, ListenerTyped, HandlersTyped, sockets, listener, buffers, handlers
<1>5. Numbered' /\ AtHand'
  BY <1>1 DEF Grounded, Numbered, AtHand, sockets, listener
<1> QED
  BY <1>2, <1>3, <1>4, <1>5 DEF Grounded, TypeOK

(* A new connection.                                                       *)
LEMMA AcceptGrounded ==
    ASSUME Grounded, Accept
    PROVE  Grounded'
<1>1. /\ UNCHANGED <<process, running, mpc, known, clients, sent, closed, cut, buffers, handlers>>
      /\ accepted' = accepted + 1 /\ pc' = "request"
  BY DEF Accept, Outside, Flags
<1>2. PICK s \in {accepted + 1} \cup {sock[c] : c \in 1..accepted} :
          sock' = [sock EXCEPT ![accepted + 1] = s] /\ sockTalk' = s
  BY DEF Accept
<1>3. accepted \in Nat /\ accepted + 1 \in Conn /\ accepted < arrived /\ arrived \in 0..MaxConn
  BY MaxConnAssumption DEF Accept, Grounded, TypeOK, ClientsTyped, Conn
<1>4. \A c \in 1..accepted : c \in Conn /\ sock[c] \in 1..c
  BY <1>3, MaxConnAssumption DEF Grounded, Numbered, Conn
<1>5. s \in 1..(accepted + 1)
  BY <1>2, <1>3, <1>4
<1>6. sock \in [Conn -> 0..accepted]
  BY DEF Grounded, TypeOK, HandlersTyped
<1>7. MainTyped' /\ ClientsTyped'
  BY <1>1, <1>3 DEF Grounded, TypeOK, MainTyped, ClientsTyped, clients
<1>8. ListenerTyped'
  BY <1>1, <1>2, <1>3, <1>5 DEF Grounded, TypeOK, ListenerTyped, buffers
<1>9. HandlersTyped'
  <2>1. sock' \in [Conn -> 0..accepted']
    BY <1>1, <1>2, <1>3, <1>5, <1>6
  <2>2. /\ 0..accepted \subseteq 0..accepted' /\ closed \subseteq 1..accepted'
        /\ hsock \in [Conn -> {UNREAD} \cup 0..accepted]
        /\ hname \in [Conn -> {UNREAD} \cup 0..accepted]
    BY <1>1, <1>3 DEF Grounded, TypeOK, HandlersTyped
  <2>3. hsock \in [Conn -> {UNREAD} \cup 0..accepted'] /\ hname \in [Conn -> {UNREAD} \cup 0..accepted']
    BY <2>2
  <2> QED
    BY <1>1, <2>1, <2>2, <2>3 DEF Grounded, TypeOK, HandlersTyped, handlers
<1>10. Numbered'
  <2> SUFFICES ASSUME NEW c \in Conn
               PROVE  IF c <= accepted' THEN sock'[c] \in 1..c ELSE sock'[c] = 0
    BY DEF Numbered
  <2>1. c \in Nat
    BY DEF Conn
  <2>2. CASE c = accepted + 1
    BY <1>1, <1>2, <1>3, <1>5, <1>6, <2>2
  <2>3. CASE c # accepted + 1
    <3>1. sock'[c] = sock[c]
      BY <1>2, <1>6, <2>3
    <3>2. c <= accepted' <=> c <= accepted
      BY <1>1, <1>3, <2>1, <2>3
    <3> QED
      BY <3>1, <3>2 DEF Grounded, Numbered
  <2> QED
    BY <2>2, <2>3
<1>11. AtHand'
  BY <1>1, <1>2, <1>3, <1>5, <1>6 DEF AtHand
<1> QED
  BY <1>7, <1>8, <1>9, <1>10, <1>11 DEF Grounded, TypeOK

(* The listener's other steps.                                             *)
LEMMA ListenerGrounded ==
    ASSUME Grounded, IncomingHandler, ~Accept
    PROVE  Grounded'
<1> USE DEF Grounded, TypeOK
<1>1. /\ UNCHANGED <<mpc, known, clients, sent, hsock, hname, hcount, hix, accepted, sock>>
      /\ closed' \subseteq 1..accepted
  <2>1. UNCHANGED <<accepted, sock>> /\ closed' \in {closed, closed \cup Behind(sockTalk)}
    BY DEF IncomingHandler, ListenerStarts, CheckRunning, closesocket, AcceptFails, RecvRequest,
           RecvFileName, StartFileHandler, sockets
  <2>2. Behind(sockTalk) \subseteq 1..accepted /\ closed \subseteq 1..accepted
    BY DEF Behind, HandlersTyped
  <2> QED
    BY <2>1, <2>2, ListenerFrames
<1>2. accepted \in Nat /\ (pc \in {"request", "fileName", "fileSock"} => accepted \in Conn)
  BY MaxConnAssumption DEF AtHand, ClientsTyped, Conn
<1>3. MainTyped' /\ ClientsTyped'
  <2>1. process' \in {"alive", "crashed", "exited"} /\ running' \in BOOLEAN
    BY DEF IncomingHandler, ListenerStarts, CheckRunning, AcceptFails, RecvRequest, RecvFileName,
           StartFileHandler, Flags, MainTyped
  <2> QED
    BY <1>1, <2>1 DEF MainTyped, ClientsTyped, clients
<1>4. HandlersTyped'
  <2>1. CASE UNCHANGED <<kind, hpc>>
    BY <1>1, <2>1 DEF HandlersTyped
  <2>2. CASE \E k \in {"sync", "file"} : /\ kind' = [kind EXCEPT ![accepted] = k]
                                         /\ hpc' = [hpc EXCEPT ![accepted] = "new"]
    BY <1>1, <2>2 DEF HandlersTyped
  <2> QED
    BY <2>1, <2>2, ThreadStarts
<1>5. Numbered'
  BY <1>1 DEF Numbered
<1>6. CASE ListenerStarts \/ CheckRunning \/ AcceptFails
  <2>1. /\ UNCHANGED <<cut, buffers>> /\ sockTalk' \in {0, sockTalk}
        /\ pc' \in {"check", "accept", "done"}
    BY <1>6 DEF ListenerStarts, CheckRunning, AcceptFails, BackToLoop
  <2>2. ListenerTyped' /\ AtHand'
    BY <1>1, <1>2, <2>1 DEF ListenerTyped, AtHand, buffers
  <2> QED
    BY <1>3, <1>4, <1>5, <2>2
<1>7. CASE RecvRequest
  <2>1. /\ UNCHANGED <<sockTalk, fileName, fileRequest>> /\ handlerSock' \in {handlerSock, sockTalk}
        /\ pc' \in {"check", "fileName"} /\ cut' \in {cut, cut \cup {accepted}} /\ accepted # 0
    <3>1. accepted # 0
      BY <1>7, MaxConnAssumption DEF RecvRequest, AtHand, ClientsTyped
    <3>2. /\ UNCHANGED <<sockTalk, fileName, fileRequest>> /\ handlerSock' \in {handlerSock, sockTalk}
          /\ pc' \in {"check", "fileName"}
      BY <1>7 DEF RecvRequest, Dispatch, BackToLoop, FillCell
    <3>3. cut' \in {cut, cut \cup {accepted}}
      BY <1>7 DEF RecvRequest
    <3> QED
      BY <3>1, <3>2, <3>3
  <2>2. requestBuf' \in Word
    <3>1. ASSUME NEW n \in Pieces, asked[accepted] # NOTHING,
                 Dispatch([i \in 1..4 |-> IF i <= n THEN Swap(Bytes(asked[accepted]))[i] ELSE requestBuf[i]])
          PROVE  requestBuf' \in Word
      <4>1. asked[accepted] \in Nat
        BY <1>2, <1>7, <3>1, AsksAssumption DEF RecvRequest, ClientsTyped, FourBytes
      <4>2. Swap(Bytes(asked[accepted])) \in Word /\ requestBuf \in Word
        BY <4>1, WordType DEF ListenerTyped
      <4>3. [i \in 1..4 |-> IF i <= n THEN Swap(Bytes(asked[accepted]))[i] ELSE requestBuf[i]] \in Word
        BY ONLY <4>2 DEF Word
      <4> QED
        BY ONLY <3>1, <4>3, WordType DEF Dispatch
    <3>2. CASE Dispatch(requestBuf)
      BY <3>2, WordType DEF Dispatch, ListenerTyped
    <3> QED
      BY <1>7, <3>1, <3>2 DEF RecvRequest, HasSent, ListenerTyped
  <2>3. ListenerTyped' /\ AtHand'
    BY <1>1, <1>2, <1>7, <2>1, <2>2 DEF ListenerTyped, AtHand, RecvRequest
  <2> QED
    BY <1>3, <1>4, <1>5, <2>3
<1>8. CASE RecvFileName
  <2>1. /\ UNCHANGED <<sockTalk, requestBuf, handlerSock, cut>> /\ pc' \in {"check", "fileName", "fileSock"}
        /\ fileName' \in {fileName, accepted}
        /\ fileRequest' \in {fileRequest, [fileRequest EXCEPT !.fileName = fileName']}
    BY <1>8 DEF RecvFileName, BackToLoop, CopyName
  <2>2. ListenerTyped'
    BY <1>1, <1>2, <2>1 DEF ListenerTyped
  <2>3. AtHand'
    BY <1>1, <1>8, <2>1 DEF AtHand, RecvFileName
  <2> QED
    BY <1>3, <1>4, <1>5, <2>2, <2>3
<1>9. CASE StartFileHandler
  <2>1. /\ UNCHANGED <<sockTalk, requestBuf, fileName, handlerSock, cut>> /\ pc' = "check"
        /\ fileRequest' = [fileRequest EXCEPT !.sockfd = sockTalk]
    BY <1>9 DEF StartFileHandler, BackToLoop
  <2>2. ListenerTyped' /\ AtHand'
    BY <1>1, <1>2, <2>1 DEF ListenerTyped, AtHand
  <2> QED
    BY <1>3, <1>4, <1>5, <2>2
<1> QED
  BY <1>6, <1>7, <1>8, <1>9 DEF IncomingHandler

(* The handler threads.                                                    *)
LEMMA HandlerGrounded ==
    ASSUME Grounded, NEW h \in Conn, Handler(h)
    PROVE  Grounded'
<1> USE DEF Grounded, TypeOK
<1>1. UNCHANGED <<running, mpc, known, clients, sock, listener, kind>>
  BY HandlerFrames
<1>2. process' \in {"alive", "crashed", "exited"}
  BY DEF Handler, SyncHandler, SyncCopySock, SyncGreet, SyncList, FIleRequestHandler, FileCopySock,
         FileCopyName, FileAnswer, FileWord, FileClose, Copy, MainTyped
<1>3. MainTyped' /\ ClientsTyped' /\ ListenerTyped' /\ AtHand' /\ Numbered'
  BY <1>1, <1>2 DEF MainTyped, ClientsTyped, ListenerTyped, AtHand, Numbered, clients, listener, buffers
<1>4. HandlersTyped'
  <2> USE DEF HandlersTyped
  <2>1. accepted' = accepted /\ kind' = kind /\ sock' = sock
    BY <1>1 DEF listener
  <2>2. CASE SyncCopySock(h)
    BY <2>1, <2>2 DEF SyncCopySock, Copy, Goto, GARBAGE, ListenerTyped, ClientsTyped
  <2>3. ASSUME NEW what \in {"sync", "file", "noFile"}, Sends(hsock[h], what)
        PROVE  sent' \in [Conn -> SUBSET {"sync", "file", "noFile"}]
    BY <2>3 DEF Sends
  <2>4. CASE SyncGreet(h)
    <3>1. nKnownNodes \in Int
      <4>1. known \in Nat
        BY MaxKnownAssumption DEF MainTyped
      <4>2. Swap(Bytes(known)) \in Word
        BY <4>1, WordType
      <4>3. ASSUME NEW word \in Word
            PROVE  Number(word) \in Int
        <5>1. word[1] \in Int /\ word[2] \in Int /\ word[3] \in Int /\ word[4] \in Int
          BY DEF Word
        <5> QED
          BY ONLY <5>1 DEF Number
      <4> QED
        BY <4>2, <4>3 DEF nKnownNodes, htonlO
    <3>2. sent' \in [Conn -> SUBSET {"sync", "file", "noFile"}]
      BY <2>3, <2>4 DEF SyncGreet
    <3> QED
      BY <2>1, <2>4, <3>1, <3>2 DEF SyncGreet, Goto
  <2>5. CASE SyncList(h)
    <3>1. sent' \in [Conn -> SUBSET {"sync", "file", "noFile"}]
      BY <2>3, <2>5 DEF SyncList
    <3> QED
      BY <2>1, <2>5, <3>1 DEF SyncList, Goto
  <2>6. CASE FileCopySock(h)
    BY <2>1, <2>6 DEF FileCopySock, Copy, GARBAGE, ListenerTyped, ClientsTyped
  <2>7. CASE FileCopyName(h)
    BY <2>1, <2>7 DEF FileCopyName, Copy, GARBAGE, ListenerTyped, ClientsTyped
  <2>8. CASE FileAnswer(h) \/ FileWord(h)
    <3>1. sent' \in [Conn -> SUBSET {"sync", "file", "noFile"}]
      BY <2>3, <2>8 DEF FileAnswer, FileWord
    <3> QED
      BY <2>1, <2>8, <3>1 DEF FileAnswer, FileWord, Goto
  <2>9. CASE FileClose(h)
    BY <2>1, <2>9 DEF FileClose, Goto, closesocket, Behind
  <2> QED
    BY <2>2, <2>4, <2>5, <2>6, <2>7, <2>8, <2>9 DEF Handler, SyncHandler, FIleRequestHandler
<1> QED
  BY <1>3, <1>4

(* No step leaves the types or gives a socket wrongly.                     *)
LEMMA GroundedStays ==
    ASSUME Grounded, [Move]_vars
    PROVE  Grounded'
<1>1. CASE UNCHANGED vars
  BY <1>1 DEF vars, clients, sockets, listener, buffers, handlers, Grounded, TypeOK, MainTyped,
              ClientsTyped, ListenerTyped, HandlersTyped, Numbered, AtHand
<1> QED
  BY <1>1, Moves, OutsideGrounded, AcceptGrounded, ListenerGrounded, HandlerGrounded

-----------------------------------------------------------------------------
(* Threads, and the connections behind their sockets *)

(* A connection has at most one thread, which reads its cell once, and a   *)
(* client that has sent something has arrived.                             *)
Started ==
    \A c \in Conn :
        /\ c > accepted \/ (c = accepted /\ pc \in {"request", "fileName", "fileSock"})
             => kind[c] = "none"
        /\ kind[c] = "none" \/ (kind[c] = "sync" /\ hpc[c] = "new") => hsock[c] = UNREAD
        /\ named[c] \/ asked[c] # NOTHING \/ hung[c] # "open" => c <= arrived

(* A socket is given again only when the connection that had it is closed. *)
OneBehind == \A c, d \in 1..accepted : c < d /\ sock[c] = sock[d] => c \in closed

(* Whoever takes the socket s for connection h will find behind it that    *)
(* connection or a later one.                                              *)
Ahead(h, s) == s # GARBAGE /\ \A c \in Behind(s) : c >= h

(* A thread that has yet to read its cell will find such a socket in it,   *)
(* whenever it comes to run.                                               *)
CellsAhead ==
    \A h \in Conn :
        /\ kind[h] = "sync" /\ hpc[h] = "new" => Ahead(h, handlerSock)
        /\ kind[h] = "file" /\ hpc[h] = "new" => Ahead(h, fileRequest.sockfd)

IInv == Grounded /\ Started /\ OneBehind /\ CellsAhead /\ NeverOlder

(* Clients that have sent something have arrived.                          *)
LEMMA ClientsArrive ==
    ASSUME Grounded, Started, [Move]_vars, NEW c \in Conn,
           named'[c] \/ asked'[c] # NOTHING \/ hung'[c] # "open"
    PROVE  c <= arrived'
<1> USE DEF Started
<1>1. /\ ClientsTyped /\ arrived \in Nat /\ \A d \in Conn : d \in Nat
  BY MaxConnAssumption DEF Grounded, TypeOK, ClientsTyped, Conn
<1>2. CASE UNCHANGED clients
  BY <1>2 DEF clients
<1>3. CASE Connect
  BY <1>1, <1>3 DEF Connect
<1>4. ASSUME NEW d \in Conn, NEW r \in Asks, Ask(d, r)
      PROVE  c <= arrived'
  BY <1>1, <1>4 DEF Ask, ClientsTyped
<1>5. ASSUME NEW d \in Conn, SendName(d)
      PROVE  c <= arrived'
  BY <1>1, <1>5 DEF SendName, ClientsTyped, NODE_FILE_REQUEST, NOTHING
<1>6. ASSUME NEW d \in Conn, NEW how \in {"closed", "reset"}, HangUp(d, how)
      PROVE  c <= arrived'
  BY <1>1, <1>6 DEF HangUp, ClientsTyped
<1>7. UNCHANGED vars => UNCHANGED clients
  BY DEF vars
<1> QED
  BY <1>2, <1>3, <1>4, <1>5, <1>6, <1>7, Moves, MainFrames, ListenerFrames, HandlerFrames DEF AnyClient

(* Threads are started and read their cells as before.                     *)
LEMMA StartedStays ==
    ASSUME Grounded, Started, [Move]_vars
    PROVE  Started'
<1>0. /\ accepted \in Nat /\ \A c \in Conn : c \in Nat
      /\ kind \in [Conn -> {"none", "sync", "file"}] /\ TypeOK
      /\ hpc \in [Conn -> {"none", "new", "greet", "list", "words", "missing", "served", "failed"}]
  BY MaxConnAssumption DEF Grounded, TypeOK, ClientsTyped, HandlersTyped, Conn
<1> SUFFICES ASSUME NEW c \in Conn
             PROVE  /\ c > accepted' \/ (c = accepted' /\ pc' \in {"request", "fileName", "fileSock"})
                         => kind'[c] = "none"
                    /\ kind'[c] = "none" \/ (kind'[c] = "sync" /\ hpc'[c] = "new") => hsock'[c] = UNREAD
  BY ClientsArrive DEF Started
<1>1. /\ c > accepted \/ (c = accepted /\ pc \in {"request", "fileName", "fileSock"}) => kind[c] = "none"
      /\ kind[c] = "none" \/ (kind[c] = "sync" /\ hpc[c] = "new") => hsock[c] = UNREAD
  BY DEF Started
<1>2. CASE UNCHANGED <<listener, handlers>>
  BY <1>1, <1>2 DEF listener, handlers
<1>3. CASE IncomingHandler
  <2>1. hsock' = hsock
    BY <1>3, ListenerFrames
  <2>2. CASE UNCHANGED <<kind, hpc>>
    <3>1. \/ accepted' = accepted + 1
          \/ accepted' = accepted /\ pc' \in {"check", "accept", "done"}
          \/ accepted' = accepted /\ pc \in {"request", "fileName"} /\ pc' \in {"request", "fileName", "fileSock"}
      BY <1>3 DEF IncomingHandler, ListenerStarts, CheckRunning, Accept, AcceptFails, RecvRequest, Dispatch,
                  RecvFileName, StartFileHandler, BackToLoop
    <3> QED
      BY <1>0, <1>1, <2>1, <2>2, <3>1
  <2>3. CASE /\ pc \in {"request", "fileSock"} /\ pc' = "check" /\ accepted' = accepted
             /\ \E k \in {"sync", "file"} : kind' = [kind EXCEPT ![accepted] = k]
             /\ hpc' = [hpc EXCEPT ![accepted] = "new"]
    BY <1>0, <1>1, <2>1, <2>3
  <2> QED
    BY <1>3, <2>2, <2>3, ThreadStarts
<1>4. ASSUME NEW h \in Conn, Handler(h)
      PROVE  /\ UNCHANGED <<accepted, pc, kind>>
             /\ kind[c] = "none" \/ (kind[c] = "sync" /\ hpc'[c] = "new") => hsock'[c] = UNREAD
  <2>1. UNCHANGED <<accepted, pc, kind>>
    BY <1>4, HandlerFrames DEF listener
  <2>2. CASE c # h
    <3>1. hpc'[c] = hpc[c] /\ hsock'[c] = hsock[c]
      BY <1>0, <1>4, <2>2, HandlerMoves
    <3> QED
      BY <1>1, <2>1, <3>1
  <2>3. CASE c = h
    <3>1. /\ kind[h] # "none" /\ (hpc'[h] = "new" => hpc[h] = "new")
          /\ hsock'[h] = hsock[h] \/ kind[h] = "file" \/ hpc'[h] = "greet"
      BY <1>0, <1>4, HandlerMoves
    <3> QED
      BY <1>1, <2>1, <2>3, <3>1
  <2> QED
    BY <2>1, <2>2, <2>3
<1>5. UNCHANGED vars => UNCHANGED <<listener, handlers>>
  BY DEF vars
<1> QED
  BY <1>1, <1>2, <1>3, <1>4, <1>5, Moves, MainFrames, ClientFrames

(* An accepted connection keeps its socket, a closed one stays closed, and *)
(* only a new one can come to be behind a socket.                          *)
LEMMA SocketsGrow ==
    ASSUME Grounded, [Move]_vars
    PROVE  /\ accepted \in Nat /\ accepted' \in Nat /\ accepted' \in {accepted, accepted + 1}
           /\ \A c \in 1..accepted : c \in Conn /\ sock'[c] = sock[c]
           /\ closed \subseteq closed' /\ closed \subseteq 1..accepted
           /\ \A s \in Int : Behind(s)' \subseteq Behind(s) \cup
                                               (IF accepted' = accepted THEN {} ELSE {accepted'})
<1>1. /\ accepted \in Nat /\ \A c \in 1..accepted : c \in Conn
      /\ closed \subseteq 1..accepted /\ sock \in [Conn -> 0..accepted]
  BY MaxConnAssumption DEF Grounded, TypeOK, ClientsTyped, HandlersTyped, Conn
<1>2. CASE Accept
  <2>1. /\ accepted' = accepted + 1 /\ closed' = closed
        /\ \E s : sock' = [sock EXCEPT ![accepted + 1] = s]
    BY <1>2 DEF Accept
  <2> QED
    BY <1>1, <2>1 DEF Behind
<1>3. CASE accepted' = accepted /\ sock' = sock /\ closed \subseteq closed'
  BY <1>1, <1>3 DEF Behind
<1>4. CASE IncomingHandler /\ ~Accept
  BY <1>3, <1>4 DEF IncomingHandler, ListenerStarts, CheckRunning, closesocket, AcceptFails, RecvRequest,
         RecvFileName, StartFileHandler, sockets
<1>5. CASE ~IncomingHandler
  <2>1. accepted' = accepted /\ sock' = sock
    BY <1>5, OthersLeaveListener DEF listener
  <2>2. UNCHANGED vars => closed' = closed
    BY DEF vars, sockets
  <2>3. ASSUME NEW h \in Conn, Handler(h)
        PROVE  closed \subseteq closed'
    BY <2>3 DEF Handler, SyncHandler, SyncCopySock, SyncGreet, SyncList, FIleRequestHandler, FileCopySock,
       FileCopyName, FileAnswer, FileWord, FileClose, closesocket
  <2>4. closed \subseteq closed'
    BY <1>5, <2>2, <2>3, Moves, MainFrames, ClientFrames DEF sockets
  <2> QED
    BY <1>3, <2>1, <2>4
<1> QED
  BY <1>2, <1>4, <1>5

(* A connection given an old socket is the only one that is open behind it. *)
LEMMA OneBehindStays ==
    ASSUME Grounded, OneBehind, [Move]_vars
    PROVE  OneBehind'
<1>1. /\ accepted \in Nat /\ accepted' \in {accepted, accepted + 1} /\ closed \subseteq closed'
      /\ \A c \in 1..accepted : sock'[c] = sock[c]
  BY SocketsGrow
<1>2. CASE accepted' = accepted
  BY <1>1, <1>2 DEF OneBehind
<1>3. CASE Accept
  <2>1. PICK s : /\ Behind(s) = {}
                 /\ sock' = [sock EXCEPT ![accepted + 1] = s]
    BY <1>3 DEF Accept
  <2>2. accepted' = accepted + 1 /\ closed' = closed /\ accepted + 1 \in Conn
    BY <1>1, <1>3, MaxConnAssumption DEF Accept, Grounded, TypeOK, ClientsTyped, Conn
  <2>3. sock'[accepted + 1] = s
    BY <2>1, <2>2 DEF Grounded, TypeOK, HandlersTyped
  <2>4. \A c \in 1..accepted : sock[c] = s => c \in closed
    BY <2>1 DEF Behind
  <2>5. ASSUME NEW c \in 1..accepted', NEW d \in 1..accepted', c < d, sock'[c] = sock'[d]
        PROVE  c \in closed'
    <3>1. c \in 1..accepted /\ sock'[c] = sock[c]
      BY <1>1, <2>2, <2>5
    <3>2. CASE d = accepted + 1
      BY <2>2, <2>3, <2>4, <2>5, <3>1, <3>2
    <3>3. CASE d # accepted + 1
      <4>1. d \in 1..accepted /\ sock'[d] = sock[d]
        BY <1>1, <2>2, <3>3
      <4> QED
        BY <2>2, <2>5, <3>1, <4>1 DEF OneBehind
    <3> QED
      BY <3>2, <3>3
  <2> QED
    BY <2>5 DEF OneBehind
<1>4. ~Accept => accepted' = accepted
  BY OthersLeaveListener DEF listener, IncomingHandler, ListenerStarts, CheckRunning, AcceptFails, RecvRequest,
         RecvFileName, StartFileHandler
<1> QED
  BY <1>2, <1>3, <1>4

(* What is ahead of a thread that has been started stays ahead of it.      *)
LEMMA AheadStays ==
    ASSUME Grounded, [Move]_vars, NEW h \in Conn, h <= accepted, NEW s \in Int, Ahead(h, s)
    PROVE  Ahead(h, s)'
<1>1. accepted \in Nat /\ accepted' \in {accepted, accepted + 1} /\ h \in Nat
  BY SocketsGrow DEF Conn
<1>2. \A c \in Behind(s)' : c \in Behind(s) \/ (c = accepted' /\ accepted' # accepted)
  BY SocketsGrow
<1> QED
  BY <1>1, <1>2 DEF Ahead

(* The socket at hand is that of the last connection alone.                *)
LEMMA HandBehind ==
    ASSUME Grounded, OneBehind
    PROVE  Behind(sockTalk) \subseteq {accepted}
<1>1. accepted \in Nat /\ \A c \in 1..accepted : c \in Conn
  BY MaxConnAssumption DEF Grounded, TypeOK, ClientsTyped, Conn
<1>2. CASE sockTalk = 0
  BY <1>1, <1>2 DEF Behind, Grounded, Numbered
<1>3. CASE sockTalk # 0
  BY <1>1, <1>3 DEF Behind, OneBehind, Grounded, AtHand
<1> QED
  BY <1>2, <1>3

(* The cells hold what is ahead of the threads yet to read them.           *)
LEMMA CellsAheadStays ==
    ASSUME IInv, [Move]_vars
    PROVE  CellsAhead'
<1>0. /\ Grounded /\ TypeOK /\ accepted \in Nat /\ \A c \in Conn : c \in Nat
      /\ handlerSock \in 0..accepted
      /\ fileRequest \in [fileName : 0..accepted, sockfd : 0..accepted]
      /\ kind \in [Conn -> {"none", "sync", "file"}]
      /\ hpc \in [Conn -> {"none", "new", "greet", "list", "words", "missing", "served", "failed"}]
  <2>1. Grounded /\ TypeOK
    BY DEF IInv, Grounded
  <2>2. accepted \in Nat /\ \A c \in Conn : c \in Nat
    BY <2>1, MaxConnAssumption DEF TypeOK, ClientsTyped, Conn
  <2> QED
    BY <2>1, <2>2 DEF TypeOK, ListenerTyped, HandlersTyped
<1> SUFFICES ASSUME NEW h \in Conn
             PROVE  /\ kind'[h] = "sync" /\ hpc'[h] = "new" => Ahead(h, handlerSock)'
                    /\ kind'[h] = "file" /\ hpc'[h] = "new" => Ahead(h, fileRequest.sockfd)'
  BY DEF CellsAhead
<1>1. kind[h] # "none" => h <= accepted
  BY <1>0 DEF IInv, Started
<1>2. /\ kind[h] = "sync" /\ hpc[h] = "new" => Ahead(h, handlerSock)
      /\ kind[h] = "file" /\ hpc[h] = "new" => Ahead(h, fileRequest.sockfd)
  BY DEF IInv, CellsAhead
<1>3. ASSUME NEW s \in 0..accepted, kind[h] # "none", Ahead(h, s)
      PROVE  Ahead(h, s)'
  BY <1>0, <1>1, <1>3, AheadStays
<1>4. CASE /\ kind'[h] = kind[h] /\ (hpc'[h] = "new" => hpc[h] = "new")
           /\ handlerSock' = handlerSock /\ fileRequest'.sockfd = fileRequest.sockfd
  <2>1. PICK s \in 0..accepted : s = handlerSock
    BY <1>0
  <2>2. PICK t \in 0..accepted : t = fileRequest.sockfd
    BY <1>0
  <2>3. Ahead(h, handlerSock)' = Ahead(h, s)' /\ Ahead(h, fileRequest.sockfd)' = Ahead(h, t)'
    BY <1>4, <2>1, <2>2 DEF Ahead, Behind
  <2> QED
    BY <1>2, <1>3, <1>4, <2>1, <2>2, <2>3
<1>5. ASSUME sockTalk # 0, UNCHANGED <<accepted, sock, closed>>, NEW s, s = sockTalk, h <= accepted
      PROVE  Ahead(h, s)'
  <2>1. Behind(s)' \subseteq {accepted}
    BY <1>5, HandBehind DEF IInv, Behind
  <2> QED
    BY <1>0, <1>5, <2>1 DEF Ahead, GARBAGE
<1>6. CASE /\ pc \in {"request", "fileSock"} /\ accepted \in Conn
           /\ UNCHANGED <<accepted, sock, closed, sockTalk>>
           /\ kind' = [kind EXCEPT ![accepted] = IF pc = "request" THEN "sync" ELSE "file"]
           /\ hpc' = [hpc EXCEPT ![accepted] = "new"]
           /\ pc = "request" => fileRequest' = fileRequest /\ handlerSock' = sockTalk
           /\ pc = "fileSock" => /\ handlerSock' = handlerSock
                                 /\ fileRequest' = [fileRequest EXCEPT !.sockfd = sockTalk]
  <2>1. sockTalk # 0
    BY <1>0, <1>6 DEF Grounded, AtHand
  <2>2. h <= accepted => Ahead(h, sockTalk)'
    BY <1>5, <1>6, <2>1 DEF Ahead, Behind
  <2>3. kind'[h] # "none" => h <= accepted
    BY <1>0, <1>1, <1>6
  <2>4. CASE pc = "request"
    <3>1. /\ kind'[h] = "file" /\ hpc'[h] = "new" => kind[h] = "file" /\ hpc[h] = "new"
          /\ handlerSock' = sockTalk' /\ fileRequest' = fileRequest
      BY <1>0, <1>6, <2>4
    <3>2. Ahead(h, fileRequest.sockfd)' <=> Ahead(h, fileRequest.sockfd)
      BY <1>6, <3>1 DEF Ahead, Behind
    <3>3. h <= accepted => Ahead(h, handlerSock)'
      BY <2>2, <3>1 DEF Ahead, Behind
    <3> QED
      BY <1>2, <2>3, <3>1, <3>2, <3>3
  <2>5. CASE pc = "fileSock"
    <3>1. /\ kind'[h] = "sync" /\ hpc'[h] = "new" => kind[h] = "sync" /\ hpc[h] = "new"
          /\ handlerSock' = handlerSock /\ fileRequest'.sockfd = sockTalk'
      BY <1>0, <1>6, <2>5
    <3>2. Ahead(h, handlerSock)' <=> Ahead(h, handlerSock)
      BY <1>6, <3>1 DEF Ahead, Behind
    <3>3. h <= accepted => Ahead(h, fileRequest.sockfd)'
      BY <2>2, <3>1 DEF Ahead, Behind
    <3> QED
      BY <1>2, <2>3, <3>1, <3>2, <3>3
  <2> QED
    BY <1>6, <2>4, <2>5
<1>7. CASE IncomingHandler
  <2>1. CASE UNCHANGED <<kind, hpc>> /\ ~RecvRequest
    <3>1. ~StartFileHandler
      <4>1. pc = "fileSock" => accepted \in Conn /\ kind[accepted] = "none"
        BY <1>0, MaxConnAssumption DEF Grounded, AtHand, TypeOK, ClientsTyped, IInv, Started, Conn
      <4> QED
        BY <1>0, <2>1, <4>1 DEF StartFileHandler, StartThread
    <3>2. handlerSock' = handlerSock /\ fileRequest'.sockfd = fileRequest.sockfd
      BY <1>0, <1>7, <2>1, <3>1 DEF IncomingHandler, ListenerStarts, CheckRunning, Accept, AcceptFails,
                                    RecvFileName, CopyName, buffers
    <3> QED
      BY <1>4, <2>1, <3>2
  <2>2. CASE UNCHANGED <<kind, hpc>> /\ RecvRequest
    <3>1. /\ fileRequest' = fileRequest /\ handlerSock' \in {handlerSock, sockTalk}
          /\ UNCHANGED <<accepted, sock, closed, sockTalk>> /\ sockTalk # 0
      BY <1>0, <2>2 DEF RecvRequest, Dispatch, FillCell, Grounded, AtHand
    <3>2. CASE handlerSock' = handlerSock
      BY <1>4, <2>2, <3>1, <3>2
    <3>3. CASE handlerSock' = sockTalk
      <4>1. h <= accepted => Ahead(h, sockTalk)'
        BY <1>5, <3>1 DEF Ahead, Behind
      <4>2. h <= accepted => Ahead(h, handlerSock)'
        BY <3>1, <3>3, <4>1 DEF Ahead, Behind
      <4>3. Ahead(h, fileRequest.sockfd)' <=> Ahead(h, fileRequest.sockfd)
        BY <3>1 DEF Ahead, Behind
      <4> QED
        BY <1>1, <1>2, <2>2, <4>2, <4>3
    <3> QED
      BY <3>1, <3>2, <3>3
  <2> QED
    BY <1>0, <1>6, <1>7, <2>1, <2>2, ThreadStarts
<1>8. ASSUME NEW g \in Conn, Handler(g)
      PROVE  /\ kind'[h] = kind[h] /\ (hpc'[h] = "new" => hpc[h] = "new")
             /\ handlerSock' = handlerSock /\ fileRequest'.sockfd = fileRequest.sockfd
  <2>1. UNCHANGED <<listener, kind>>
    BY <1>8, HandlerFrames
  <2>2. hpc'[h] = "new" => hpc[h] = "new"
    BY <1>0, <1>8, HandlerMoves
  <2> QED
    BY <2>1, <2>2 DEF listener, buffers
<1>9. UNCHANGED <<listener, handlers>> =>
             /\ kind'[h] = kind[h] /\ (hpc'[h] = "new" => hpc[h] = "new")
             /\ handlerSock' = handlerSock /\ fileRequest'.sockfd = fileRequest.sockfd
  BY DEF listener, buffers, handlers
<1>10. UNCHANGED vars => UNCHANGED <<listener, handlers>>
  BY DEF vars
<1> QED
  BY <1>4, <1>7, <1>8, <1>9, <1>10, Moves, MainFrames, ClientFrames

(* A handler takes from its cell what is ahead of it, or finds the cell    *)
(* gone, and from then on has it for itself.                               *)
LEMMA NeverOlderStays ==
    ASSUME IInv, [Move]_vars
    PROVE  NeverOlder'
<1>0. /\ Grounded /\ TypeOK /\ accepted \in Nat
      /\ handlerSock \in 0..accepted /\ fileRequest.sockfd \in 0..accepted
      /\ hsock \in [Conn -> {UNREAD} \cup 0..accepted]
  BY MaxConnAssumption DEF IInv, Grounded, TypeOK, ClientsTyped, ListenerTyped, HandlersTyped
<1>1. pc = "done" => pc' = "done"
  BY OthersLeaveListener DEF listener, IncomingHandler, ListenerStarts, CheckRunning, Accept, AcceptFails,
         RecvRequest, RecvFileName, StartFileHandler
<1>2. ASSUME NEW h \in Conn
      PROVE  /\ \A c \in Behind(hsock[h])' : c >= h
             /\ hsock'[h] = GARBAGE => pc' = "done"
  <2>1. /\ \A c \in Behind(hsock[h]) : c >= h
        /\ hsock[h] = GARBAGE => pc = "done"
    BY DEF IInv, NeverOlder
  <2>2. CASE hsock'[h] = hsock[h]
    <3>1. PICK s \in {UNREAD} \cup 0..accepted : s = hsock[h]
      BY <1>0
    <3>2. CASE s \in {UNREAD, GARBAGE}
      <4>1. Numbered' /\ \A c \in 1..accepted' : c \in Conn /\ c <= accepted'
        BY <1>0, GroundedStays, MaxConnAssumption DEF Grounded, TypeOK, ClientsTyped, Conn
      <4>2. Behind(s)' = {}
        BY <3>2, <4>1 DEF Numbered, Behind, UNREAD, GARBAGE
      <4>3. Behind(hsock[h])' = Behind(s)'
        BY <2>2, <3>1 DEF Behind
      <4> QED
        BY <1>1, <2>1, <2>2, <4>2, <4>3
    <3>4. CASE s \notin {UNREAD, GARBAGE}
      <4>1. h <= accepted
        BY <1>0, <3>1, <3>4 DEF IInv, Started, Conn
      <4>2. Ahead(h, s)
        BY <2>1, <3>1, <3>4 DEF Ahead
      <4>3. Ahead(h, s)'
        BY <1>0, <3>4, <4>1, <4>2, AheadStays DEF UNREAD
      <4>4. Behind(hsock[h])' = Behind(s)'
        BY <2>2, <3>1 DEF Behind
      <4> QED
        BY <2>2, <3>1, <3>4, <4>3, <4>4 DEF Ahead
    <3> QED
      BY <3>2, <3>4
  <2>3. ASSUME NEW g \in Conn, Handler(g), hsock'[h] # hsock[h]
        PROVE  /\ \A c \in Behind(hsock[h])' : c >= h
               /\ hsock'[h] = GARBAGE => pc' = "done"
    <3>1. h = g
      BY <1>0, <2>3, HandlerMoves
    <3>2. \/ hsock'[h] = GARBAGE /\ pc = "done"
          \/ kind[h] = "sync" /\ hpc[h] = "new" /\ hsock'[h] = handlerSock
          \/ kind[h] = "file" /\ hpc[h] = "new" /\ hsock'[h] = fileRequest.sockfd
      BY <1>0, <2>3, <3>1, HandlerMoves
    <3>3. h <= accepted
      BY <1>0, <3>1, <2>3, HandlerMoves DEF IInv, Started, Conn
    <3>4. CASE hsock'[h] = GARBAGE /\ pc = "done"
      <4>1. Behind(GARBAGE) = {}
        BY <1>0, MaxConnAssumption DEF Behind, Grounded, Numbered, GARBAGE, TypeOK, ClientsTyped, Conn
      <4>2. \A c \in Behind(hsock[h])' : c \in Behind(GARBAGE)
        BY <2>3, <3>4, SocketsGrow, <1>0, HandlerFrames DEF Behind, listener, GARBAGE
      <4> QED
        BY <1>1, <3>4, <4>1, <4>2
    <3>5. ASSUME NEW s \in 0..accepted, Ahead(h, s), hsock'[h] = s
          PROVE  /\ \A c \in Behind(hsock[h])' : c >= h
                 /\ hsock'[h] = GARBAGE => pc' = "done"
      <4>1. Ahead(h, s)'
        BY <1>0, <3>3, <3>5, AheadStays
      <4>2. Behind(hsock[h])' = Behind(s)'
        BY <3>5 DEF Behind
      <4> QED
        BY <3>5, <4>1, <4>2 DEF Ahead
    <3>6. CASE kind[h] = "sync" /\ hpc[h] = "new" /\ hsock'[h] = handlerSock
      BY <1>0, <3>5, <3>6 DEF IInv, CellsAhead
    <3>7. CASE kind[h] = "file" /\ hpc[h] = "new" /\ hsock'[h] = fileRequest.sockfd
      BY <1>0, <3>5, <3>7 DEF IInv, CellsAhead
    <3> QED
      BY <3>2, <3>4, <3>6, <3>7
  <2>4. ~(\E g \in Conn : Handler(g)) => hsock'[h] = hsock[h]
    <3>1. UNCHANGED vars \/ UNCHANGED handlers => hsock' = hsock
      BY DEF vars, handlers
    <3> QED
      BY <3>1, Moves, MainFrames, ClientFrames, ListenerFrames
  <2> QED
    BY <2>2, <2>3, <2>4
<1> QED
  BY <1>2 DEF NeverOlder

(* The program starts in the invariant. *)
LEMMA Initially == Init => IInv
<1> SUFFICES ASSUME Init PROVE IInv
  OBVIOUS
<1>1. Started /\ CellsAhead
  BY MaxConnAssumption DEF Init, Started, CellsAhead, Conn
<1>2. OneBehind /\ NeverOlder
  BY DEF Init, OneBehind, NeverOlder, Behind, UNREAD, GARBAGE
<1> QED
  BY <1>1, <1>2, InitiallyGrounded DEF IInv

(* No step of any thread or client leads out of it. *)
LEMMA Step ==
    ASSUME IInv, [Move]_vars
    PROVE  IInv'
BY GroundedStays, StartedStays, OneBehindStays, CellsAheadStays, NeverOlderStays DEF IInv

(* What the node keeps, however its threads and its clients interleave.    *)
THEOREM Invariance == Spec => []IInv
<1>1. Init => IInv
  BY Initially
<1>2. IInv /\ [Next]_vars => IInv'
  BY Step DEF Move
<1> QED
  BY <1>1, <1>2, PTL DEF Spec

(* Every variable keeps its type, and no cell and no thread ever holds a   *)
(* socket of a connection that was not accepted.                           *)
THEOREM Typing == Spec => []TypeOK
<1>1. IInv => TypeOK
  BY DEF IInv, Grounded
<1> QED
  BY <1>1, Invariance, PTL

(* No handler thread works on a connection dispatched before its own, for  *)
(* any number of connections, although IncomingHandler reuses its cells    *)
(* and the system the sockets.                                             *)
THEOREM HandlersNeverGoBack == Spec => []NeverOlder
<1>1. IInv => NeverOlder
  BY DEF IInv
<1> QED
  BY <1>1, Invariance, PTL

(* Stopped with k connections accepted: one more only from within accept,  *)
(* to which the listener does not come back.                               *)
Closing(k) ==
    /\ Stopped
    /\ accepted <= k + 1
    /\ pc = "accept" => accepted <= k

(* No step starts a stopped node again, or takes the listener back to accept. *)
LEMMA ClosingStep ==
    ASSUME NEW k \in Nat, IInv, Closing(k), [Next]_vars
    PROVE  Closing(k)'
<1>0. /\ ~running /\ mpc # "start" /\ pc # "start" /\ accepted <= k + 1
      /\ pc = "accept" => accepted <= k
  BY DEF Closing, Stopped
<1>1. ASSUME running' = running \/ running' = FALSE, mpc' # "start", pc' # "start", accepted' <= k + 1,
             pc' = "accept" => accepted' <= k
      PROVE  Closing(k)'
  <2>1. ~running'
    BY <1>0, <1>1, Zenon
  <2> QED
    BY <1>1, <2>1 DEF Closing, Stopped
<1>2. CASE Main \/ SyncerChanges
  <2>1. UNCHANGED <<pc, accepted>>
    BY <1>2, MainFrames DEF listener
  <2>2. mpc' # "start" /\ (running' = running \/ running' = FALSE)
    BY <1>0, <1>2 DEF Main, MainSetsRunning, ReplTests, ReplExit, ReplRetrieves, MainReturns, CtrlC, SyncerChanges
  <2> QED
    BY <1>0, <1>1, <2>1, <2>2
<1>3. CASE IncomingHandler
  <2>1. UNCHANGED <<running, mpc>>
    BY <1>0, <1>3 DEF IncomingHandler, ListenerStarts, CheckRunning, Accept, AcceptFails, RecvRequest,
                      RecvFileName, StartFileHandler, Outside, Flags
  <2>2. /\ pc' \in {"check", "request", "fileName", "fileSock", "done"}
        /\ accepted' = IF pc = "accept" /\ pc' = "request" THEN accepted + 1 ELSE accepted
    BY <1>0, <1>3 DEF IncomingHandler, ListenerStarts, CheckRunning, KeepRunning, Accept, AcceptFails,
                      RecvRequest, Dispatch, RecvFileName, StartFileHandler, BackToLoop
  <2>3. accepted \in Nat
    BY SocketsGrow DEF IInv, Move
  <2>4. pc' # "start" /\ pc' # "accept" /\ accepted' <= k + 1
    BY <1>0, <2>2, <2>3
  <2> QED
    BY <1>0, <1>1, <2>1, <2>4
<1>4. CASE UNCHANGED <<running, mpc, listener>>
  BY <1>0, <1>1, <1>4 DEF listener
<1>5. UNCHANGED vars => UNCHANGED <<running, mpc, listener>>
  BY DEF vars
<1> QED
  BY <1>2, <1>3, <1>4, <1>5, Moves, ClientFrames, HandlerFrames DEF Move

(* Once the node has been stopped the listener accepts no more than the    *)
(* connection it may be waiting for, for any number of clients.            *)
THEOREM StoppedTakesOneMore == Spec => AtMostOneMore
<1> SUFFICES ASSUME NEW k \in 0..MaxConn
             PROVE  Spec => [](Stopped /\ accepted = k => [](accepted <= k + 1))
  BY DEF AtMostOneMore
<1>1. k \in Nat
  BY MaxConnAssumption
<1>2. Stopped /\ accepted = k => Closing(k)
  BY <1>1 DEF Closing
<1>3. IInv /\ Closing(k) /\ [Next]_vars => Closing(k)'
  BY <1>1, ClosingStep
<1>4. Closing(k) => accepted <= k + 1
  BY DEF Closing
<1> QED
  BY <1>2, <1>3, <1>4, Invariance, PTL DEF Spec

-----------------------------------------------------------------------------
(* Threads and the connections they close *)

(* The struct and the file handlers hold a socket of some connection that  *)
(* was dispatched for a file.                                              *)
FileSocket(s) == \E d \in 1..accepted : kind[d] = "file" /\ sock[d] = s

FilesApart ==
    /\ fileRequest.sockfd # GARBAGE => FileSocket(fileRequest.sockfd)
    /\ \A h \in Conn : kind[h] = "file" /\ hsock[h] \notin {UNREAD, GARBAGE} => FileSocket(hsock[h])

Ended(h) == kind[h] = "file" /\ hpc[h] \in {"served", "failed"}

CloserInv == IInv /\ FilesApart /\ OnlyFileThreadsClose

(* A thread keeps its kind and the socket it has read, and does not go on  *)
(* after its end.                                                          *)
LEMMA ThreadsStay ==
    ASSUME IInv, [Move]_vars, NEW h \in Conn
    PROVE  /\ kind[h] # "none" => kind'[h] = kind[h]
           /\ hsock[h] # UNREAD => kind[h] # "none" /\ hsock'[h] = hsock[h]
           /\ Ended(h) => Ended(h)'
<1> USE DEF Ended
<1>0. /\ Grounded /\ TypeOK
      /\ kind \in [Conn -> {"none", "sync", "file"}]
      /\ hpc \in [Conn -> {"none", "new", "greet", "list", "words", "missing", "served", "failed"}]
      /\ hsock[h] # UNREAD => kind[h] # "none" /\ (kind[h] = "sync" => hpc[h] # "new")
  BY DEF IInv, Grounded, TypeOK, HandlersTyped, Started
<1>1. CASE UNCHANGED handlers
  BY <1>0, <1>1 DEF handlers
<1>2. CASE IncomingHandler
  <2>1. hsock' = hsock
    BY <1>2, ListenerFrames
  <2>2. pc \in {"request", "fileSock"} /\ accepted \in Conn => kind[accepted] = "none"
    BY DEF IInv, Started
  <2>3. \/ UNCHANGED <<kind, hpc>>
        \/ /\ pc \in {"request", "fileSock"} /\ accepted \in Conn
           /\ \E k : kind' = [kind EXCEPT ![accepted] = k]
           /\ hpc' = [hpc EXCEPT ![accepted] = "new"]
    BY <1>0, <1>2, ThreadStarts
  <2> QED
    BY <1>0, <2>1, <2>2, <2>3
<1>3. ASSUME NEW x \in Conn, Handler(x)
      PROVE  /\ kind[h] # "none" => kind'[h] = kind[h]
             /\ hsock[h] # UNREAD => kind[h] # "none" /\ hsock'[h] = hsock[h]
             /\ Ended(h) => Ended(h)'
  <2>1. kind' = kind
    BY <1>3, HandlerFrames
  <2>2. h # x => hpc'[h] = hpc[h] /\ hsock'[h] = hsock[h]
    BY <1>0, <1>3, HandlerMoves
  <2>3. /\ kind[x] = "file" => hpc[x] \notin {"served", "failed"}
        /\ \/ hsock'[x] = hsock[x]
           \/ kind[x] = "sync" /\ hpc[x] = "new"
           \/ hsock[x] = UNREAD
    BY <1>0, <1>3, HandlerMoves
  <2> QED
    BY <1>0, <2>1, <2>2, <2>3
<1>4. UNCHANGED vars => UNCHANGED handlers
  BY DEF vars
<1> QED
  BY <1>1, <1>2, <1>3, <1>4, Moves, MainFrames, ClientFrames

(* A socket of a connection dispatched for a file stays one.               *)
LEMMA FileSocketStays ==
    ASSUME IInv, [Move]_vars, NEW s, FileSocket(s)
    PROVE  FileSocket(s)'
<1>1. PICK d \in 1..accepted : kind[d] = "file" /\ sock[d] = s
  BY DEF FileSocket
<1>2. d \in 1..accepted' /\ d \in Conn /\ sock'[d] = s
  BY <1>1, SocketsGrow DEF IInv
<1>3. kind'[d] = "file"
  BY <1>1, <1>2, ThreadsStay
<1> QED
  BY <1>2, <1>3 DEF FileSocket

(* The struct gets its socket in the step that starts the thread for it,   *)
(* and the handlers have theirs from the struct alone.                     *)
LEMMA FilesApartStays ==
    ASSUME IInv, FilesApart, [Move]_vars
    PROVE  FilesApart'
<1>0. /\ Grounded /\ TypeOK
      /\ fileRequest \in [fileName : 0..accepted, sockfd : 0..accepted]
      /\ kind \in [Conn -> {"none", "sync", "file"}]
      /\ accepted \in Nat /\ sock \in [Conn -> 0..accepted]
  BY MaxConnAssumption DEF IInv, Grounded, TypeOK, ClientsTyped, ListenerTyped, HandlersTyped
<1>1. \/ fileRequest'.sockfd = fileRequest.sockfd
      \/ fileRequest'.sockfd = GARBAGE
      \/ FileSocket(fileRequest.sockfd)'
  <2>1. CASE StartFileHandler
    <3>1. /\ accepted \in Conn /\ accepted \in 1..accepted /\ sockTalk = sock[accepted]
      BY <1>0, <2>1, MaxConnAssumption DEF StartFileHandler, Grounded, AtHand, TypeOK, ClientsTyped, Conn
    <3>2. /\ fileRequest' = [fileRequest EXCEPT !.sockfd = sockTalk]
          /\ accepted' = accepted /\ sock' = sock
          /\ kind' = [kind EXCEPT ![accepted] = "file"]
      BY <2>1 DEF StartFileHandler, StartThread
    <3>3. fileRequest'.sockfd = sock'[accepted] /\ kind'[accepted] = "file"
      BY <1>0, <3>1, <3>2
    <3> QED
      BY <3>1, <3>2, <3>3 DEF FileSocket
  <2>2. CASE IncomingHandler /\ ~StartFileHandler
    BY <1>0, <2>2 DEF IncomingHandler, ListenerStarts, CheckRunning, Accept, AcceptFails, RecvRequest,
                      RecvFileName, CopyName, buffers
  <2> QED
    BY <2>1, <2>2, OthersLeaveListener DEF listener, buffers
<1>2. fileRequest'.sockfd # GARBAGE => FileSocket(fileRequest.sockfd)'
  <2>1. PICK s : s = fileRequest.sockfd
    OBVIOUS
  <2>2. CASE fileRequest'.sockfd = s /\ s # GARBAGE
    <3>1. FileSocket(s)'
      BY <2>1, <2>2, FileSocketStays DEF FilesApart
    <3> QED
      BY <2>2, <3>1 DEF FileSocket
  <2> QED
    BY <1>1, <2>1, <2>2
<1>3. ASSUME NEW h \in Conn, kind'[h] = "file", hsock'[h] \notin {UNREAD, GARBAGE}
      PROVE  FileSocket(hsock[h])'
  <2>1. CASE hsock'[h] = hsock[h]
    <3>1. kind[h] = "file"
      BY <1>0, <1>3, <2>1, ThreadsStay
    <3>2. PICK s : s = hsock[h]
      OBVIOUS
    <3>3. FileSocket(s)'
      BY <1>3, <2>1, <3>1, <3>2, FileSocketStays DEF FilesApart
    <3> QED
      BY <2>1, <3>2, <3>3 DEF FileSocket
  <2>2. CASE hsock'[h] # hsock[h]
    <3>1. PICK x \in Conn : Handler(x)
      <4>1. UNCHANGED vars \/ UNCHANGED handlers => hsock' = hsock
        BY DEF vars, handlers
      <4> QED
        BY <2>2, <4>1, Moves, MainFrames, ClientFrames, ListenerFrames
    <3>2. h = x
      BY <1>0, <2>2, <3>1, HandlerMoves
    <3>3. kind' = kind
      BY <3>1, HandlerFrames
    <3>4. hsock'[h] = fileRequest.sockfd
      BY <1>0, <1>3, <2>2, <3>1, <3>2, <3>3, HandlerMoves
    <3>5. PICK s : s = fileRequest.sockfd
      OBVIOUS
    <3>6. FileSocket(s)'
      BY <1>3, <3>4, <3>5, FileSocketStays DEF FilesApart
    <3> QED
      BY <3>4, <3>5, <3>6 DEF FileSocket
  <2> QED
    BY <2>1, <2>2
<1> QED
  BY <1>2, <1>3 DEF FilesApart

(* Two steps close a connection: the end of a file handler, and the end of *)
(* the listener.                                                           *)
LEMMA Closes ==
    ASSUME IInv, [Move]_vars, NEW c \in closed', c \notin closed
    PROVE  \/ pc' = "done" /\ c = accepted'
           \/ \E h \in Conn : FileClose(h) /\ c \in Behind(hsock[h])
<1>1. CASE CheckRunning
  <2>1. c \in Behind(sockTalk) /\ pc' = "done" /\ accepted' = accepted
    BY <1>1 DEF CheckRunning, closesocket
  <2> QED
    BY <2>1, HandBehind DEF IInv
<1>2. CASE \E h \in Conn : FileClose(h)
  BY <1>2 DEF FileClose, closesocket
<1>3. CASE IncomingHandler /\ ~CheckRunning
  BY <1>3 DEF IncomingHandler, ListenerStarts, Accept, AcceptFails, RecvRequest, RecvFileName,
                    StartFileHandler, sockets
<1>4. ASSUME NEW h \in Conn, Handler(h), ~FileClose(h)
      PROVE  closed' = closed
  BY <1>4 DEF Handler, SyncHandler, SyncCopySock, SyncGreet, SyncList, FIleRequestHandler, FileCopySock,
              FileCopyName, FileAnswer, FileWord
<1>5. UNCHANGED vars \/ UNCHANGED sockets => closed' = closed
  BY DEF vars, sockets
<1> QED
  BY <1>1, <1>2, <1>3, <1>4, <1>5, Moves, MainFrames, ClientFrames

(* Why a connection that is not the last at the end of the listener was    *)
(* closed.                                                                 *)
ByFiles(c) ==
    \E h \in 1..c :
        /\ Ended(h) /\ hsock[h] = sock[c]
        /\ \/ kind[c] = "file"
           \/ \E g \in Conn \ {h} : kind[g] = "file" /\ hsock[g] = sock[c]

(* The reason does not go away.                                            *)
LEMMA ByFilesStays ==
    ASSUME IInv, [Move]_vars, NEW c \in 1..accepted, ByFiles(c)
    PROVE  ByFiles(c)'
<1>1. /\ c \in Conn /\ sock'[c] = sock[c] /\ \A h \in 1..c : h \in Conn
  <2>1. c \in Conn /\ sock'[c] = sock[c]
    BY SocketsGrow DEF IInv
  <2> QED
    BY <2>1, MaxConnAssumption DEF Conn
<1>2. PICK h \in 1..c : /\ Ended(h) /\ hsock[h] = sock[c]
                        /\ \/ kind[c] = "file"
                           \/ \E g \in Conn \ {h} : kind[g] = "file" /\ hsock[g] = sock[c]
  BY DEF ByFiles
<1>3. sock[c] # UNREAD
  BY <1>1 DEF IInv, Grounded, TypeOK, HandlersTyped, UNREAD
<1>4. Ended(h)' /\ hsock'[h] = sock'[c]
  BY <1>1, <1>2, <1>3, ThreadsStay
<1>5. kind[c] = "file" => kind'[c] = "file"
  BY <1>1, ThreadsStay
<1>6. \A g \in Conn : kind[g] = "file" /\ hsock[g] = sock[c] => kind'[g] = "file" /\ hsock'[g] = sock'[c]
  BY <1>1, <1>3, ThreadsStay
<1> QED
  BY <1>2, <1>4, <1>5, <1>6 DEF ByFiles

(* A file handler closes what is behind its socket: a connection that was  *)
(* dispatched for a file, or one that has got the socket of such a         *)
(* connection, which another file handler has closed before.               *)
LEMMA ClosersStay ==
    ASSUME CloserInv, [Move]_vars
    PROVE  OnlyFileThreadsClose'
<1>0. /\ IInv /\ FilesApart /\ Grounded /\ TypeOK
      /\ \A c \in closed : (pc = "done" /\ c = accepted) \/ ByFiles(c)
  BY DEF CloserInv, IInv, Grounded, OnlyFileThreadsClose, ByFiles, Ended
<1>1. accepted \in Nat /\ closed \subseteq 1..accepted /\ \A c \in 1..accepted : c \in Conn /\ c \in Nat
  BY <1>0, SocketsGrow DEF Conn
<1>2. pc = "done" => pc' = "done" /\ accepted' = accepted
  BY OthersLeaveListener DEF listener, IncomingHandler, ListenerStarts, CheckRunning, Accept, AcceptFails,
         RecvRequest, RecvFileName, StartFileHandler
<1>3. ASSUME NEW h \in Conn, FileClose(h), NEW c \in Behind(hsock[h])
      PROVE  ByFiles(c)'
  <2>1. /\ kind[h] = "file" /\ hpc[h] \in {"words", "missing"} /\ UNCHANGED <<kind, hsock, sock, listener>>
    BY <1>3 DEF FileClose, HandlerFrame
  <2>2. c \in 1..accepted /\ c \notin closed /\ sock[c] = hsock[h] /\ c \in Conn
    BY <1>1, <1>3 DEF Behind
  <2>3. h \in 1..c
    BY <1>0, <1>1, <1>3, <2>2 DEF IInv, NeverOlder, Conn
  <2>4. Ended(h)'
    BY <1>0, <1>3, <2>1 DEF Ended, FileClose, Goto, TypeOK, HandlersTyped
  <2>5. sock[c] \notin {UNREAD, GARBAGE}
    BY <1>0, <2>2, <1>1 DEF Grounded, Numbered, UNREAD, GARBAGE
  <2>6. PICK d \in 1..accepted : kind[d] = "file" /\ sock[d] = sock[c]
    BY <1>0, <2>1, <2>2, <2>5 DEF FilesApart, FileSocket
  <2>7. CASE d = c
    BY <2>1, <2>2, <2>3, <2>4, <2>6, <2>7 DEF ByFiles
  <2>8. CASE d # c
    <3>1. d < c /\ d \in closed
      BY <1>0, <1>1, <2>2, <2>6, <2>8 DEF IInv, OneBehind
    <3>2. ByFiles(d)
      BY <1>0, <1>1, <2>2, <3>1
    <3>3. PICK g \in 1..d : Ended(g) /\ hsock[g] = sock[d]
      BY <3>2 DEF ByFiles
    <3>4. g \in Conn /\ g # h /\ kind[g] = "file" /\ hsock[g] = sock[c]
      <4>1. g \in Conn
        BY <1>1, <2>6, <3>3, MaxConnAssumption DEF Conn
      <4>2. g # h
        BY <2>1, <3>3 DEF Ended
      <4> QED
        BY <2>6, <3>3, <4>1, <4>2 DEF Ended
    <3> QED
      BY <2>1, <2>2, <2>3, <2>4, <3>4 DEF ByFiles
  <2> QED
    BY <2>7, <2>8
<1>4. ASSUME NEW c \in closed'
      PROVE  (pc' = "done" /\ c = accepted') \/ ByFiles(c)'
  <2>1. CASE c \in closed
    BY <1>0, <1>1, <1>2, <2>1, ByFilesStays
  <2>2. CASE c \notin closed
    BY <1>0, <1>3, <2>2, Closes
  <2> QED
    BY <2>1, <2>2
<1> QED
  BY <1>4 DEF OnlyFileThreadsClose, ByFiles, Ended

(* No step leads out of the invariant.                                     *)
LEMMA CloserStep ==
    ASSUME CloserInv, [Move]_vars
    PROVE  CloserInv'
BY Step, FilesApartStays, ClosersStay DEF CloserInv

(* Nothing is closed at first. *)
LEMMA CloserInit == Init => CloserInv
BY Initially DEF Init, CloserInv, FilesApart, OnlyFileThreadsClose, GARBAGE, UNREAD

(* A connection of a sync request, of an unknown request or of a failed    *)
(* recv is closed by nobody, for any number of clients, unless two file    *)
(* handlers have copied the same socket: descriptors are given back by     *)
(* file handlers, for connections of file requests, and one by the         *)
(* listener when it ends.                                                  *)
THEOREM ClosingIsForFiles == Spec => []OnlyFileThreadsClose
<1>1. CloserInv /\ [Next]_vars => CloserInv'
  BY CloserStep DEF Move
<1>2. CloserInv => OnlyFileThreadsClose
  BY DEF CloserInv
<1> QED
  BY <1>1, <1>2, CloserInit, PTL DEF Spec

-----------------------------------------------------------------------------
(* What clients leave behind *)

Silent(c) == asked[c] = NOTHING /\ hung[c] = "closed"
Unnamed(c) == ~named[c] /\ hung[c] = "closed"

(* What a client has sent stays sent, and one that has closed sends no     *)
(* more.                                                                   *)
LEMMA ClientsStay ==
    ASSUME IInv, [Move]_vars, NEW c \in Conn
    PROVE  /\ asked[c] # NOTHING => asked'[c] = asked[c]
           /\ Silent(c) => Silent(c)'
           /\ Unnamed(c) => Unnamed(c)'
<1> USE DEF Silent, Unnamed
<1>1. ClientsTyped
  BY DEF IInv, Grounded, TypeOK
<1>2. CASE UNCHANGED clients
  BY <1>2 DEF clients
<1>3. CASE Connect
  BY <1>3 DEF Connect
<1>4. ASSUME NEW d \in Conn, NEW r \in Asks, Ask(d, r)
      PROVE  /\ asked[c] # NOTHING => asked'[c] = asked[c]
             /\ Silent(c) => Silent(c)'
             /\ Unnamed(c) => Unnamed(c)'
  BY <1>1, <1>4 DEF Ask, ClientsTyped
<1>5. ASSUME NEW d \in Conn, SendName(d)
      PROVE  /\ asked[c] # NOTHING => asked'[c] = asked[c]
             /\ Silent(c) => Silent(c)'
             /\ Unnamed(c) => Unnamed(c)'
  BY <1>1, <1>5 DEF SendName, ClientsTyped
<1>6. ASSUME NEW d \in Conn, NEW how \in {"closed", "reset"}, HangUp(d, how)
      PROVE  /\ asked[c] # NOTHING => asked'[c] = asked[c]
             /\ Silent(c) => Silent(c)'
             /\ Unnamed(c) => Unnamed(c)'
  BY <1>1, <1>6 DEF HangUp, ClientsTyped
<1>7. UNCHANGED vars => UNCHANGED clients
  BY DEF vars
<1> QED
  BY <1>2, <1>3, <1>4, <1>5, <1>6, <1>7, Moves, MainFrames, ListenerFrames, HandlerFrames DEF AnyClient

(* The bytes of c's request in the order in which they are sent.           *)
Wire(c) == Swap(Bytes(asked[c]))

(* Where requestBuf has its bytes from when the first n clients have been  *)
(* read.  Its first byte came as the first or the last of a request, and   *)
(* its last one likewise, but has been swapped for a silent client since   *)
(* if it came last.  Without requests in pieces it is one of those sent,   *)
(* one way round or the other.                                             *)
First(n) ==
    requestBuf[1] = 1 =>
        \E d \in 1..n : asked[d] # NOTHING /\ (Wire(d)[1] = 1 \/ Wire(d)[4] = 1)

Swapped(d, n) ==
    /\ asked[d] # NOTHING
    /\ Wire(d)[1] = 1 \/ (Wire(d)[4] = 1 /\ \E e \in (d + 1)..n : Silent(e))

Last(n) == requestBuf[4] = 1 => \E d \in 1..n : Swapped(d, n)

Whole(n) ==
    (\A d \in 1..n : d \notin cut) =>
        \/ requestBuf = UNSET
        \/ \E d \in 1..n : /\ asked[d] # NOTHING
                           /\ requestBuf = Bytes(asked[d]) \/ requestBuf = Wire(d)

Trace(n) == First(n) /\ Last(n) /\ Whole(n)

BufferTrace ==
    /\ Trace(IF pc = "request" THEN accepted - 1 ELSE accepted)
    /\ pc \in {"fileName", "fileSock"} => requestBuf = Bytes(NODE_FILE_REQUEST)
    /\ \A d \in cut : asked[d] # NOTHING

(* The thread of the silent client c echoes a request.                     *)
Echo(c) ==
    \E d \in 1..(c - 1) :
        \/ kind[c] = "file" /\ (asked[d] = NODE_FILE_REQUEST \/ d \in cut)
        \/ kind[c] = "sync" /\ Swapped(d, c - 1)

Echoes == \A c \in Conn : kind[c] # "none" /\ asked[c] = NOTHING => Echo(c)

(* The property says the same. *)
LEMMA EchoesIsEcho == Echoes <=> SilentRequestsEcho
BY DEF Echoes, Echo, Swapped, Wire, Silent, SilentRequestsEcho

(* A swap exchanges the first and the last byte, and two undo each other.  *)
LEMMA SwapTwice ==
    ASSUME NEW word \in Word
    PROVE  /\ Swap(word)[1] = word[4] /\ Swap(word)[4] = word[1]
           /\ Swap(Swap(word)) = word /\ Swap(UNSET) = UNSET
<1>1. Swap(word)[1] = word[4] /\ Swap(word)[4] = word[1]
  BY DEF Swap
<1>2. Swap(Swap(word)) = word
  BY DEF Swap, Word
<1>3. Swap(UNSET) = UNSET
  BY DEF Swap, UNSET
<1> QED
  BY <1>1, <1>2, <1>3

(* Only 0 has bytes that are all 0.                                        *)
LEMMA ZeroBytes ==
    ASSUME NEW n, FourBytes(n),
           Bytes(n) = Bytes(NODE_FILE_REQUEST) \/ Swap(Bytes(n)) = Bytes(NODE_FILE_REQUEST)
    PROVE  n = NODE_FILE_REQUEST
<1>1. /\ Bytes(n)[1] = n % 256 /\ Bytes(n)[2] = (n \div 256) % 256
      /\ Bytes(n)[3] = (n \div 65536) % 256 /\ Bytes(n)[4] = (n \div 16777216) % 256
  <2>1. Bytes(n)[1] = (n \div 1) % 256
    BY SMT DEF Bytes, FourBytes
  <2>2. n \div 1 = n
    BY SMT DEF FourBytes
  <2> QED
    BY <2>1, <2>2, SMT DEF Bytes
<1>2. \A i \in 1..4 : Bytes(0)[i] = 0
  <2>1. \A d \in {1, 256, 65536, 16777216} : (0 \div d) % 256 = 0
    BY SMT
  <2>2. \A i \in 1..4 : <<1, 256, 65536, 16777216>>[i] \in {1, 256, 65536, 16777216}
    BY SMT
  <2>3. \A i \in 1..4 : Bytes(0)[i] = (0 \div <<1, 256, 65536, 16777216>>[i]) % 256
    BY SMT DEF Bytes
  <2> QED
    BY ONLY <2>1, <2>2, <2>3, SMT
<1>3. \A i \in 1..4 : Bytes(n)[i] = 0
  <2>1. CASE Bytes(n) = Bytes(0)
    BY <1>2, <2>1
  <2>2. CASE Swap(Bytes(n)) = Bytes(0)
    <3>1. \A i \in 1..4 : Swap(Bytes(n))[i] = Bytes(n)[5 - i]
      BY DEF Swap
    <3>2. \A i \in 1..4 : 5 - i \in 1..4 /\ 5 - (5 - i) = i
      OBVIOUS
    <3> QED
      BY <1>2, <2>2, <3>1, <3>2
  <2> QED
    BY <2>1, <2>2 DEF NODE_FILE_REQUEST
<1>4. n % 256 = 0 /\ (n \div 256) % 256 = 0 /\ (n \div 65536) % 256 = 0 /\ (n \div 16777216) % 256 = 0
  BY <1>1, <1>3, SMT
<1>5. n \div 16777216 = 0
  BY <1>4, SMT DEF FourBytes
<1> QED
  BY <1>4, <1>5, SMT DEF NODE_FILE_REQUEST, FourBytes

(* The first byte of 1 is 1, and -1 has other bytes than 0. *)
LEMMA ByteValues == Bytes(NODE_SYNC)[1] = 1 /\ UNSET # Bytes(NODE_FILE_REQUEST)
<1>1. Bytes(1)[1] = (1 \div 1) % 256 /\ Bytes(0)[1] = (0 \div 1) % 256
  BY DEF Bytes
<1>2. (1 \div 1) % 256 = 1 /\ (0 \div 1) % 256 = 0
  BY SMT
<1>3. UNSET[1] = 255
  BY DEF UNSET
<1> QED
  BY <1>1, <1>2, <1>3 DEF NODE_SYNC, NODE_FILE_REQUEST

(* A request that has come in pieces is remembered, and only a step that   *)
(* reads one adds to them.                                                 *)
LEMMA CutGrows ==
    ASSUME [Move]_vars
    PROVE  cut \subseteq cut' /\ (~RecvRequest => cut' = cut)
BY OthersLeaveListener
   DEF listener, IncomingHandler, ListenerStarts, CheckRunning, Accept, AcceptFails, RecvRequest,
       RecvFileName, StartFileHandler

(* A request that has been swapped since stays one. *)
LEMMA SwappedStays ==
    ASSUME IInv, [Move]_vars, NEW n \in 0..MaxConn, NEW d \in 1..n, Swapped(d, n), NEW m \in Nat, n <= m
    PROVE  Swapped(d, m)'
<1>1. d \in Conn /\ \A e \in (d + 1)..n : e \in Conn /\ e \in (d + 1)..m
  BY MaxConnAssumption DEF Conn
<1>2. asked'[d] = asked[d] /\ \A e \in (d + 1)..n : Silent(e) => Silent(e)'
  BY <1>1, ClientsStay DEF Swapped
<1> QED
  BY <1>1, <1>2 DEF Swapped, Wire

(* A buffer that is not written keeps its origin. *)
LEMMA TraceStays ==
    ASSUME IInv, [Move]_vars, requestBuf' = requestBuf,
           NEW n \in 0..MaxConn, NEW m \in Nat, n <= m, Trace(n)
    PROVE  Trace(m)'
<1>1. 1..n \subseteq Conn /\ 1..n \subseteq 1..m
  BY MaxConnAssumption DEF Conn
<1>2. \A c \in 1..n : asked[c] # NOTHING => asked'[c] = asked[c]
  BY <1>1, ClientsStay
<1>3. First(m)'
  BY <1>1, <1>2 DEF Trace, First, Wire
<1>4. Last(m)'
  BY <1>1, SwappedStays DEF Trace, Last
<1>5. Whole(m)'
  BY <1>1, <1>2, CutGrows DEF Trace, Whole, Wire
<1> QED
  BY <1>3, <1>4, <1>5 DEF Trace

(* A thread that has been started keeps its justification. *)
LEMMA EchoStays ==
    ASSUME IInv, [Move]_vars, Echoes, NEW c \in Conn, kind[c] # "none", kind'[c] = kind[c],
           asked'[c] = NOTHING
    PROVE  Echo(c)'
<1>1. c \in 1..MaxConn /\ c - 1 \in 0..MaxConn /\ \A d \in 1..(c - 1) : d \in Conn
  BY MaxConnAssumption DEF Conn
<1>2. asked[c] = NOTHING
  BY ClientsStay
<1>3. PICK d \in 1..(c - 1) :
          \/ kind[c] = "file" /\ (asked[d] = NODE_FILE_REQUEST \/ d \in cut)
          \/ kind[c] = "sync" /\ Swapped(d, c - 1)
  BY <1>2 DEF Echoes, Echo
<1>4. CASE kind[c] = "file" /\ (asked[d] = NODE_FILE_REQUEST \/ d \in cut)
  <2>1. asked[d] = NODE_FILE_REQUEST => asked'[d] = NODE_FILE_REQUEST
    BY <1>1, ClientsStay DEF NODE_FILE_REQUEST, NOTHING
  <2> QED
    BY <1>4, <2>1, CutGrows DEF Echo
<1>5. CASE kind[c] = "sync" /\ Swapped(d, c - 1)
  <2>1. Swapped(d, c - 1)'
    BY <1>1, <1>5, SwappedStays
  <2> QED
    BY <1>5, <2>1 DEF Echo
<1> QED
  BY <1>3, <1>4, <1>5

(* The steps that read no request and start no thread.                     *)
LEMMA QuietStep ==
    ASSUME IInv, [Move]_vars, BufferTrace, Echoes, ~RecvRequest, ~StartFileHandler
    PROVE  BufferTrace' /\ Echoes'
<1>1. requestBuf' = requestBuf /\ kind' = kind /\ cut' = cut
  BY OthersLeaveListener, CutGrows
     DEF listener, buffers, handlers, IncomingHandler, ListenerStarts, CheckRunning, Accept,
         AcceptFails, RecvFileName
<1>2. Echoes'
  BY <1>1, EchoStays, Zenon DEF Echoes
<1>3. \/ pc' = pc /\ accepted' = accepted
      \/ pc # "request" /\ pc' = "request" /\ accepted' = accepted + 1
      \/ /\ pc # "request" /\ pc' # "request" /\ accepted' = accepted
         /\ pc' \in {"fileName", "fileSock"} => pc \in {"fileName", "fileSock"}
  <2>1. CASE IncomingHandler
    BY <2>1 DEF IncomingHandler, ListenerStarts, CheckRunning, Accept, AcceptFails, RecvFileName,
                BackToLoop
  <2> QED
    BY <2>1, OthersLeaveListener DEF listener
<1>4. pc' \in {"fileName", "fileSock"} => requestBuf' = Bytes(NODE_FILE_REQUEST)
  BY <1>1, <1>3 DEF BufferTrace
<1>5. /\ accepted \in 0..MaxConn /\ accepted \in Nat /\ accepted' \in Nat
      /\ pc = "request" => accepted # 0
      /\ \A d \in cut : d \in Conn
  BY SocketsGrow, MaxConnAssumption DEF IInv, Grounded, AtHand, TypeOK, ClientsTyped, ListenerTyped, Conn
<1>6. PICK n \in 0..MaxConn :
          /\ n = IF pc = "request" THEN accepted - 1 ELSE accepted
          /\ Trace(n)
  BY <1>5, MaxConnAssumption DEF BufferTrace
<1>7. n = IF pc' = "request" THEN accepted' - 1 ELSE accepted'
  <2>1. CASE pc' = pc /\ accepted' = accepted
    BY ONLY <1>6, <2>1
  <2>2. CASE pc # "request" /\ pc' = "request" /\ accepted' = accepted + 1
    <3>1. n = accepted /\ accepted' - 1 = accepted
      BY ONLY <1>5, <1>6, <2>2
    <3> QED
      BY ONLY <2>2, <3>1
  <2>3. CASE pc # "request" /\ pc' # "request" /\ accepted' = accepted
    BY ONLY <1>6, <2>3
  <2> QED
    BY <1>3, <2>1, <2>2, <2>3
<1>8. Trace(n)'
  BY <1>1, <1>6, TraceStays
<1>9. \A d \in cut' : asked'[d] # NOTHING
  BY <1>1, <1>5, ClientsStay DEF BufferTrace
<1> QED
  BY <1>2, <1>4, <1>7, <1>8, <1>9 DEF BufferTrace

(* A request is dispatched: what comes into the buffer is accounted for,   *)
(* and so is a sync thread started for a client that asked for nothing.    *)
LEMMA EchoDispatch ==
    ASSUME IInv, [Move]_vars, BufferTrace, Echoes, RecvRequest
    PROVE  BufferTrace' /\ Echoes'
<1>1. /\ pc = "request" /\ accepted \in Conn /\ accepted \in Nat \ {0}
      /\ accepted - 1 \in 0..MaxConn /\ accepted - 1 <= accepted
      /\ accepted' = accepted /\ UNCHANGED <<asked, hung>>
      /\ kind \in [Conn -> {"none", "sync", "file"}]
      /\ requestBuf \in Word
      /\ asked[accepted] # NOTHING => FourBytes(asked[accepted])
  <2>1. pc = "request" /\ accepted' = accepted /\ UNCHANGED <<asked, hung>>
    BY DEF RecvRequest, Outside, clients
  <2>2. TypeOK /\ accepted \in Conn
    BY <2>1, MaxConnAssumption DEF IInv, Grounded, AtHand, TypeOK, ClientsTyped, Conn
  <2>3. accepted \in Nat \ {0} /\ accepted - 1 \in 0..MaxConn /\ accepted - 1 <= accepted
    BY <2>2, MaxConnAssumption DEF Conn
  <2> QED
    BY <2>1, <2>2, <2>3, AsksAssumption DEF TypeOK, ClientsTyped, ListenerTyped, HandlersTyped
<1>2. Trace(accepted - 1) /\ \A d \in cut : asked[d] # NOTHING
  BY <1>1 DEF BufferTrace
<1>3. \A d \in 1..(accepted - 1) : d \in 1..accepted /\ \A e \in (d + 1)..(accepted - 1) : e \in (d + 1)..accepted
  BY <1>1
<1>4. \A c \in Conn : kind[c] # "none" /\ kind'[c] = kind[c] /\ asked'[c] = NOTHING => Echo(c)'
  BY EchoStays
<1>5. ASSUME NEW word, Dispatch(word)
      PROVE  /\ requestBuf' = Swap(word)
             /\ pc' \in {"check", "fileName"}
             /\ pc' = "fileName" => requestBuf' = Bytes(NODE_FILE_REQUEST)
             /\ \A c \in Conn : c # accepted => kind'[c] = kind[c]
             /\ \/ kind'[accepted] = kind[accepted]
                \/ requestBuf' = Bytes(NODE_SYNC) /\ kind'[accepted] = "sync"
  BY <1>1, <1>5 DEF Dispatch, BackToLoop, StartThread, handlers
<1>6. CASE pc' = "check" /\ UNCHANGED <<cut, requestBuf, kind>>
  <2>1. Trace(accepted)'
    BY <1>1, <1>2, <1>6, TraceStays
  <2>2. BufferTrace'
    BY <1>1, <1>2, <1>6, <2>1 DEF BufferTrace
  <2> QED
    BY <1>4, <1>6, <2>2, Zenon DEF Echoes
<1>7. ASSUME asked[accepted] # NOTHING, NEW n \in Pieces, NEW word,
             word = [i \in 1..4 |-> IF i <= n THEN Wire(accepted)[i] ELSE requestBuf[i]],
             Dispatch(word), cut' = IF n < 4 THEN cut \cup {accepted} ELSE cut
      PROVE  BufferTrace' /\ Echoes'
  <2>1. n \in 1..4 /\ Wire(accepted) \in Word
    BY <1>1, <1>7, PiecesAssumption, WordType DEF Wire, FourBytes
  <2>2. word \in Word /\ word[1] = Wire(accepted)[1] /\ (word[4] = Wire(accepted)[4] \/ word[4] = requestBuf[4])
    BY <1>1, <1>7, <2>1 DEF Word
  <2>3. n = 4 => word = Wire(accepted)
    BY <1>7, <2>1 DEF Word
  <2>4. requestBuf' = Swap(word) /\ requestBuf'[1] = word[4] /\ requestBuf'[4] = word[1]
    BY <1>5, <1>7, <2>2, SwapTwice
  <2>5. accepted \in 1..accepted
    BY <1>1
  <2>6. First(accepted)'
    <3>1. ASSUME NEW d \in 1..(accepted - 1), Swapped(d, accepted - 1)
          PROVE  d \in 1..accepted /\ asked[d] # NOTHING /\ (Wire(d)[1] = 1 \/ Wire(d)[4] = 1)
      BY <1>3, <3>1 DEF Swapped
    <3>2. requestBuf'[1] = 1 => Wire(accepted)[4] = 1 \/ \E d \in 1..(accepted - 1) : Swapped(d, accepted - 1)
      BY <1>2, <2>2, <2>4 DEF Trace, Last
    <3>3. requestBuf'[1] = 1 => \E d \in 1..accepted : asked[d] # NOTHING /\ (Wire(d)[1] = 1 \/ Wire(d)[4] = 1)
      BY <1>7, <2>5, <3>1, <3>2
    <3> QED
      BY <1>1, <3>3 DEF First, Wire
  <2>7. Last(accepted)'
    BY <1>1, <1>7, <2>2, <2>4, <2>5 DEF Last, Swapped, Wire
  <2>8. Whole(accepted)'
    <3>1. CASE n < 4
      BY <1>1, <1>7, <2>5, <3>1 DEF Whole
    <3>2. CASE n = 4
      <4>1. Bytes(asked[accepted]) \in Word
        BY <1>1, <1>7, WordType DEF FourBytes
      <4>2. requestBuf' = Bytes(asked[accepted])
        BY <2>3, <2>4, <3>2, <4>1, SwapTwice DEF Wire
      <4> QED
        BY <1>1, <1>7, <2>5, <4>2 DEF Whole
    <3> QED
      BY <2>1, <3>1, <3>2
  <2>9. \A d \in cut' : asked'[d] # NOTHING
    BY <1>1, <1>2, <1>7
  <2>10. BufferTrace'
    BY <1>1, <1>5, <1>7, <2>6, <2>7, <2>8, <2>9 DEF BufferTrace, Trace
  <2>11. ASSUME NEW c \in Conn, kind'[c] # "none", asked'[c] = NOTHING
         PROVE  kind[c] # "none" /\ kind'[c] = kind[c]
    BY <1>1, <1>5, <1>7, <2>11
  <2> QED
    BY <1>4, <2>10, <2>11, Zenon DEF Echoes
<1>8. ASSUME Silent(accepted), Dispatch(requestBuf), cut' = cut
      PROVE  BufferTrace' /\ Echoes'
  <2>1. requestBuf' = Swap(requestBuf) /\ requestBuf'[1] = requestBuf[4] /\ requestBuf'[4] = requestBuf[1]
    BY <1>1, <1>5, <1>8, SwapTwice
  <2>2. \A e \in Conn : Silent(e)' <=> Silent(e)
    BY <1>1 DEF Silent
  <2>3. requestBuf'[1] = 1 => \E d \in 1..(accepted - 1) : Swapped(d, accepted - 1)
    BY <1>2, <2>1 DEF Trace, Last
  <2>4. First(accepted)'
    <3>1. requestBuf'[1] = 1 => \E d \in 1..accepted : asked[d] # NOTHING /\ (Wire(d)[1] = 1 \/ Wire(d)[4] = 1)
      BY <1>3, <2>3 DEF Swapped
    <3> QED
      BY <1>1, <3>1 DEF First, Wire
  <2>5. Last(accepted)'
    <3>1. ASSUME requestBuf'[4] = 1
          PROVE  \E d \in 1..accepted : Swapped(d, accepted)
      <4>1. PICK d \in 1..(accepted - 1) : asked[d] # NOTHING /\ (Wire(d)[1] = 1 \/ Wire(d)[4] = 1)
        BY <1>2, <2>1, <3>1 DEF Trace, First
      <4>2. d \in 1..accepted /\ accepted \in (d + 1)..accepted
        BY <1>1
      <4> QED
        BY <1>8, <4>1, <4>2 DEF Swapped
    <3>2. ASSUME NEW d \in 1..accepted
          PROVE  Swapped(d, accepted)' <=> Swapped(d, accepted)
      <4>1. \A e \in (d + 1)..accepted : e \in Conn
        BY <1>1, <3>2, MaxConnAssumption DEF Conn
      <4> QED
        BY <1>1, <2>2, <4>1 DEF Swapped, Wire
    <3> QED
      BY <1>1, <3>1, <3>2 DEF Last
  <2>6. Whole(accepted)'
    <3>1. ASSUME \A d \in 1..accepted : d \notin cut'
          PROVE  \/ requestBuf' = UNSET
                 \/ \E d \in 1..accepted : /\ asked[d] # NOTHING
                                           /\ requestBuf' = Bytes(asked[d]) \/ requestBuf' = Wire(d)
      <4>1. \A d \in 1..(accepted - 1) : d \notin cut
        BY <1>3, <1>8, <3>1
      <4>2. CASE requestBuf = UNSET
        BY <1>1, <2>1, <4>2, SwapTwice
      <4>3. ASSUME NEW d \in 1..(accepted - 1), asked[d] # NOTHING,
                   requestBuf = Bytes(asked[d]) \/ requestBuf = Wire(d)
            PROVE  requestBuf' = Bytes(asked[d]) \/ requestBuf' = Wire(d)
        <5>1. d \in Conn
          BY <1>1, MaxConnAssumption DEF Conn
        <5>2. asked[d] \in Nat
          BY <4>3, <5>1, AsksAssumption DEF IInv, Grounded, TypeOK, ClientsTyped, FourBytes
        <5> QED
          BY <2>1, <4>3, <5>2, WordType, SwapTwice DEF Wire
      <4> QED
        BY <1>2, <1>3, <4>1, <4>2, <4>3 DEF Trace, Whole
    <3> QED
      BY <1>1, <3>1 DEF Whole, Wire
  <2>7. BufferTrace'
    BY <1>1, <1>2, <1>5, <1>8, <2>4, <2>5, <2>6 DEF BufferTrace, Trace
  <2>8. ASSUME NEW c \in Conn, kind'[c] # "none", asked'[c] = NOTHING
        PROVE  Echo(c)'
    <3>1. CASE kind'[c] = kind[c]
      BY <1>4, <2>8, <3>1
    <3>2. CASE kind'[c] # kind[c]
      <4>1. c = accepted /\ kind'[c] = "sync" /\ requestBuf'[1] = 1
        BY <1>5, <1>8, <3>2, ByteValues
      <4>2. PICK d \in 1..(accepted - 1) : Swapped(d, accepted - 1)
        BY <2>3, <4>1
      <4>3. Swapped(d, accepted - 1)'
        BY <1>1, <4>2, SwappedStays
      <4> QED
        BY <1>1, <4>1, <4>2, <4>3 DEF Echo
    <3> QED
      BY <3>1, <3>2
  <2> QED
    BY <2>7, <2>8, Zenon DEF Echoes
<1> QED
  BY <1>6, <1>7, <1>8 DEF RecvRequest, HasSent, RecvZero, BackToLoop, Wire, Silent, handlers

(* A file thread is started: somebody up to this client asked for a file,  *)
(* or sent a request in pieces.                                            *)
LEMMA EchoStart ==
    ASSUME IInv, [Move]_vars, BufferTrace, Echoes, StartFileHandler
    PROVE  BufferTrace' /\ Echoes'
<1>1. /\ pc = "fileSock" /\ pc' = "check" /\ requestBuf' = requestBuf /\ cut' = cut
      /\ accepted \in Conn /\ accepted \in 0..MaxConn /\ accepted \in Nat
      /\ accepted' = accepted /\ UNCHANGED <<asked, hung>>
      /\ kind' = [kind EXCEPT ![accepted] = "file"]
      /\ kind \in [Conn -> {"none", "sync", "file"}]
  BY MaxConnAssumption DEF StartFileHandler, BackToLoop, StartThread, Outside, clients, IInv, Grounded,
     TypeOK, AtHand, ClientsTyped, HandlersTyped, Conn
<1>2. /\ requestBuf = Bytes(NODE_FILE_REQUEST) /\ Trace(accepted)
      /\ \A d \in cut : asked[d] # NOTHING
  BY <1>1 DEF BufferTrace
<1>3. Trace(accepted)'
  BY <1>1, <1>2, TraceStays
<1>4. PICK d \in 1..accepted : d \in cut \/ asked[d] = NODE_FILE_REQUEST
  <2>1. CASE \E d \in 1..accepted : d \in cut
    BY <2>1
  <2>2. CASE \A d \in 1..accepted : d \notin cut
    <3>1. PICK d \in 1..accepted : /\ asked[d] # NOTHING
                                   /\ requestBuf = Bytes(asked[d]) \/ requestBuf = Wire(d)
      BY <1>2, <2>2, ByteValues DEF Trace, Whole
    <3>2. d \in Conn
      BY <1>1, MaxConnAssumption DEF Conn
    <3>3. FourBytes(asked[d])
      BY <3>1, <3>2, AsksAssumption DEF IInv, Grounded, TypeOK, ClientsTyped, FourBytes
    <3>4. asked[d] = NODE_FILE_REQUEST
      BY <1>2, <3>1, <3>3, ZeroBytes DEF Wire
    <3> QED
      BY <3>4
  <2> QED
    BY <2>1, <2>2
<1>5. ASSUME NEW c \in Conn, kind'[c] # "none", asked'[c] = NOTHING
      PROVE  Echo(c)'
  <2>1. CASE c = accepted
    <3>1. d # accepted /\ kind'[c] = "file"
      BY <1>1, <1>2, <1>4, <1>5, <2>1 DEF NOTHING, NODE_FILE_REQUEST
    <3>2. d \in 1..(c - 1) /\ (d \in cut' \/ asked'[d] = NODE_FILE_REQUEST)
      BY <1>1, <1>4, <2>1, <3>1
    <3> QED
      BY <3>1, <3>2 DEF Echo
  <2>2. CASE c # accepted
    <3>1. kind'[c] = kind[c]
      BY <1>1, <2>2
    <3> QED
      BY <1>5, <3>1, EchoStays
  <2> QED
    BY <2>1, <2>2
<1>6. \A x \in cut' : asked'[x] # NOTHING
  BY <1>1, <1>2
<1> QED
  BY <1>1, <1>3, <1>5, <1>6 DEF BufferTrace, Echoes

(* A client that says nothing is served only what an earlier one has sent, *)
(* a file when there was a file request or a request in pieces, a sync     *)
(* answer when there was a first byte 1, or a last byte 1 and a silent     *)
(* client since: however many clients there are, whatever numbers they     *)
(* send, and in however many pieces these come.                            *)
THEOREM SilenceIsEchoed == Spec => []SilentRequestsEcho
<1>1. Init => BufferTrace /\ Echoes
  <2> SUFFICES ASSUME Init PROVE BufferTrace /\ Echoes
    OBVIOUS
  <2>1. requestBuf[1] = 255 /\ requestBuf[4] = 255 /\ requestBuf = UNSET
    BY DEF Init, UNSET
  <2> QED
    BY <2>1 DEF Init, BufferTrace, Trace, First, Last, Whole, Echoes
<1>2. IInv /\ BufferTrace /\ Echoes /\ [Next]_vars => BufferTrace' /\ Echoes'
  BY QuietStep, EchoDispatch, EchoStart DEF Move
<1> QED
  BY <1>1, <1>2, Invariance, EchoesIsEcho, PTL DEF Spec

-----------------------------------------------------------------------------
(* Whose name a file handler gets *)

(* A thread of client h may hold the name n: it is not an earlier client's, *)
(* or some client from h on has closed without naming a file.              *)
Excused(h, n) == n = GARBAGE \/ n >= h \/ \E c \in h..accepted : Unnamed(c)

NamesTraced ==
    /\ \A h \in Conn : kind[h] = "file" => Excused(h, fileRequest.fileName)
    /\ pc = "fileSock" => Excused(accepted, fileRequest.fileName)
    /\ \A h \in Conn : hname[h] # UNREAD => Excused(h, hname[h])

(* An excuse is good for ever. *)
LEMMA ExcusedStays ==
    ASSUME IInv, [Move]_vars, NEW h \in Conn, NEW n, Excused(h, n)
    PROVE  Excused(h, n)'
<1>1. CASE n = GARBAGE \/ n >= h
  BY <1>1 DEF Excused
<1>2. CASE \E c \in h..accepted : Unnamed(c)
  <2>1. PICK c \in h..accepted : Unnamed(c)
    BY <1>2
  <2>2. h \in 1..MaxConn /\ accepted \in Nat /\ accepted' \in {accepted, accepted + 1}
        /\ \A d \in 1..accepted : d \in Conn
    BY SocketsGrow DEF IInv, Conn
  <2>3. c \in Conn /\ c \in h..accepted'
    BY <2>1, <2>2, MaxConnAssumption
  <2>4. Unnamed(c)'
    BY <2>1, <2>3, ClientsStay
  <2> QED
    BY <2>3, <2>4 DEF Excused
<1> QED
  BY <1>1, <1>2 DEF Excused

(* The steps that leave the struct's name and the threads' names alone.    *)
LEMMA NamesKept ==
    ASSUME IInv, [Move]_vars, NamesTraced, fileRequest'.fileName = fileRequest.fileName, hname' = hname,
           \A h \in Conn : kind'[h] = "file" => kind[h] = "file" \/ (h = accepted /\ pc = "fileSock"),
           pc' = "fileSock" => pc = "fileSock" /\ accepted' = accepted
    PROVE  NamesTraced'
<1>1. PICK n : n = fileRequest.fileName
  OBVIOUS
<1>2. \A h \in Conn : kind'[h] = "file" => Excused(h, n)'
  <2> SUFFICES ASSUME NEW h \in Conn, kind'[h] = "file" PROVE Excused(h, n)'
    OBVIOUS
  <2>1. Excused(h, n)
    BY <1>1 DEF NamesTraced
  <2> QED
    BY <2>1, ExcusedStays
<1>3. pc' = "fileSock" => Excused(accepted, n)'
  <2> SUFFICES ASSUME pc' = "fileSock" PROVE Excused(accepted, n)'
    OBVIOUS
  <2>1. accepted \in Conn /\ Excused(accepted, n)
    BY <1>1, MaxConnAssumption DEF NamesTraced, IInv, Grounded, AtHand, TypeOK, ClientsTyped, Conn
  <2>2. PICK a \in Conn : a = accepted
    BY <2>1
  <2>3. Excused(a, n)'
    BY <2>1, <2>2, ExcusedStays
  <2> QED
    BY <2>2, <2>3
<1>4. ASSUME NEW h \in Conn, hname'[h] # UNREAD
      PROVE  Excused(h, hname[h])'
  <2>1. PICK m : m = hname[h]
    OBVIOUS
  <2>2. Excused(h, m)'
    BY <1>4, <2>1, ExcusedStays DEF NamesTraced
  <2>3. hname'[h] = m
    BY <2>1
  <2> QED
    BY <2>2, <2>3 DEF Excused
<1> QED
  BY <1>1, <1>2, <1>3, <1>4 DEF NamesTraced, Excused

(* The struct takes the name at hand, which is the client's own unless it  *)
(* has closed without one.                                                 *)
LEMMA NamesReceived ==
    ASSUME IInv, [Move]_vars, NamesTraced, RecvFileName
    PROVE  NamesTraced'
<1>1. /\ UNCHANGED <<kind, hname, accepted, named, hung>>
      /\ fileRequest \in [fileName : 0..accepted, sockfd : 0..accepted]
      /\ accepted \in Nat /\ \A h \in Conn : h \in Nat
  <2>1. UNCHANGED <<kind, hname, accepted, named, hung>>
    BY DEF RecvFileName, Outside, clients, handlers
  <2>2. accepted \in Nat /\ \A h \in Conn : h \in Nat
    BY SocketsGrow, MaxConnAssumption DEF IInv, Conn
  <2> QED
    BY <2>1, <2>2 DEF IInv, Grounded, TypeOK, ListenerTyped
<1>2. CASE UNCHANGED fileRequest /\ pc' # "fileSock"
  BY <1>1, <1>2, NamesKept
<1>3. CASE /\ fileRequest' = [fileRequest EXCEPT !.fileName = fileName']
           /\ fileName' = accepted \/ Unnamed(accepted)
  <2>1. fileRequest'.fileName = fileName'
    BY <1>1, <1>3
  <2>2. Unnamed(accepted)' <=> Unnamed(accepted)
    BY <1>1 DEF Unnamed
  <2>3. \A h \in Conn : kind'[h] # "none" => h <= accepted'
    BY <1>1 DEF IInv, Started
  <2>4. ASSUME NEW h \in Nat, h <= accepted
        PROVE  fileName' >= h \/ \E c \in h..accepted' : Unnamed(c)'
    BY <1>1, <1>3, <2>2, <2>4 DEF Unnamed
  <2>5. /\ \A h \in Conn : kind'[h] = "file" => Excused(h, fileRequest.fileName)'
        /\ Excused(accepted, fileRequest.fileName)'
    BY <1>1, <2>1, <2>3, <2>4 DEF Excused
  <2>6. \A h \in Conn : hname'[h] # UNREAD => Excused(h, hname[h])'
    BY <1>1 DEF NamesTraced, Excused, Unnamed
  <2> QED
    BY <2>5, <2>6 DEF NamesTraced
<1>4. \/ UNCHANGED fileRequest /\ pc' # "fileSock"
      \/ /\ fileName' = accepted \/ RecvZero(named[accepted] \/ accepted \in cut)
         /\ CopyName \/ UNCHANGED <<pc, fileRequest>>
  BY DEF RecvFileName, BackToLoop
<1>5. RecvZero(named[accepted] \/ accepted \in cut) => Unnamed(accepted)
  BY DEF RecvZero, Unnamed
<1>6. pc = "fileName"
  BY DEF RecvFileName
<1> QED
  BY <1>2, <1>3, <1>4, <1>5, <1>6 DEF CopyName

(* A handler copies the struct's name, or finds the stack gone.            *)
LEMMA NamesCopied ==
    ASSUME IInv, [Move]_vars, NamesTraced, NEW h \in Conn, FileCopyName(h)
    PROVE  NamesTraced'
<1>1. /\ UNCHANGED <<kind, pc, accepted, fileRequest, named, hung>>
      /\ kind[h] = "file"
      /\ hname \in [Conn -> {UNREAD} \cup 0..accepted]
  BY DEF FileCopyName, HandlerFrame, listener, buffers, clients, IInv, Grounded, TypeOK, HandlersTyped
<1>2. ASSUME NEW x \in Conn
      PROVE  \/ hname'[x] = hname[x]
             \/ hname'[x] = GARBAGE
             \/ x = h /\ hname'[x] = fileRequest.fileName
  BY <1>1 DEF FileCopyName, Copy
<1>3. ASSUME NEW x \in Conn, hname'[x] # UNREAD
      PROVE  Excused(x, hname'[x])
  BY <1>1, <1>2, <1>3 DEF NamesTraced, Excused
<1> QED
  BY <1>1, <1>3 DEF NamesTraced, Excused, Unnamed

(* No step of any thread or client leaves a name unexplained.              *)
LEMMA NamesStep ==
    ASSUME IInv, [Move]_vars, NamesTraced
    PROVE  NamesTraced'
<1>0. /\ fileRequest \in [fileName : 0..accepted, sockfd : 0..accepted]
      /\ kind \in [Conn -> {"none", "sync", "file"}] /\ Grounded
  BY DEF IInv, Grounded, TypeOK, ListenerTyped, HandlersTyped
<1>1. CASE IncomingHandler /\ ~RecvFileName
  <2>1. hname' = hname
    BY <1>1, ListenerFrames
  <2>2. fileRequest'.fileName = fileRequest.fileName /\ pc' # "fileSock"
    BY <1>0, <1>1 DEF IncomingHandler, ListenerStarts, CheckRunning, Accept, AcceptFails, RecvRequest,
                      Dispatch, StartFileHandler, BackToLoop, buffers
  <2>3. \A h \in Conn : kind'[h] = "file" => kind[h] = "file" \/ (h = accepted /\ pc = "fileSock")
    BY <1>0, <1>1, ThreadStarts
  <2> QED
    BY <2>1, <2>2, <2>3, NamesKept
<1>2. CASE UNCHANGED <<listener, kind, hname>>
  BY <1>2, NamesKept DEF listener, buffers
<1>3. ASSUME NEW h \in Conn, Handler(h), ~FileCopyName(h)
      PROVE  UNCHANGED <<listener, kind, hname>>
  <2>1. hname' = hname
    BY <1>3 DEF Handler, SyncHandler, SyncCopySock, SyncGreet, SyncList, FIleRequestHandler, FileCopySock,
                FileAnswer, FileWord, FileClose
  <2> QED
    BY <1>3, <2>1, HandlerFrames
<1>4. UNCHANGED vars \/ UNCHANGED <<listener, handlers>> => UNCHANGED <<listener, kind, hname>>
  BY DEF vars, handlers
<1> QED
  BY <1>1, <1>2, <1>3, <1>4, NamesReceived, NamesCopied, Moves, MainFrames, ClientFrames

(* A file handler sends the file of an earlier client only when a client   *)
(* has closed without naming one since, for any number of clients.         *)
THEOREM NamesNeverGoBack == Spec => []NameNeverOlder
<1>1. Init => NamesTraced
  BY DEF Init, NamesTraced
<1>2. IInv /\ NamesTraced /\ [Next]_vars => NamesTraced'
  BY NamesStep DEF Move
<1>3. IInv /\ NamesTraced => NameNeverOlder
  <2> SUFFICES ASSUME IInv, NamesTraced, NEW h \in Conn,
                      hname[h] \notin {UNREAD, GARBAGE}, hname[h] < h
               PROVE  \E c \in h..accepted : ~named[c] /\ hung[c] = "closed"
    BY DEF NameNeverOlder
  <2>1. hname[h] \in Int /\ h \in Int
    BY MaxConnAssumption DEF IInv, Grounded, TypeOK, ClientsTyped, HandlersTyped, Conn, UNREAD
  <2> QED
    BY <2>1 DEF NamesTraced, Excused, Unnamed
<1> QED
  BY <1>1, <1>2, <1>3, Invariance, PTL DEF Spec

-----------------------------------------------------------------------------
(* The list of known nodes *)

(* The loop compares with 0 or with more than the list can hold.           *)
CountsSwapped ==
    \A h \in Conn : /\ hix[h] \in 0..MaxKnown
                    /\ hcount[h] = 0 \/ hcount[h] >= 65536

(* A small number in network order is large, unless it is 0.               *)
LEMMA SwapLarge ==
    ASSUME NEW n \in Nat, n < 65536
    PROVE  htonlO(n) = 0 \/ htonlO(n) >= 65536
<1>1. Bytes(n)[1] = n % 256 /\ Bytes(n)[2] = n \div 256 /\ Bytes(n)[3] = 0 /\ Bytes(n)[4] = 0
  <2>1. /\ Bytes(n)[1] = (n \div 1) % 256 /\ Bytes(n)[2] = (n \div 256) % 256
        /\ Bytes(n)[3] = (n \div 65536) % 256 /\ Bytes(n)[4] = (n \div 16777216) % 256
    BY SMT DEF Bytes
  <2>2. n \div 1 = n /\ n \div 256 \in 0..255 /\ n \div 65536 = 0 /\ n \div 16777216 = 0
    BY SMT
  <2>3. \A b \in 0..255 : b % 256 = b
    BY SMT
  <2> QED
    BY <2>1, <2>2, <2>3, SMT
<1>2. n % 256 \in 0..255 /\ n \div 256 \in 0..255
  BY SMT
<1>3. /\ Swap(Bytes(n))[1] = 0 /\ Swap(Bytes(n))[2] = 0
      /\ Swap(Bytes(n))[3] = n \div 256 /\ Swap(Bytes(n))[4] = n % 256
  BY <1>1 DEF Swap
<1>4. htonlO(n) = 65536 * (n \div 256) + 16777216 * (n % 256)
  BY <1>2, <1>3, SMT DEF htonlO, Number
<1>5. \A a \in 0..255, b \in 0..255 :
          65536 * a + 16777216 * b = 0 \/ 65536 * a + 16777216 * b >= 65536
  BY SMT
<1> QED
  BY <1>2, <1>4, <1>5, SMT

(* One turn of a sync handler, or any other step, keeps the counts apart.  *)
LEMMA CountsStep ==
    ASSUME MaxKnown < 65536, IInv, [Move]_vars, CountsSwapped, OnlyEmptyListsServed
    PROVE  CountsSwapped' /\ OnlyEmptyListsServed'
<1>1. /\ hcount \in [Conn -> Int] /\ hix \in [Conn -> Nat]
      /\ hpc \in [Conn -> {"none", "new", "greet", "list", "words", "missing", "served", "failed"}]
      /\ kind \in [Conn -> {"none", "sync", "file"}]
      /\ known \in 0..MaxKnown /\ Grounded
  BY DEF IInv, Grounded, TypeOK, HandlersTyped, MainTyped
<1>2. ASSUME UNCHANGED <<hcount, hix>>,
             \A h \in Conn : hpc'[h] = "served" /\ kind'[h] = "sync" => hpc[h] = "served" /\ kind[h] = "sync"
      PROVE  CountsSwapped' /\ OnlyEmptyListsServed'
  BY <1>2 DEF CountsSwapped, OnlyEmptyListsServed
<1>3. ASSUME NEW h \in Conn, SyncGreet(h)
      PROVE  CountsSwapped' /\ OnlyEmptyListsServed'
  <2>1. htonlO(known) = 0 \/ htonlO(known) >= 65536
    <3>1. known \in Nat /\ known < 65536
      BY ONLY <1>1, MaxKnownAssumption, MaxKnown < 65536, SMT
    <3> QED
      BY ONLY <3>1, SwapLarge, SMT
  <2>2. ASSUME NEW x \in Conn
        PROVE  /\ hix'[x] = hix[x] \/ hix'[x] = 0
               /\ hcount'[x] = hcount[x] \/ (x = h /\ hcount'[x] = htonlO(known))
               /\ hpc'[x] = hpc[x] \/ hpc'[x] # "served"
               /\ x = h => hpc'[x] # "served"
               /\ kind'[x] = kind[x]
    BY <1>1, <1>3 DEF SyncGreet, Goto, nKnownNodes, HandlerFrame
  <2> QED
    BY <2>1, <2>2, MaxKnownAssumption DEF CountsSwapped, OnlyEmptyListsServed
<1>4. ASSUME NEW h \in Conn, SyncList(h)
      PROVE  CountsSwapped' /\ OnlyEmptyListsServed'
  <2>1. ASSUME NEW x \in Conn
        PROVE  /\ hcount'[x] = hcount[x] /\ kind'[x] = kind[x]
               /\ hix'[x] = hix[x] \/ (hix[x] < known /\ hix'[x] = hix[x] + 1)
               /\ hpc'[x] = "served" => hpc[x] = "served" \/ hix[x] >= hcount[x]
    BY <1>1, <1>4 DEF SyncList, Goto, HandlerFrame
  <2>2. CountsSwapped'
    BY <1>1, <2>1, MaxKnownAssumption DEF CountsSwapped
  <2>3. \A x \in Conn : hix[x] >= hcount[x] => hcount[x] = 0
    BY <1>1, MaxKnownAssumption DEF CountsSwapped
  <2> QED
    BY <2>1, <2>2, <2>3 DEF OnlyEmptyListsServed
<1>5. ASSUME NEW h \in Conn, SyncCopySock(h) \/ FIleRequestHandler(h)
      PROVE  CountsSwapped' /\ OnlyEmptyListsServed'
  <2>1. UNCHANGED <<hcount, hix, kind>>
    BY <1>5 DEF SyncCopySock, FIleRequestHandler, FileCopySock, FileCopyName, FileAnswer, FileWord,
                FileClose, HandlerFrame
  <2>2. ASSUME NEW x \in Conn, hpc'[x] = "served", kind[x] = "sync"
        PROVE  hpc[x] = "served"
    BY <1>1, <1>5, <2>2 DEF SyncCopySock, FIleRequestHandler, FileCopySock, FileCopyName, FileAnswer,
                            FileWord, FileClose, Goto
  <2> QED
    BY <1>2, <2>1, <2>2
<1>6. CASE IncomingHandler
  <2>1. UNCHANGED <<hcount, hix>>
    BY <1>6, ListenerFrames
  <2>2. \/ UNCHANGED <<kind, hpc>>
        \/ /\ \E k \in {"sync", "file"} : kind' = [kind EXCEPT ![accepted] = k]
           /\ hpc' = [hpc EXCEPT ![accepted] = "new"]
    BY <1>1, <1>6, ThreadStarts
  <2>3. ASSUME NEW x \in Conn, hpc'[x] = "served", kind'[x] = "sync"
        PROVE  hpc[x] = "served" /\ kind[x] = "sync"
    BY <1>1, <2>2, <2>3
  <2> QED
    BY <1>2, <2>1, <2>3
<1>7. CASE UNCHANGED handlers
  BY <1>2, <1>7 DEF handlers
<1>8. UNCHANGED vars => UNCHANGED handlers
  BY DEF vars
<1> QED
  BY <1>3, <1>4, <1>5, <1>6, <1>7, <1>8, Moves, MainFrames, ClientFrames DEF Handler, SyncHandler

(* As long as fewer than 65536 nodes are known, a sync handler that gets   *)
(* to the end of its list has told its client that the list is empty.      *)
THEOREM NoListIsCompleted ==
    ASSUME MaxKnown < 65536
    PROVE  Spec => []OnlyEmptyListsServed
<1>1. Init => CountsSwapped /\ OnlyEmptyListsServed
  BY MaxKnownAssumption DEF Init, CountsSwapped, OnlyEmptyListsServed
<1>2. IInv /\ CountsSwapped /\ OnlyEmptyListsServed /\ [Next]_vars
          => CountsSwapped' /\ OnlyEmptyListsServed'
  BY CountsStep DEF Move
<1> QED
  BY <1>1, <1>2, Invariance, PTL DEF Spec
=============================================================================
