-------------------------- MODULE PeerPairProofs ---------------------------
(***************************************************************************)
(* A download between two Windows peer nodes, proved for any number of     *)
(* connections and any other clients: when it can bring bytes of a file,   *)
(* what can let it go on, that the downloading node does not survive it,   *)
(* and that it holds up the listener of the other one.                     *)
(***************************************************************************)
EXTENDS PeerPair, PeerNodeProofs

(* The downloading node has a connection, and has not closed it.           *)
Connected == mine # 0 /\ hung[mine] = "open"

(* What is sent on a connection comes from a thread with its socket.       *)
SentBy ==
    \A c \in Conn : sent[c] # {} =>
        c <= accepted /\ \E h \in Conn : kind[h] # "none" /\ hsock[h] = sock[c]

ServerInv == CloserInv /\ SentBy /\ mine \in 0..arrived

(* While it is connected the downloading node sends no name, so that no    *)
(* thread is started for it, and a thread of another client sends it bytes *)
(* of a file only after another one has closed the same socket.            *)
Nameless ==
    Connected =>
        /\ ~named[mine] /\ asked[mine] \in {NOTHING, NODE_FILE_REQUEST}
        /\ mine \notin cut => kind[mine] = "none" /\ ~(pc = "fileSock" /\ accepted = mine)
        /\ "file" \in sent[mine] => mine \in cut \/ Twice(sock[mine])

(* There is no file until one is opened, and that one stays open.          *)
Unsaved ==
    /\ dpc \in {"connect", "request", "count", "open"} => disk = "none"
    /\ dpc = "words" => held
    /\ dpc = "reopen" => disk = "none" \/ held
    /\ dpc \in {"request", "count", "open", "words"} => Connected

PairInv ==
    /\ ServerInv /\ Nameless /\ Unsaved
    /\ NeverTheFile /\ OnlyAMistakeAnswers /\ EveryDownloadIsTheLast

-----------------------------------------------------------------------------
(* The serving node and its other clients *)

(* What a handler sends goes to what is behind its socket, and only a file *)
(* handler that has not closed it yet sends a file.                        *)
LEMMA SendsBehind ==
    ASSUME NEW h \in Conn, Handler(h), NEW c \in Conn, sent'[c] # sent[c]
    PROVE  /\ c \in Behind(hsock[h]) /\ hsock' = hsock
           /\ "file" \in sent'[c] /\ "file" \notin sent[c] => kind[h] = "file" /\ ~Ended(h)
<1>1. CASE SyncGreet(h)
  BY <1>1 DEF SyncGreet, Sends
<1>2. CASE SyncList(h)
  BY <1>2 DEF SyncList, Sends
<1>3. CASE FileAnswer(h)
  BY <1>3 DEF FileAnswer, Sends, Ended
<1>4. CASE FileWord(h)
  BY <1>4 DEF FileWord, Sends, Ended
<1>5. CASE SyncCopySock(h) \/ FileCopySock(h) \/ FileCopyName(h) \/ FileClose(h)
  BY <1>5 DEF SyncCopySock, FileCopySock, FileCopyName, FileClose
<1> QED
  BY <1>1, <1>2, <1>3, <1>4, <1>5 DEF Handler, SyncHandler, FIleRequestHandler

(* Nobody else sends.                                                      *)
LEMMA OthersSendNothing ==
    ASSUME [Move]_vars, NEW c \in Conn, sent'[c] # sent[c]
    PROVE  \E h \in Conn : Handler(h)
<1>1. UNCHANGED vars \/ UNCHANGED sockets => sent' = sent
  BY DEF vars, sockets
<1> QED
  BY <1>1, Moves, MainFrames, ClientFrames, ListenerFrames

(* The serving node keeps its own invariant whatever is done to it.        *)
LEMMA ServerStays ==
    ASSUME CloserInv, SentBy, [Move]_vars
    PROVE  CloserInv' /\ SentBy' /\ arrived \in Nat /\ arrived' \in Nat /\ arrived <= arrived'
<1>1. CloserInv' /\ IInv /\ Grounded /\ TypeOK
  BY CloserStep DEF CloserInv, IInv, Grounded
<1>2. ASSUME NEW c \in Conn, sent'[c] # {}
      PROVE  c <= accepted' /\ \E h \in Conn : kind'[h] # "none" /\ hsock'[h] = sock'[c]
  <2>1. accepted \in Nat /\ accepted' \in {accepted, accepted + 1} /\ c \in Nat
    BY <1>1, SocketsGrow DEF Conn
  <2>2. c <= accepted /\ \E h \in Conn : kind[h] # "none" /\ hsock[h] = sock[c]
    <3>1. CASE sent'[c] = sent[c]
      BY <1>2, <3>1 DEF SentBy
    <3>2. CASE sent'[c] # sent[c]
      <4>1. PICK h \in Conn : Handler(h)
        BY <3>2, OthersSendNothing
      <4>2. c \in Behind(hsock[h]) /\ kind[h] # "none"
        BY <1>1, <3>2, <4>1, SendsBehind, HandlerMoves
      <4> QED
        BY <2>1, <4>2 DEF Behind
    <3> QED
      BY <3>1, <3>2
  <2>3. PICK h \in Conn : kind[h] # "none" /\ hsock[h] = sock[c]
    BY <2>2
  <2>4. c \in 1..accepted /\ sock'[c] = sock[c] /\ sock[c] # UNREAD
    <3>1. c \in 1..accepted
      BY <2>1, <2>2 DEF Conn
    <3> QED
      BY <1>1, <3>1, SocketsGrow DEF TypeOK, HandlersTyped, UNREAD
  <2>5. kind'[h] # "none" /\ hsock'[h] = sock'[c]
    BY <1>1, <2>3, <2>4, ThreadsStay
  <2> QED
    BY <2>1, <2>2, <2>5
<1>3. arrived \in Nat /\ arrived' \in Nat
  BY <1>1, MaxConnAssumption DEF CloserInv, IInv, Grounded, TypeOK, ClientsTyped
<1>4. arrived <= arrived'
  <2>1. UNCHANGED vars \/ UNCHANGED clients => arrived' = arrived
    BY DEF vars, clients
  <2>2. AnyClient => arrived' \in {arrived, arrived + 1}
    BY DEF AnyClient, Connect, Ask, SendName, HangUp
  <2>3. arrived' \in {arrived, arrived + 1}
    BY <2>1, <2>2, Moves, MainFrames, ListenerFrames, HandlerFrames
  <2> QED
    BY <1>3, <2>3
<1> QED
  BY <1>1, <1>2, <1>3, <1>4 DEF SentBy

(* Two file handlers that have a socket keep it.                           *)
LEMMA TwiceStays ==
    ASSUME IInv, [Move]_vars, NEW s \in Nat, Twice(s)
    PROVE  Twice(s)'
<1>1. PICK g, h \in Conn : g # h /\ kind[g] = "file" /\ kind[h] = "file" /\ hsock[g] = s /\ hsock[h] = s
  BY DEF Twice
<1>2. s # UNREAD
  BY DEF UNREAD
<1>3. kind'[g] = "file" /\ hsock'[g] = s
  BY <1>1, <1>2, ThreadsStay
<1>4. kind'[h] = "file" /\ hsock'[h] = s
  BY <1>1, <1>2, ThreadsStay
<1> QED
  BY <1>1, <1>3, <1>4 DEF Twice

(* The socket of a connection is a number that it keeps.                   *)
LEMMA SocketKept ==
    ASSUME IInv, [Move]_vars, NEW c \in 1..accepted
    PROVE  /\ c \in Conn /\ sock[c] \in Nat /\ sock[c] \notin {UNREAD, GARBAGE} /\ sock'[c] = sock[c]
           /\ Twice(sock[c]) => Twice(sock[c])'
<1>1. c \in Conn /\ c \in Nat /\ sock'[c] = sock[c] /\ sock[c] \in 1..c
  BY SocketsGrow DEF IInv, Grounded, Numbered, Conn
<1>2. PICK s \in Nat : s = sock[c]
  BY <1>1
<1>3. Twice(s) => Twice(s)'
  BY TwiceStays
<1>4. (Twice(s) <=> Twice(sock[c])) /\ (Twice(s)' <=> Twice(sock[c])')
  BY <1>1, <1>2 DEF Twice
<1> QED
  BY <1>1, <1>3, <1>4 DEF UNREAD, GARBAGE

(* The same, of the connection of the downloading node.                    *)
LEMMA MineTwice ==
    ASSUME IInv, [Move]_vars, mine \in 1..accepted, mine' = mine, Twice(sock[mine])
    PROVE  Twice(sock[mine])'
<1>1. PICK c \in 1..accepted : c = mine
  OBVIOUS
<1>2. Twice(sock[c])'
  BY <1>1, SocketKept
<1>3. Twice(sock[c])' <=> Twice(sock[mine])'
  BY <1>1 DEF Twice
<1> QED
  BY <1>2, <1>3

(* Its steps are among those of PeerNode.                                  *)
LEMMA ServerIsNode ==
    ASSUME Server
    PROVE  Next /\ UNCHANGED download
BY DEF Server, OtherClients, Next, Client

(* The other clients leave the connection of the downloading node alone.   *)
LEMMA MineIsLeftAlone ==
    ASSUME ServerInv, Server, mine # 0
    PROVE  /\ mine' = mine /\ mine \in Conn
           /\ named'[mine] = named[mine] /\ asked'[mine] = asked[mine] /\ hung'[mine] = hung[mine]
<1>1. mine' = mine /\ mine \in Conn /\ ClientsTyped
  BY MaxConnAssumption DEF Server, download, ServerInv, CloserInv, IInv, Grounded, TypeOK, ClientsTyped, Conn
<1>2. CASE UNCHANGED clients
  BY <1>1, <1>2 DEF clients
<1>3. CASE OtherClients
  <2>1. CASE Connect
    BY <1>1, <2>1 DEF Connect
  <2>2. ASSUME NEW c \in Conn \ {mine}, NEW r \in Asks, Ask(c, r)
        PROVE  UNCHANGED <<named, hung>> /\ asked'[mine] = asked[mine]
    BY <1>1, <2>2 DEF Ask, ClientsTyped
  <2>3. ASSUME NEW c \in Conn \ {mine}, SendName(c)
        PROVE  UNCHANGED <<asked, hung>> /\ named'[mine] = named[mine]
    BY <1>1, <2>3 DEF SendName, ClientsTyped
  <2>4. ASSUME NEW c \in Conn \ {mine}, NEW how \in Ends, HangUp(c, how)
        PROVE  UNCHANGED <<asked, named>> /\ hung'[mine] = hung[mine]
    BY <1>1, <2>4 DEF HangUp, ClientsTyped
  <2> QED
    BY <1>1, <1>3, <2>1, <2>2, <2>3, <2>4 DEF OtherClients
<1> QED
  BY <1>2, <1>3, MainFrames, ListenerFrames, HandlerFrames DEF Server, Handler

(* Nothing the serving node does starts a thread for the connection: the   *)
(* listener waits for its name.  A file handler that sends to it has its   *)
(* socket from an earlier connection, which another one has closed.        *)
LEMMA NamelessStays ==
    ASSUME ServerInv, Nameless, Server
    PROVE  Nameless'
<1> SUFFICES ASSUME Connected'
             PROVE  Nameless'
  BY DEF Nameless
<1>0. mine # 0 /\ Move /\ CloserInv /\ IInv /\ Grounded /\ TypeOK
  BY ServerIsNode DEF Connected, Server, download, Move, ServerInv, CloserInv, IInv, Grounded
<1>1. /\ mine' = mine /\ mine \in Conn
      /\ named'[mine] = named[mine] /\ asked'[mine] = asked[mine] /\ hung'[mine] = hung[mine]
  BY <1>0, MineIsLeftAlone
<1>2. hung[mine] = "open" /\ Connected
  BY <1>0, <1>1 DEF Connected
<1>3. /\ ~named[mine] /\ asked[mine] \in {NOTHING, NODE_FILE_REQUEST}
      /\ mine \notin cut => kind[mine] = "none" /\ ~(pc = "fileSock" /\ accepted = mine)
      /\ "file" \in sent[mine] => mine \in cut \/ Twice(sock[mine])
  BY <1>2 DEF Nameless
<1>4. cut \subseteq cut'
  BY <1>0, CutGrows
<1>5. ASSUME mine \notin cut', RecvRequest, accepted = mine
      PROVE  kind' = kind
  <2>1. CASE \E n \in Pieces : /\ asked[mine] # NOTHING
                               /\ cut' = IF n < 4 THEN cut \cup {accepted} ELSE cut
                               /\ Dispatch([i \in 1..4 |-> IF i <= n THEN Swap(Bytes(asked[accepted]))[i] ELSE requestBuf[i]])
    <3>1. PICK n \in Pieces : /\ cut' = IF n < 4 THEN cut \cup {accepted} ELSE cut
                              /\ Dispatch([i \in 1..4 |-> IF i <= n THEN Swap(Bytes(asked[accepted]))[i] ELSE requestBuf[i]])
      BY <2>1
    <3>2. n = 4
      BY <1>5, <3>1, PiecesAssumption
    <3>3. asked[mine] = NODE_FILE_REQUEST /\ Bytes(NODE_FILE_REQUEST) \in Word
      BY <1>3, <2>1, WordType DEF NODE_FILE_REQUEST
    <3>4. Swap(Bytes(NODE_FILE_REQUEST)) \in Word
      BY <3>3, WordType
    <3>5. [i \in 1..4 |-> IF i <= n THEN Swap(Bytes(asked[accepted]))[i] ELSE requestBuf[i]] = Swap(Bytes(NODE_FILE_REQUEST))
      BY <1>5, <3>2, <3>3, <3>4 DEF Word
    <3>6. Swap(Swap(Bytes(NODE_FILE_REQUEST))) = Bytes(NODE_FILE_REQUEST)
      BY <3>3, SwapTwice
    <3>7. Bytes(NODE_FILE_REQUEST) # Bytes(NODE_SYNC)
      BY ZeroBytes, SMT DEF FourBytes, NODE_SYNC, NODE_FILE_REQUEST
    <3> QED
      BY <3>1, <3>5, <3>6, <3>7 DEF Dispatch, handlers
  <2>2. CASE UNCHANGED handlers
    BY <2>2 DEF handlers
  <2> QED
    BY <1>2, <1>5, <2>1, <2>2 DEF RecvRequest, HasSent, RecvZero
<1>6. ASSUME mine \notin cut'
      PROVE  kind'[mine] = "none" /\ ~(pc' = "fileSock" /\ accepted' = mine)
  <2>1. mine \notin cut /\ kind[mine] = "none" /\ ~(pc = "fileSock" /\ accepted = mine)
    BY <1>3, <1>4, <1>6
  <2>2. CASE ~IncomingHandler
    BY <1>0, <2>1, <2>2, OthersLeaveListener DEF listener
  <2>3. CASE IncomingHandler
    <3>1. kind'[mine] = "none"
      <4>1. CASE accepted = mine /\ pc = "request"
        <5>1. RecvRequest
          BY <2>3, <4>1 DEF IncomingHandler, ListenerStarts, CheckRunning, Accept, AcceptFails, RecvFileName,
                            StartFileHandler
        <5> QED
          BY <1>5, <1>6, <2>1, <4>1, <5>1
      <4>2. CASE ~(accepted = mine /\ pc = "request")
        <5>1. kind \in [Conn -> {"none", "sync", "file"}]
          BY <1>0 DEF TypeOK, HandlersTyped
        <5>2. UNCHANGED kind \/ (accepted # mine /\ \E k : kind' = [kind EXCEPT ![accepted] = k])
          BY <1>0, <2>1, <2>3, <4>2, ThreadStarts
        <5> QED
          BY <1>1, <2>1, <5>1, <5>2
      <4> QED
        BY <4>1, <4>2
    <3>2. ~(pc' = "fileSock" /\ accepted' = mine)
      <4>1. CASE RecvFileName /\ accepted = mine
        BY <1>2, <1>3, <2>1, <4>1 DEF RecvFileName, HasSent, RecvZero, BackToLoop
      <4>2. CASE RecvFileName /\ accepted # mine
        BY <4>2 DEF RecvFileName
      <4>3. CASE ~RecvFileName
        BY <2>3, <4>3 DEF IncomingHandler, ListenerStarts, CheckRunning, Accept, AcceptFails, RecvRequest,
                          Dispatch, StartFileHandler, BackToLoop
      <4> QED
        BY <4>1, <4>2, <4>3
    <3> QED
      BY <3>1, <3>2
  <2> QED
    BY <2>2, <2>3
<1>7. ASSUME "file" \in sent'[mine], mine \notin cut'
      PROVE  Twice(sock[mine])'
  <2>1. CASE "file" \in sent[mine]
    <3>1. mine \in 1..accepted
      BY <1>1, <2>1, SocketsGrow, <1>0 DEF ServerInv, SentBy, Conn
    <3> QED
      BY <1>0, <1>1, <1>3, <1>4, <1>7, <2>1, <3>1, MineTwice
  <2>2. CASE "file" \notin sent[mine]
    <3>1. PICK h \in Conn : Handler(h)
      BY <1>0, <1>1, <1>7, <2>2, OthersSendNothing
    <3>2. mine \in Behind(hsock[h]) /\ kind[h] = "file" /\ ~Ended(h)
      BY <1>1, <1>7, <2>2, <3>1, SendsBehind
    <3>3. mine \in 1..accepted /\ sock[mine] = hsock[h] /\ mine \notin closed
      BY <3>2 DEF Behind
    <3>4. sock[mine] \notin {UNREAD, GARBAGE} /\ kind[mine] = "none" /\ accepted \in Nat
      BY <1>0, <1>3, <1>4, <1>7, <3>3, SocketKept, SocketsGrow
    <3>5. PICK d \in 1..accepted : kind[d] = "file" /\ sock[d] = sock[mine]
      BY <1>0, <3>2, <3>3, <3>4 DEF CloserInv, FilesApart, FileSocket
    <3>6. d < mine /\ d \in closed
      BY <1>0, <3>3, <3>4, <3>5 DEF IInv, OneBehind
    <3>7. PICK g \in 1..d : Ended(g) /\ hsock[g] = sock[d]
      BY <1>0, <3>3, <3>4, <3>6 DEF CloserInv, OnlyFileThreadsClose, Ended
    <3>8. g \in Conn /\ g # h /\ kind[g] = "file" /\ hsock[g] = sock[mine]
      <4>1. g \in Conn
        BY <1>0, <3>4, <3>5, <3>7, MaxConnAssumption DEF TypeOK, ClientsTyped, Conn
      <4> QED
        BY <3>2, <3>5, <3>7, <4>1 DEF Ended
    <3>9. Twice(sock[mine])
      BY <3>2, <3>3, <3>8 DEF Twice
    <3> QED
      BY <1>0, <1>1, <3>3, <3>9, MineTwice
  <2> QED
    BY <2>1, <2>2
<1> QED
  BY <1>1, <1>3, <1>6, <1>7 DEF Nameless, Twice

(* What has let a download go on stays so: what is closed stays closed,    *)
(* and a handler keeps the socket it has read.                             *)
LEMMA MistakeStays ==
    ASSUME ServerInv, Server, mine # 0,
           OtherGone \/ mine \in cut \/ \E h \in Conn \ {mine} : hsock[h] = sock[mine]
    PROVE  (OtherGone \/ mine \in cut \/ \E h \in Conn \ {mine} : hsock[h] = sock[mine])'
<1>0. /\ Move /\ CloserInv /\ IInv /\ Grounded /\ TypeOK /\ process = "alive"
      /\ mine' = mine /\ mine \in Conn /\ accepted \in Nat
  <2>1. Move /\ CloserInv /\ IInv /\ Grounded /\ TypeOK /\ process = "alive"
    BY ServerIsNode DEF Server, Move, ServerInv, CloserInv, IInv, Grounded
  <2> QED
    BY <2>1, MineIsLeftAlone, SocketsGrow
<1>1. pc = "done" => pc' = "done" /\ accepted' = accepted
  BY <1>0, OthersLeaveListener DEF listener, IncomingHandler, ListenerStarts, CheckRunning, Accept, AcceptFails,
         RecvRequest, RecvFileName, StartFileHandler
<1>2. CASE OtherGone
  BY <1>0, <1>1, <1>2, SocketsGrow DEF OtherGone
<1>3. CASE mine \in cut
  BY <1>0, <1>3, CutGrows
<1>4. CASE \E h \in Conn \ {mine} : hsock[h] = sock[mine]
  <2>1. PICK h \in Conn \ {mine} : hsock[h] = sock[mine]
    BY <1>4
  <2>2. CASE mine <= accepted
    <3>1. PICK c \in 1..accepted : c = mine
      BY <1>0, <2>2 DEF Conn
    <3>2. sock'[c] = sock[c] /\ sock[c] # UNREAD
      BY <1>0, SocketKept
    <3>3. hsock'[h] = hsock[h]
      BY <1>0, <2>1, <3>1, <3>2, ThreadsStay
    <3> QED
      BY <1>0, <2>1, <3>1, <3>2, <3>3
  <2>3. CASE ~(mine <= accepted)
    <3>1. hsock[h] = GARBAGE
      BY <1>0, <2>1, <2>3 DEF Grounded, Numbered, GARBAGE
    <3>2. pc = "done" /\ mine > accepted
      BY <1>0, <2>1, <2>3, <3>1 DEF IInv, NeverOlder, Conn
    <3> QED
      BY <1>0, <1>1, <3>2 DEF OtherGone
  <2> QED
    BY <2>2, <2>3
<1> QED
  BY <1>2, <1>3, <1>4

(* What may have brought a file is not undone.                             *)
LEMMA FileExcuseStays ==
    ASSUME IInv, [Move]_vars, cut # {} \/ \E c \in 1..accepted : Twice(sock[c])
    PROVE  (cut # {} \/ \E c \in 1..accepted : Twice(sock[c]))'
<1>1. CASE cut # {}
  BY <1>1, CutGrows
<1>2. CASE \E c \in 1..accepted : Twice(sock[c])
  <2>1. PICK c \in 1..accepted : Twice(sock[c])
    BY <1>2
  <2>2. Twice(sock[c])'
    BY <2>1, SocketKept
  <2>3. c \in 1..accepted'
    BY SocketsGrow DEF IInv
  <2> QED
    BY <2>2, <2>3
<1> QED
  BY <1>1, <1>2

(* The serving node and its other clients keep the invariant.              *)
LEMMA ServerStep ==
    ASSUME PairInv, Server
    PROVE  PairInv'
<1>1. /\ Move /\ ServerInv /\ IInv /\ UNCHANGED <<dpc, mine, tried, words, held, written, disk>>
  BY ServerIsNode DEF Move, download, PairInv, ServerInv, CloserInv
<1>2. ServerInv'
  <2>1. CloserInv' /\ SentBy' /\ arrived \in Nat /\ arrived' \in Nat /\ arrived <= arrived'
    BY <1>1, ServerStays DEF ServerInv
  <2> QED
    BY <1>1, <2>1 DEF ServerInv
<1>3. Nameless'
  BY <1>1, NamelessStays DEF PairInv
<1>4. Unsaved'
  BY <1>1, MineIsLeftAlone DEF PairInv, Unsaved, Connected
<1>5. NeverTheFile'
  BY <1>1, FileExcuseStays DEF PairInv, NeverTheFile
<1>6. OnlyAMistakeAnswers'
  <2> SUFFICES ASSUME dpc' \in {"open", "words"}
               PROVE  (OtherGone \/ mine \in cut \/ \E h \in Conn \ {mine} : hsock[h] = sock[mine])'
    BY DEF OnlyAMistakeAnswers
  <2>1. mine # 0 /\ (OtherGone \/ mine \in cut \/ \E h \in Conn \ {mine} : hsock[h] = sock[mine])
    BY <1>1 DEF PairInv, Unsaved, Connected, OnlyAMistakeAnswers
  <2> QED
    BY <1>1, <2>1, MistakeStays
<1>7. EveryDownloadIsTheLast'
  BY <1>1 DEF PairInv, EveryDownloadIsTheLast
<1> QED
  BY <1>2, <1>3, <1>4, <1>5, <1>6, <1>7 DEF PairInv

-----------------------------------------------------------------------------
(* The downloading node *)

(* A new connection is one that nothing is known of.                       *)
LEMMA NewIsNameless ==
    ASSUME ServerInv, Connect, mine' = arrived + 1
    PROVE  ServerInv' /\ Nameless' /\ Connected'
<1>1. /\ arrived' = arrived + 1 /\ UNCHANGED <<asked, named, hung, sockets, listener, handlers>>
      /\ arrived + 1 \in Conn /\ arrived \in Nat /\ accepted \in Nat /\ accepted <= arrived
      /\ CloserInv /\ IInv /\ Grounded /\ TypeOK
  <2>1. CloserInv /\ IInv /\ Grounded /\ TypeOK /\ ClientsTyped
    BY DEF ServerInv, CloserInv, IInv, Grounded, TypeOK
  <2>2. arrived' = arrived + 1 /\ UNCHANGED <<asked, named, hung, sockets, listener, handlers>>
    BY DEF Connect, ClientFrame
  <2>3. arrived \in Nat /\ accepted \in Nat /\ accepted <= arrived /\ arrived < MaxConn
    BY <2>1, MaxConnAssumption DEF ClientsTyped, Connect
  <2> QED
    BY <2>1, <2>2, <2>3, MaxConnAssumption DEF Conn
<1>2. CloserInv' /\ SentBy'
  BY ServerStays DEF ServerInv, Move, AnyClient
<1>3. /\ kind[arrived + 1] = "none" /\ ~named[arrived + 1] /\ asked[arrived + 1] = NOTHING
      /\ hung[arrived + 1] = "open" /\ accepted # arrived + 1 /\ sent[arrived + 1] = {}
  <2>1. /\ kind[arrived + 1] = "none" /\ ~named[arrived + 1] /\ asked[arrived + 1] = NOTHING
        /\ hung[arrived + 1] = "open"
    BY <1>1 DEF IInv, Started
  <2> QED
    BY <1>1, <2>1 DEF ServerInv, SentBy
<1>4. Nameless' /\ Connected'
  BY <1>1, <1>3 DEF Nameless, Connected, sockets, listener, handlers
<1> QED
  BY <1>1, <1>2, <1>4 DEF ServerInv

(* What the downloading node does as a client is what any client does.     *)
LEMMA MineIsAClient ==
    ASSUME mine \in Conn, Ask(mine, NODE_FILE_REQUEST) \/ \E how \in {"closed", "reset"} : HangUp(mine, how)
    PROVE  Move /\ arrived' = arrived /\ UNCHANGED <<process, sockets, listener, handlers>>
<1>1. AnyClient
  BY DownloadAssumption DEF AnyClient
<1>2. arrived' = arrived
  BY DEF Ask, HangUp
<1> QED
  BY <1>1, <1>2, ClientFrames DEF Move

(* A step of the downloading node alone changes nothing for the other.     *)
LEMMA NodeIsLeftAlone ==
    ASSUME ServerInv, UNCHANGED vars
    PROVE  /\ CloserInv' /\ SentBy' /\ arrived' = arrived
           /\ UNCHANGED <<process, pc, accepted, cut, sock, closed, sent, asked, named, hung, kind, hsock>>
<1>1. CloserInv' /\ SentBy'
  BY ServerStays DEF ServerInv
<1>2. arrived' = arrived
      /\ UNCHANGED <<process, pc, accepted, cut, sock, closed, sent, asked, named, hung, kind, hsock>>
  BY DEF vars, clients, sockets, listener, handlers
<1> QED
  BY <1>1, <1>2

(* ... and nothing for what is known of its connection.                    *)
LEMMA MineIsKept ==
    ASSUME ServerInv, Nameless, UNCHANGED vars, mine' = mine
    PROVE  /\ ServerInv' /\ Nameless' /\ (Connected' <=> Connected) /\ (OtherGone' <=> OtherGone)
           /\ UNCHANGED <<cut, sock, accepted, sent, kind, hsock>>
<1>1. /\ CloserInv' /\ SentBy' /\ arrived' = arrived
      /\ UNCHANGED <<process, pc, accepted, cut, sock, closed, sent, asked, named, hung, kind, hsock>>
  BY NodeIsLeftAlone
<1>2. ServerInv'
  BY <1>1 DEF ServerInv
<1>3. Nameless'
  BY <1>1 DEF Nameless, Connected, Twice
<1>4. (Connected' <=> Connected) /\ (OtherGone' <=> OtherGone)
  BY <1>1 DEF Connected, OtherGone
<1> QED
  BY <1>1, <1>2, <1>3, <1>4

(* The properties of the download that a step that keeps the rest keeps.   *)
LEMMA RestKept ==
    ASSUME ServerInv, NeverTheFile, UNCHANGED <<cut, sock, accepted, kind, hsock>>,
           written' \in {written, "empty", "rubbish"}, disk' \in {disk, written, "empty"}
    PROVE  NeverTheFile'
BY DEF NeverTheFile, Twice

(* Before it is connected, and after it has given up.                      *)
LEMMA AloneStep ==
    ASSUME PairInv, RetrieveFile \/ PrintFile \/ StartNode \/ OpenFile \/ RecvWordCount \/ RecvWord
    PROVE  PairInv'
<1> USE DEF PairInv
<1>1. UNCHANGED vars
  BY DEF RetrieveFile, PrintFile, StartNode, OpenFile, RecvWordCount, RecvWord, ServerFrame
<1>2. CASE RetrieveFile
  <2>1. /\ dpc' = "connect" /\ disk = "none" /\ UNCHANGED <<mine, words, held, written, disk>>
    BY <1>2 DEF RetrieveFile, GoOn
  <2>2. ServerInv' /\ Nameless' /\ UNCHANGED <<cut, sock, accepted, kind, hsock>>
    BY <1>1, <2>1, MineIsKept
  <2>3. NeverTheFile'
    BY <2>1, <2>2, RestKept
  <2> QED
    BY <2>1, <2>2, <2>3 DEF Unsaved, OnlyAMistakeAnswers, EveryDownloadIsTheLast
<1>3. CASE PrintFile
  <2>1. /\ dpc' = "dying" /\ UNCHANGED <<mine, written, disk>>
    BY <1>3 DEF PrintFile, GoOn, Opens, Unsaved
  <2>2. ServerInv' /\ Nameless' /\ UNCHANGED <<cut, sock, accepted, kind, hsock>>
    BY <1>1, <2>1, MineIsKept
  <2>3. NeverTheFile'
    BY <2>1, <2>2, RestKept
  <2> QED
    BY <2>1, <2>2, <2>3 DEF Unsaved, OnlyAMistakeAnswers, EveryDownloadIsTheLast
<1>4. CASE StartNode
  <2>1. /\ dpc' = "prompt" /\ mine' = 0 /\ ~tried' /\ written' = "empty" /\ disk' = disk
    BY <1>4 DEF StartNode, GoOn
  <2>2. CloserInv' /\ SentBy' /\ arrived' = arrived /\ UNCHANGED <<cut, sock, accepted, kind, hsock>>
    BY <1>1, NodeIsLeftAlone
  <2>3. ServerInv'
    BY <2>1, <2>2, MaxConnAssumption DEF ServerInv, CloserInv, IInv, Grounded, TypeOK, ClientsTyped
  <2>4. Nameless'
    BY <2>1 DEF Nameless, Connected
  <2>5. NeverTheFile'
    BY <2>1, <2>2, RestKept
  <2> QED
    BY <2>1, <2>3, <2>4, <2>5 DEF Unsaved, OnlyAMistakeAnswers, EveryDownloadIsTheLast
<1>5. CASE OpenFile
  <2>1. /\ dpc = "open" /\ mine' = mine
        /\ \/ dpc' = "words" /\ held' /\ written' = "empty" /\ disk' = "empty"
           \/ dpc' = "reopen" /\ UNCHANGED <<held, written, disk>>
    BY <1>5 DEF OpenFile, GoOn
  <2>2. /\ ServerInv' /\ Nameless' /\ Connected' /\ (OtherGone' <=> OtherGone)
        /\ UNCHANGED <<cut, sock, accepted, kind, hsock>>
    BY <1>1, <2>1, MineIsKept DEF Unsaved
  <2>3. NeverTheFile'
    BY <2>1, <2>2, RestKept
  <2>4. Unsaved' /\ EveryDownloadIsTheLast'
    BY <2>1, <2>2 DEF Unsaved, EveryDownloadIsTheLast
  <2>5. OnlyAMistakeAnswers'
    BY <2>1, <2>2 DEF OnlyAMistakeAnswers
  <2> QED
    BY <2>2, <2>3, <2>4, <2>5
<1>6. CASE RecvWordCount
  <2>1. /\ dpc = "count" /\ UNCHANGED <<mine, held, written, disk>> /\ dpc' \in {"open", "reopen"}
        /\ dpc' = "open" => OtherGone \/ sent[mine] # {}
    BY <1>6 DEF RecvWordCount, GoOn
  <2>2. /\ ServerInv' /\ Nameless' /\ Connected' /\ (OtherGone' <=> OtherGone)
        /\ UNCHANGED <<cut, sock, accepted, kind, hsock>>
    BY <1>1, <2>1, MineIsKept DEF Unsaved
  <2>3. NeverTheFile'
    BY <2>1, <2>2, RestKept
  <2>4. Unsaved' /\ EveryDownloadIsTheLast'
    BY <2>1, <2>2 DEF Unsaved, EveryDownloadIsTheLast
  <2>5. ASSUME sent[mine] # {}, mine \notin cut
        PROVE  \E h \in Conn \ {mine} : hsock[h] = sock[mine]
    <3>1. Connected /\ mine \in Conn
      BY <2>1, MaxConnAssumption DEF Unsaved, Connected, ServerInv, CloserInv, IInv, Grounded, TypeOK,
                                     ClientsTyped, Conn
    <3>2. PICK h \in Conn : kind[h] # "none" /\ hsock[h] = sock[mine]
      BY <2>5, <3>1 DEF ServerInv, SentBy
    <3>3. kind[mine] = "none"
      BY <2>5, <3>1 DEF Nameless
    <3> QED
      BY <3>2, <3>3
  <2>6. OnlyAMistakeAnswers'
    BY <2>1, <2>2, <2>5 DEF OnlyAMistakeAnswers
  <2> QED
    BY <2>2, <2>3, <2>4, <2>6
<1>7. CASE RecvWord
  <2>1. /\ dpc = "words" /\ UNCHANGED <<dpc, mine, tried, held, disk>>
        /\ ("file" \in sent[mine] /\ written' = "the file") \/ written' = "rubbish"
    BY <1>7 DEF RecvWord
  <2>2. /\ ServerInv' /\ Nameless' /\ Connected' /\ (OtherGone' <=> OtherGone)
        /\ UNCHANGED <<cut, sock, accepted, kind, hsock>>
    BY <1>1, <2>1, MineIsKept DEF Unsaved
  <2>3. ASSUME "file" \in sent[mine]
        PROVE  (cut # {} \/ \E c \in 1..accepted : Twice(sock[c]))'
    <3>1. Connected /\ mine \in Conn
      <4>1. Connected
        BY <2>1 DEF Unsaved
      <4>2. mine \in 0..arrived /\ arrived \in 0..MaxConn
        BY DEF ServerInv, CloserInv, IInv, Grounded, TypeOK, ClientsTyped
      <4> QED
        BY <4>1, <4>2, MaxConnAssumption DEF Connected, Conn
    <3>2. mine \in cut \/ Twice(sock[mine])
      BY <2>3, <3>1 DEF Nameless
    <3>3. mine \in 1..accepted
      <4>1. mine <= accepted
        BY <2>3, <3>1 DEF ServerInv, SentBy
      <4> QED
        BY <3>1, <4>1, MaxConnAssumption DEF ServerInv, CloserInv, IInv, Grounded, TypeOK, ClientsTyped, Conn
    <3> QED
      BY <2>2, <3>2, <3>3 DEF Twice
  <2>4. NeverTheFile'
    <3>1. CASE written' = "rubbish"
      BY <2>1, <2>2, <3>1, RestKept
    <3>2. CASE "file" \in sent[mine]
      BY <2>3, <3>2 DEF NeverTheFile
    <3> QED
      BY <2>1, <3>1, <3>2
  <2>5. Unsaved' /\ EveryDownloadIsTheLast'
    BY <2>1, <2>2 DEF Unsaved, EveryDownloadIsTheLast
  <2>6. OnlyAMistakeAnswers'
    BY <2>1, <2>2 DEF OnlyAMistakeAnswers
  <2> QED
    BY <2>2, <2>4, <2>5, <2>6
<1> QED
  BY <1>2, <1>3, <1>4, <1>5, <1>6, <1>7

(* What the downloading node does to its connection: it opens one, asks    *)
(* for a file, and closes it or has it closed by the system.               *)
LEMMA ConnectionStep ==
    ASSUME PairInv, InitTCPClient \/ Send \/ CloseSocket \/ EndNode
    PROVE  PairInv'
<1> USE DEF PairInv
<1>0. (mine # 0 => mine \in Conn) /\ IInv /\ ClientsTyped
  BY MaxConnAssumption DEF ServerInv, CloserInv, IInv, Grounded, TypeOK, ClientsTyped, Conn
<1>1. CASE InitTCPClient
  <2>1. /\ dpc = "connect" /\ UNCHANGED <<tried, words, held, written, disk>>
        /\ \/ process = "alive" /\ Connect /\ mine' = arrived + 1 /\ dpc' = "request"
           \/ UNCHANGED vars /\ dpc' = "reopen" /\ mine' = mine
    BY <1>1 DEF InitTCPClient, GoOn, ServerFrame
  <2>2. /\ ServerInv' /\ Nameless' /\ (dpc' = "request" => Connected')
        /\ UNCHANGED <<cut, sock, accepted, kind, hsock>>
    <3>1. Connect => UNCHANGED <<cut, sock, accepted, kind, hsock>>
      BY DEF Connect, ClientFrame, sockets, listener, handlers
    <3> QED
      BY <2>1, <3>1, NewIsNameless, MineIsKept
  <2>3. NeverTheFile'
    BY <2>1, <2>2, RestKept
  <2> QED
    BY <2>1, <2>2, <2>3 DEF Unsaved, OnlyAMistakeAnswers, EveryDownloadIsTheLast
<1>2. CASE Send
  <2>1. /\ dpc = "request" /\ UNCHANGED <<mine, tried, words, held, written, disk>>
        /\ \/ Ask(mine, NODE_FILE_REQUEST) /\ dpc' = "count"
           \/ UNCHANGED vars /\ dpc' = "reopen"
    BY <1>2 DEF Send, SendRequest, GoOn, ServerFrame
  <2>2. Connected /\ mine \in Conn
    BY <1>0, <2>1 DEF Unsaved, Connected
  <2>3. CASE UNCHANGED vars /\ dpc' = "reopen"
    <3>1. ServerInv' /\ Nameless' /\ UNCHANGED <<cut, sock, accepted, kind, hsock>>
      BY <2>1, <2>3, MineIsKept
    <3>2. NeverTheFile'
      BY <2>1, <3>1, RestKept
    <3> QED
      BY <2>1, <2>3, <3>1, <3>2 DEF Unsaved, OnlyAMistakeAnswers, EveryDownloadIsTheLast
  <2>4. CASE Ask(mine, NODE_FILE_REQUEST) /\ dpc' = "count"
    <3>1. Move /\ arrived' = arrived /\ UNCHANGED <<process, sockets, listener, handlers>>
      BY <2>2, <2>4, MineIsAClient
    <3>2. CloserInv' /\ SentBy'
      BY <3>1, ServerStays DEF ServerInv
    <3>3. asked' = [asked EXCEPT ![mine] = NODE_FILE_REQUEST] /\ UNCHANGED <<named, hung>>
      BY <2>4 DEF Ask
    <3>4. UNCHANGED <<cut, sock, accepted, sent, pc, kind, hsock>>
      BY <3>1 DEF sockets, listener, handlers
    <3>5. Connected' /\ Nameless' /\ ServerInv'
      BY <1>0, <2>1, <2>2, <3>1, <3>2, <3>3, <3>4 DEF Connected, Nameless, Twice, ServerInv, ClientsTyped
    <3>6. NeverTheFile'
      BY <2>1, <3>4, RestKept
    <3> QED
      BY <2>1, <2>4, <3>5, <3>6 DEF Unsaved, OnlyAMistakeAnswers, EveryDownloadIsTheLast
  <2> QED
    BY <2>1, <2>3, <2>4
<1>3. ASSUME NEW how \in {"closed", "reset"}, HangUp(mine, how), mine \in Conn, mine' = mine
      PROVE  ServerInv' /\ Nameless' /\ UNCHANGED <<cut, sock, accepted, kind, hsock>>
  <2>1. Move /\ arrived' = arrived /\ UNCHANGED <<process, sockets, listener, handlers>>
    BY <1>3, MineIsAClient
  <2>2. CloserInv' /\ SentBy'
    BY <2>1, ServerStays DEF ServerInv
  <2>3. hung' = [hung EXCEPT ![mine] = how]
    BY <1>3 DEF HangUp
  <2>4. ~Connected'
    BY <1>0, <1>3, <2>3 DEF Connected, ClientsTyped
  <2>5. UNCHANGED <<cut, sock, accepted, kind, hsock>>
    BY <2>1 DEF sockets, listener, handlers
  <2> QED
    BY <1>3, <2>1, <2>2, <2>4, <2>5 DEF ServerInv, Nameless
<1>4. CASE CloseSocket
  <2>1. /\ dpc = "words" /\ dpc' = "reopen" /\ HangUp(mine, "closed")
        /\ UNCHANGED <<mine, tried, words, held, written, disk>>
    BY <1>4 DEF CloseSocket, GoOn
  <2>2. ServerInv' /\ Nameless' /\ UNCHANGED <<cut, sock, accepted, kind, hsock>>
    BY <1>0, <1>3, <2>1 DEF Unsaved, Connected
  <2>3. NeverTheFile'
    BY <2>1, <2>2, RestKept
  <2> QED
    BY <2>1, <2>2, <2>3 DEF Unsaved, OnlyAMistakeAnswers, EveryDownloadIsTheLast
<1>5. CASE EndNode
  <2>1. /\ dpc' = "ended" /\ UNCHANGED <<mine, written>> /\ disk' \in {disk, written}
        /\ \/ mine # 0 /\ \E how \in {"closed", "reset"} : HangUp(mine, how)
           \/ UNCHANGED vars
    BY <1>5 DEF EndNode, GoOn, ServerFrame
  <2>2. ServerInv' /\ Nameless' /\ UNCHANGED <<cut, sock, accepted, kind, hsock>>
    BY <1>0, <1>3, <2>1, MineIsKept
  <2>3. NeverTheFile'
    BY <2>1, <2>2, RestKept
  <2> QED
    BY <2>1, <2>2, <2>3 DEF Unsaved, OnlyAMistakeAnswers, EveryDownloadIsTheLast
<1> QED
  BY <1>1, <1>2, <1>4, <1>5

-----------------------------------------------------------------------------
(* The invariant of the two nodes: behind its properties stands that no    *)
(* thread is started for a connection whose client has sent no name, and   *)
(* that a thread of another one has its socket from before.                *)
THEOREM PairInvariance == PairSpec => []PairInv
<1>1. PairInit => PairInv
  <2> SUFFICES ASSUME PairInit PROVE PairInv
    OBVIOUS
  <2>1. Init /\ dpc = "prompt" /\ mine = 0 /\ ~tried /\ written = "empty" /\ disk = "none"
    BY DEF PairInit
  <2>2. CloserInv
    BY <2>1, CloserInit
  <2>3. SentBy /\ mine \in 0..arrived /\ Nameless
    BY <2>1 DEF Init, SentBy, Nameless, Connected
  <2> QED
    BY <2>1, <2>2, <2>3 DEF PairInv, ServerInv, Unsaved, NeverTheFile, OnlyAMistakeAnswers,
                            EveryDownloadIsTheLast
<1>2. PairInv /\ [PairNext]_pairVars => PairInv'
  <2> SUFFICES ASSUME PairInv, [PairNext]_pairVars PROVE PairInv'
    OBVIOUS
  <2>1. CASE UNCHANGED pairVars
    <3>1. UNCHANGED vars /\ UNCHANGED <<dpc, mine, tried, words, held, written, disk>>
      BY <2>1 DEF pairVars, download
    <3>2. /\ ServerInv' /\ Nameless' /\ (Connected' <=> Connected) /\ (OtherGone' <=> OtherGone)
          /\ UNCHANGED <<cut, sock, accepted, kind, hsock>>
      BY <3>1, MineIsKept DEF PairInv
    <3>3. NeverTheFile'
      BY <3>1, <3>2, RestKept DEF PairInv
    <3>4. OnlyAMistakeAnswers'
      BY <3>1, <3>2 DEF PairInv, OnlyAMistakeAnswers
    <3> QED
      BY <3>1, <3>2, <3>3, <3>4 DEF PairInv, Unsaved, EveryDownloadIsTheLast
  <2> QED
    BY <2>1, ServerStep, AloneStep, ConnectionStep DEF PairNext, DownloadFile
<1> QED
  BY <1>1, <1>2, PTL DEF PairSpec

(* Bytes of a file come to the node that downloads, in memory or on the    *)
(* disk, only if a request has come in pieces or two file handlers have    *)
(* copied the same socket, for any number of clients and however often the *)
(* node is started again (DownloadFile, IncomingHandler).                  *)
THEOREM FileNeverComes == PairSpec => []NeverTheFile
<1>1. PairInv => NeverTheFile
  BY DEF PairInv
<1> QED
  BY <1>1, PairInvariance, PTL

(* DownloadFile comes past its first recv only when the other node has     *)
(* ended or hung up, when the request came in pieces, or when the thread   *)
(* of another connection has its socket.                                   *)
THEOREM MistakesAnswer == PairSpec => []OnlyAMistakeAnswers
<1>1. PairInv => OnlyAMistakeAnswers
  BY DEF PairInv
<1> QED
  BY <1>1, PairInvariance, PTL

(* RetrieveFile does not survive a call of DownloadFile.                   *)
THEOREM NoSecondDownload == PairSpec => []EveryDownloadIsTheLast
<1>1. PairInv => EveryDownloadIsTheLast
  BY DEF PairInv
<1> QED
  BY <1>1, PairInvariance, PTL

(* What the downloading node does to the serving one is what a client does. *)
LEMMA DownloadIsAClient ==
    ASSUME PairInv, Ends = {"closed", "reset"}, PairNext, ~Server
    PROVE  UNCHANGED vars \/ Client
<1>1. mine # 0 => mine \in Conn
  BY MaxConnAssumption DEF PairInv, ServerInv, CloserInv, IInv, Grounded, TypeOK, ClientsTyped, Conn
<1>2. dpc \in {"request", "words"} => mine # 0
  BY DEF PairInv, Unsaved, Connected
<1>3. CASE RetrieveFile \/ PrintFile \/ StartNode \/ RecvWordCount \/ OpenFile \/ RecvWord
  BY <1>3 DEF RetrieveFile, PrintFile, StartNode, RecvWordCount, OpenFile, RecvWord, ServerFrame
<1>4. CASE EndNode
  BY <1>1, <1>4 DEF EndNode, ServerFrame, Client
<1>5. CASE InitTCPClient
  BY <1>5 DEF InitTCPClient, ServerFrame, Client
<1>6. CASE Send
  BY <1>1, <1>2, <1>6, DownloadAssumption DEF Send, SendRequest, ServerFrame, Client
<1>7. CASE CloseSocket
  BY <1>1, <1>2, <1>7 DEF CloseSocket, Client
<1> QED
  BY <1>3, <1>4, <1>5, <1>6, <1>7 DEF PairNext, DownloadFile

(* The pair implements PeerNode: with the downloading node among its       *)
(* clients the serving node starts as it does there, and takes only steps  *)
(* that it takes there.  So all that is proved of it with any clients      *)
(* holds of the pair; after it has died only the clients go on.            *)
THEOREM PairImplementsNode ==
    ASSUME Ends = {"closed", "reset"}
    PROVE  PairSpec => Init /\ [][Next \/ (process # "alive" /\ Client)]_vars
<1>1. PairInit => Init
  BY DEF PairInit
<1>2. PairInv /\ [PairNext]_pairVars => [Next \/ (process # "alive" /\ Client)]_vars
  <2> SUFFICES ASSUME PairInv, [PairNext]_pairVars
               PROVE  [Next \/ (process # "alive" /\ Client)]_vars
    OBVIOUS
  <2>1. CASE UNCHANGED pairVars
    BY <2>1 DEF pairVars
  <2>2. CASE Server
    BY <2>2, ServerIsNode
  <2>3. CASE PairNext /\ ~Server
    <3>1. UNCHANGED vars \/ Client
      BY <2>3, DownloadIsAClient
    <3> QED
      BY <3>1 DEF Next
  <2> QED
    BY <2>1, <2>2, <2>3
<1> QED
  BY <1>1, <1>2, PairInvariance, PTL DEF PairSpec

(* The listener waits for a name that never comes, for any number of other *)
(* clients that wait for it, unless two file handlers have copied the      *)
(* socket of the download.                                                 *)
THEOREM DownloadsStall == PairSpec => DownloadStallsTheNode
<1>1. PairInv /\ [PairNext]_pairVars
        => [pc = "fileName" /\ accepted = mine /\ hung[mine] = "open" /\ mine \notin cut
              => UNCHANGED listener \/ Twice(sock[mine])]_pairVars
  <2> SUFFICES ASSUME PairInv, PairNext, pc = "fileName", accepted = mine, hung[mine] = "open",
                      mine \notin cut
               PROVE  UNCHANGED listener \/ Twice(sock[mine])
    OBVIOUS
  <2>0. /\ CloserInv /\ IInv /\ accepted \in Conn /\ kind[mine] = "none"
    <3>1. CloserInv /\ IInv /\ TypeOK /\ accepted # 0
      BY DEF PairInv, ServerInv, CloserInv, IInv, Grounded, AtHand
    <3>2. accepted \in Conn
      BY <3>1, MaxConnAssumption DEF TypeOK, ClientsTyped, Conn
    <3> QED
      BY <3>1, <3>2 DEF IInv, Started
  <2>1. ~named[mine] /\ mine # 0
    BY <2>0, MaxConnAssumption DEF PairInv, Nameless, Connected, Conn
  <2>2. CASE Server
    <3>1. CASE ~IncomingHandler
      BY <2>2, <3>1, ServerIsNode, OthersLeaveListener DEF Move
    <3>2. CASE IncomingHandler
      <4>1. RecvFileName
        BY <3>2 DEF IncomingHandler, ListenerStarts, CheckRunning, Accept, AcceptFails, RecvRequest,
                    StartFileHandler
      <4>2. mine \in closed
        BY <2>1, <4>1 DEF RecvFileName, HasSent, RecvZero, RecvFails
      <4>3. PICK h \in 1..mine :
                /\ kind[h] = "file" /\ hsock[h] = sock[mine]
                /\ \/ kind[mine] = "file"
                   \/ \E g \in Conn \ {h} : kind[g] = "file" /\ hsock[g] = sock[mine]
        BY <2>0, <4>2 DEF CloserInv, OnlyFileThreadsClose
      <4>4. h \in Conn
        BY <2>0, MaxConnAssumption DEF Conn
      <4> QED
        BY <2>0, <4>3, <4>4 DEF Twice
    <3> QED
      BY <3>1, <3>2
  <2>3. CASE ~Server
    BY <2>3 DEF PairNext, RetrieveFile, PrintFile, EndNode, StartNode, DownloadFile, InitTCPClient, Send,
                SendRequest, RecvWordCount, OpenFile, RecvWord, CloseSocket, ServerFrame, vars, Ask, HangUp,
                Connect, ClientFrame
  <2> QED
    BY <2>2, <2>3
<1> QED
  BY <1>1, PairInvariance, PTL DEF PairSpec, DownloadStallsTheNode
=============================================================================
