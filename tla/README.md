# A TLA+ model of the Innopolis networks labs

The repository is the homework of a networks course: six small C programs, most of them
with two or more threads or processes, and no tests. This directory models the parts of
them whose behaviour is hard to see from the code, checks the models with TLC, and proves
with TLAPS what the checks show on small instances.

## The system

| Part | Source | State | Operations | What is hard about it | What makes it correct |
|---|---|---|---|---|---|
| Linked list | `Lab 7/linkedlist.c`, `Lab 7 Windows/PeerToPeer/linkedlist.c` | head, tail, size; the nodes' links and values | insertVal, deleteVal, getVal, findVal | links in two directions, changed by four pieces of code; the list of one value; allocation that fails | the links are one chain; calls behave as on a sequence |
| Peer node, serving (Windows) | `PeerToPeer.c`: main, UserRepl, CtrlHandler, IncomingHandler, SyncHandler, FIleRequestHandler | `running`, nodePool, the cells `*handlerSock` and `fileRequest`, `requestBuf` and `fileName` | accept, dispatch, serve, stop | threads are handed the address of a cell that is written again; sockets are closed twice, and given again in between; buffers keep what an earlier client sent; blocking receives; stops during start-up | who is answered with what; the node stops; nobody is kept waiting without cause |
| Peer node, asking (Windows) | `PeerToPeer.c`: Syncer, SendSync, ParseNode, ParsePeer, RemoveInactiveNode, DownloadFile, RetrieveFile | nodePool, filePool | sync with every known node, download | the pool is changed while it is walked; short and failed receives; two nodes that wait for each other | the pool holds the nodes that answer; a download ends |
| Peer node (Linux) | `Lab 7/node.c`, `networking.c` | as above | as above | the REPL may read `running` before it is set; exit takes effect late | the node runs until it is told to stop |
| Client-server stack | `Lab 1/.../ClientServerStack.c` | a stack on the heap; a named pipe | push, pop, peek, new, size, display, exit | the pipe is created and opened in a race; the input that is read again | the stack is last in, first out; nothing leaks; both sides end |
| Student server | `Lab 4/server.c`, `client.c` | one connection at a time | receive a student, answer | short receives shift everything that follows, or look like the farewell; a client that outlives its connection | every answer is to the student just sent |
| Datagram server | `Lab 5/server2.c`, `client.c` | a thread for every datagram | receive, wait, answer | lost datagrams, threads without bound | every client served gets one answer |

The peer node's REPL, listener, syncer and handlers are threads of one process: they share
`running`, nodePool and filePool, with no lock anywhere. Nodes talk over TCP. The other
programs are pairs of a server and a client.

## The modules

| Module | Models |
|---|---|
| `ListContract` | what the list promises: a sequence, and a status for every call |
| `LinkedList` | the list in nodes and pointers, both editions (`Build`) |
| `LinkedListMC` | the same on four interchangeable nodes |
| `LinkedListProofs` | theorems about `LinkedList` |
| `PeerNode` | the serving side of the Windows node |
| `PeerNodeProofs` | theorems about `PeerNode` |
| `StackContract` | what the stack server promises: a sequence, and a line of output for every request |
| `PipeStack` | the client-server stack: both threads, the pipe, the user's input, the heap |
| `PipeStackMC` | the same with interchangeable blocks |
| `PipeStackProofs` | theorems about `PipeStack` |
| `PeerSyncer` | the asking side of the Windows node: the Syncer and the pool it walks over |
| `PeerSyncerProofs` | theorems about `PeerSyncer` |
| `PeerPair` | `PeerNode` composed with a second node that downloads a file from it |
| `PeerPairProofs` | theorems about `PeerPair`, on top of those about `PeerNode` |
| `NodeLifecycle` | the start, the commands and the stop of the Linux node |
| `NodeLifecycleProofs` | theorems about `NodeLifecycle` |
| `StudentServer` | Lab 4: the server, its clients and their users |
| `StudentServerMC` | the same with two clients, whose users type four students and one |
| `StudentServerProofs` | theorems about `StudentServer` |
| `UdpServer` | Lab 5: the server's threads, the clients and the network |
| `UdpServerProofs` | theorems about `UdpServer` |

The modules without an MC module are given their constants by the cfg alone.

### ListContract and LinkedList

An action of `LinkedList` is a call. A node is an address; `val`, `next`, `prev` are
functions of addresses, `live` the allocated ones. An access through NULL or through a
freed node sets `fault`, the end of the process, so memory safety is something to check.
`insertVal` can fail at any time, since malloc can. `contents`, the values along the links,
is the refinement mapping to `ListContract`, and `Implements` says that every call does to
`contents` what the contract says. The contract includes the calls that end the process,
because the code makes them possible: `getVal` on an empty list, and in the Linux edition
`deleteVal` on a list of one value or none.

Names in the code with leading underscores drop them here (`__newNode` is `newNode`).
`findVal` compares values, not addresses, as memcmp does. Values are never NULL. `size_t`
is a natural number: a list of 2^64 nodes does not fit in memory.

### PeerNode

Every thread has a program counter: `mpc` the main thread, `pc` the listener, `hpc[h]` the
handler started for connection `h`. The listener's variables are those of the code.
`*handlerSock` and `fileRequest` are written by the listener and read by handlers in separate
steps; the two fields of `fileRequest` are written and copied in separate steps too, in either
order for the copy, since nothing orders them. After the listener has returned, reading a cell
gives what was in it, or something else, or ends the process.

Connections are numbered in the order in which accept returns them. `sock[c]` is the socket,
the value the program has of connection `c`: a new one, or any that has been closed, since
Windows may give the value of a closed socket again. A socket is named for the first
connection that had it. `Behind(s)` is the open connection a socket stands for now: a handler
that holds `s` sends to it and closes it, whichever it was when the handler copied `s`. A
second `closesocket` of the same value closes nothing, or a connection of somebody else.

A client connects, may send a request, may send a name, and may close or reset. A request is
any four bytes (`Asks`); a receive takes any number of them that there are (`Pieces`), which
replace the first bytes of `requestBuf`, and what is left of the request is what the next
receive, for a name, finds (`cut`). A receive returns data, or 0 after a close, or fails after
a reset. 0 is not an error to the code, which goes on with what the buffer holds: the swap on
line 364 turns the stale bytes round once more. `Swap` and `htonlO` turn the four bytes of a
number round, which is what they do on the machines the program is built for. A name is the
number of the connection that sent it.

A file handler answers with the number of words, or with -1 if it cannot open the file, sends
any number of words, and closes (`FileAnswer`, `FileWord`, `FileClose`). `sent[c]` is what was
ever sent on a connection: bytes of a sync answer, of a file, or the missing file's -1.

Left out: the text of the messages and the words of the files (names and file lists are
taken to fit in their buffers); failures of CreateThread, HeapAlloc and listen, whose
results are mostly not looked at. The sockets that the same node opens for itself, in its
Syncer and in RetrieveFile, are taken to have other values than those its listener has
closed; a late handler could reach them in the same way. The Syncer is only a number of
known nodes that may change at any time; what it does is in `PeerSyncer`.

### PeerSyncer

The Syncer is the only thread that changes nodePool once main has started it, so the other
threads are left to `PeerNode`. The pool is a sequence, which is what `LinkedList` is proved
to implement. Its elements are whole structs, compared byte by byte: two structs with the
same name and port differ when the bytes nobody wrote differ, and a struct out of `Nodes` is
any of these. `i` is the index of the walk, which counts from 0 and goes on over the pool
while answers are inserted before it and failed nodes are taken out.

`RecvReply` is what ParseNode makes of a reply. `Fits` is the size the code gives sprintf_s,
six bytes, with the address where the port belongs (line 195); a text that does not fit ends
the process, and so does a text that is missing. `peers` says who is out there: "nodes" of
this program send an address of at least seven characters, "others" send anything. A receive
may fail, return nothing, return part of the text, or never return. After one that returns
nothing the buffer is taken to hold no text with three fields in it. `heard` is history: the
node at hand has been parsed. Failed allocations are left out; `MaxPool` and `MaxPeers` bound
the pool and the number of known nodes a reply announces.

### PeerPair

The other node, whose serving side is `PeerNode` unchanged, sees the downloading node as one
of its clients: `mine` is that client's connection. All actions of `PeerNode` stay possible,
those of its other clients with them. `dpc` is where RetrieveFile and DownloadFile are.
filePool is searched for a name that ParseNode never wrote (lines 206-222), so that finding
the file there is luck, and the model starts where it has been found. The file on the disk
is opened exclusively by fopen_s and is not closed on any path; what was written may be on
the disk or not when the process ends. The downloading node may end at any moment and be
started again, with its disk as it was. What it receives is in `sent[mine]`, whoever of the
other node's threads has sent it, so that the words of a sync answer may pass for a count. A
word may come from a file, or be rubbish; a count is taken to be at most one.

### NodeLifecycle

main, the listener, the syncer and the REPL of `Lab 7/node.c`, and SIGINT, which the system
may give to any of them: `gently_shitdown` clears `running` and ends the thread it runs in.
The listener's loop does nothing, since accept fails at once on a socket nobody has called
listen on, and the syncer's loop walks over a pool into which nothing is ever put. `command`
is the REPL's buffer, which is compared before it is read. It is not initialised, and is
taken not to hold "exit" before the first word.

### StudentServer

`spc` is where the server is, `cpc[c]` where a client is. Both streams of a connection are
read in pieces: `taken` is how far the server has read the students its client has typed, in
whole students and bytes of the next, and `read` how far the client has read the answers. A
receive takes any number of bytes that are there, up to what was asked for (`RecvStudent`,
`RecvResponse`): neither side looks at how many it got. What the server has put zeros round, or
put together from two students, is `WRONG`; it is the farewell if the byte in the place of the
age is missing, and may be the farewell otherwise, or be answered. What the client prints is
the student that the answer is about, if it is the beginning of that answer as far as its last
character, and `WRONG` otherwise. Pieces may fall into place again: a student whose rest is
read apart may be followed by one that is read whole. `missed` is history: some receive of the
connection was short or returned nothing.

`typed` counts what a user has entered; an answer is known by the number of the student it was
made from, so that two students who are alike are told apart. Neither side looks at what its
calls return: a client goes on after a close, prints its old response again, and ends by the
signal for a broken connection. A close with bytes unread resets the connection.

### UdpServer

A thread is what main has started for one datagram: `conn` is the cell on the heap it is
given, `addr` the copy it makes. It answers with eight bytes from where `pthread_self` points,
which on the systems of the lab is where the thread's own number is stored. Threads are
neither joined nor detached, so `Threads`, what the system can keep, is used up and never
given back; pthread_create then fails, and nobody looks. A failed receive starts a thread for
the client of the last datagram and writes before the buffer, which may end the server.
Datagrams are lost, reordered and doubled, with at most two copies of one under way at a time.
The clients send short ones, so that the write after the last byte stays in the buffer.

### StackContract and PipeStack

`spc` is where ServerJob is, and at its end how it ended, by the message it prints; `cpc` is
where ClientJob is. A system call is a step. What ServerJob does between reading a request
and writing its answer is one step, since no other thread sees the stack. A thread has the
pipe open until the CloseHandle that precedes every way out (`ServerHasPipe`,
`ClientHasPipe`); a write fails when the other end is closed, and a read does when nothing
is left and the other end is closed. A write is done once its message is in the pipe.
`ConnectNamedPipe` fails when a client is there before the call, as the system does.

The user types words and integers and ends the input at any moment. A word that is not an
integer stays in the input (`unread`), and the request is not sent (`afterWord`, line 311). At
the end of the input scanf_s leaves its buffers alone and returns EOF, which passes for success
at line 309.

Nodes and integers are blocks of one heap that may refuse any allocation; the Stack record
itself is apart from it. `shown` is what the server printed last, without its wording.
`contents`, the integers from the bottom up, is the refinement mapping to `StackContract`.
Left out: a second instance of the program on the same pipe; what is in `inputBuffer`
before the first word, taken to be no command; the failure of CreateThread; words longer
than the buffer.

## What the runs check

| Run | Shows | Bounds |
|---|---|---|
| `LinkedList_windows` | `WellLinked`: the links are one chain of distinct nodes, in both directions, with nothing leaked and nothing dangling. `Implements`: every call is one of the contract | 4 nodes, 2 values, indices 0..5 |
| `LinkedList_linux` | the same for the Linux edition, and `NeverEmptiesAgain`: the last value cannot be taken out | as above |
| `PeerNode_two` | `NeverOlder`: a handler works on its own connection or on later ones. `NameNeverOlder`: an earlier client's file name is sent only after somebody left without sending one. `SilentRequestsEcho`: a client that asked for nothing gets only what an earlier one's bytes say. `OnlyEmptyListsServed`: no sync client is ever told of a known node and served to the end | 2 connections, the requests 0, 1 and 1 in the wrong byte order, in any pieces, every ending, 0 or 1 known node, "exit"; queue of 1 |
| `PeerNode_three` | `SilentRequestsEcho` with a second silent client: it is served a sync request that came with its last byte 1, and the first one a request whose first byte is 1 | 3 connections, the bytes 1,0,0,0 and 0,0,0,1 in any pieces or silence, close; queue of 1, no stop |
| `PeerNode_live` | `OnlySilenceStarves`: an arrived connection waits for ever only behind a client that owes the listener bytes. `SyncReachesNewest`: a sync request loses its answer only to a later connection. `AtMostOneMore`: a stopped node accepts at most the connection it is waiting for | 2 connections, sync and file requests in any pieces, silence, "exit" and Ctrl-C; queue of 1 |
| `PipeStack` | `WellStacked`: size, links and bottom agree. `Implements`: every request is one of the contract, and what is printed is true. `AnswersTheWord`: an answer is to the command that was read last, and a push is of the integer read after it; a word in its place is a command of its own. `PoppedIsLost`: a value that leaves the stack leaves its integer on the heap. `OneAtATime`: one message at most is between client and server, and at the prompt none. `EndsByHangUp`: a session ends only because the client hangs up. `AfterTheEndOnlyRepeats`: after the end of the input, once no word is left, the request never changes | 4 blocks, 2 values |
| `PipeStack_live` | `NoAnswerIsAwaitedForEver`: a client gets its answer or learns that the server is gone. `ServedUnlessEarly`: a client that has opened the pipe gets a session unless it came too early or memory ran out | 2 blocks, 1 value |
| `PeerSyncer` | `NothingLearned`: among nodes of this program one that still runs knows nobody but the node it was told of, and no file. `EndsOnAFailure`: a walk over the pool ends only behind a node that has failed, so that a stop is noticed only then. `AloneDeadOrWaiting`: such a node ends up alone, dead, stopped, or waiting for ever | 2 structs, texts of 5 or 7 characters, a pool of 3, 0 or 1 announced node |
| `PeerPair` | `OnlyFileThreadsClose`: before the listener ends a connection is closed only by a file handler that holds its socket and whose client came no later, and one that asked for no file only by the second close of a socket two handlers hold. `NeverTheFile`: bytes of a file are received only on such a socket, or after a request in pieces. `OnlyAMistakeAnswers`: a download goes past its first receive only if the other node is gone or has closed, if the request came in pieces, or if another client's handler holds the socket. `EveryDownloadIsTheLast`: after a download there is no prompt. `DownloadStallsTheNode`: once the other listener waits for the name, it takes no step until the downloading node is gone, unless two handlers hold the socket | 3 connections, the downloading one after two that ask for files, whole requests; queue of 1, no stop |
| `NodeLifecycle` | `DeafFromTheStart`: a running node without a REPL never had a prompt. `StopIsObeyed`: after a stop the process ends, or waits only for a REPL whose user says nothing. `ExitIsObeyed`: "exit" is obeyed, one turn late | none needed |
| `StudentServer` | `InStep`: while a connection is open, a client that waits has bytes of its student or of an answer to be read, or the server is at its answer; and until a receive was short what is printed is about the student just typed. `SplitNeverHeals`: after a short or empty receive no answer to that client is right again. `OnlyAStayerStarves`: a waiting connection is served unless one client stays for ever or the server ends | 2 clients who type 4 students and 1, students of 3 bytes, answers of 2, queue of 1 |
| `UdpServer` | `NobodyForgotten`: as long as the server lives, a waiting client has a datagram or a thread on its behalf unless something of its was lost or it came too late. `OneThreadOneClient`: no two clients are told of one thread. `AnsweredUnlessLost`: only loss, the end of the server or too many threads keep a client from its answer | 2 clients, 3 threads |

Four nodes give a list with a middle of two, so that every case of `deleteVal` and
`insertVal` has both neighbours to get wrong, and index 5 is past every end. Two connections
are enough for one to overwrite a cell the other's thread has not read, and for the second to
get the first one's socket; a stale NODE_SYNC is obeyed on its second swap, which takes three.
The request 16777216 is NODE_SYNC in the wrong byte order, which one swap puts right; mixtures
with what is left in the buffer come from the pieces, and are mostly requests nobody knows.
Resets are in `PeerNode_two` and, for the downloading node, in `PeerPair`; Ctrl-C is in
`PeerNode_live`. The queue of the code holds 8: its length only delays arrivals. One known node
is enough: with one, the swapped count is 16777216.

Four blocks hold a stack of two, the smallest in which order and links matter, or a stack of
one and what two pops have lost. The pipe never holds more than a greeting and a request.

A pool of three holds the node main was told of and what two answers put before it, so that the
index is passed and left behind; of the two lengths one fits and one does not. In `PeerPair`
two other clients ask for files first (`Before`): their handlers may copy the same socket, the
first close frees it, the downloading node's connection gets it, and the second handler sends
its file there and closes. That is the shortest way to a byte of a file, and three connections
is the least that shows it; requests in pieces, more kinds of clients and stops are left to the
theorems, which have no such bounds. In `StudentServer` a student has a name of one byte: with
the age and the group it has the three kinds of place at which it may be cut. Four students are
enough for a cut one, its rest, one that is read whole again, and an answer that comes in two
pieces; a queue of one makes the second client wait. Three threads are one more than two
clients need, so that one doubled datagram or one failed receive does no harm and two use the
threads up.

`CHECK_DEADLOCK FALSE` everywhere: a fault, a crash or the end of main ends the process, and in
`StudentServer` and `UdpServer` the clients may have left or be done.

The properties describe what the program does and not what it should have done. That a
handler may serve a later connection, that a client with nothing to say is served, and that
no list of peers is ever delivered are weaknesses of the code; the properties say exactly
how far they go. That no list is delivered, for instance, comes from `nKnownNodes` being
swapped to network order on line 158 and then used as the bound of the loop on line 167. That
no download gets its file comes from DownloadFile sending only the number of its request,
and waiting for a count while the other listener waits for a name.
`OnlyFileThreadsClose`, `NeverTheFile` and `DownloadStallsTheNode` except the case that breaks
what one would expect: two file handlers with the same socket.

### Fairness

`FairSpec` is used by the runs with liveness properties. In `PipeStack` the server's steps are
weakly fair, and the client's except where it reads from the user. In `PeerNode`, threads that
do not wait for somebody are run by the system: weak fairness of the listener's steps between
two system calls, of a receive that has something to return, and of the first read of a sync
thread. accept may fail, but not for ever while a connection is waiting: strong fairness of
`Accept`. Nothing is assumed of clients, of the user, of file handlers or of the Syncer.

`PeerSyncer`: weak fairness of the steps in which the Syncer waits for no peer; connect is
one of these, as the system gives it up. A receive may last for ever. `NodeLifecycle`: weak
fairness of every thread, except where main asks its questions and the REPL reads; SIGINT may
come or not. `StudentServer`: weak fairness of the server. Nothing is assumed of the clients,
and a server that does not end does not fail to accept for ever. `UdpServer`: weak fairness
of the receipt of each client's datagram, of each thread, and of each client's receive: the
system runs them, and what is not lost arrives.

## What is proved

Every safety property of every run is a theorem, for every value of the constants, from the
named assumptions in the modules (NULL is no address, `Build` is one of two, bounds are
naturals, `Asks` are numbers of four bytes) and what a theorem itself assumes. So are the type
invariants, those that no run lists included: a theorem `Typing` states each `TypeOK`.

- `LinkedListProofs`: `Shape` and `Implementation` state `WellLinked` and `Implements`;
  `LastValue` states `NeverEmptiesAgain` for the Linux edition. `OnlyShortListsFault`, from the
  refinement: a call goes through NULL only on an empty list or, in the Linux edition, on a
  list of one value. The inductive invariant is `TypeOK /\ WellLinked`. `WellLinked` says that
  a function `c` enumerates the live nodes along the links. Each call is shown to make a new
  enumeration from the old: a node spliced in at its place (`SplicedIsChain`) or cut out
  (`CutIsChain`). That a walk of k links from the head ends at node k is `WalkInChain`; the
  library's induction cannot be instantiated by the provers, so it takes the least k for
  which the walk would go wrong (`LeastNatural`).
- `PeerNodeProofs`: `HandlersNeverGoBack` and `StoppedTakesOneMore` state `NeverOlder` and
  `AtMostOneMore`. `NeverOlder` is not inductive: it needs that what is behind a cell is at
  least as new as every thread that has still to read it (`CellsAhead`), that only one open
  connection is behind a socket (`OneBehind`), that the socket at hand is that of the last
  connection accepted (`AtHand`), and that a thread reads its cell once (`Started`). A handler
  finds a cell with something else in it only when the listener has ended. `AtMostOneMore`
  follows from `Closing`, which is kept by every step once the node has been stopped.
- Also in `PeerNodeProofs`, on top of that invariant (`IInv`): `ClosingIsForFiles` states
  `OnlyFileThreadsClose`. It needs that the two cells are kept apart (`FilesApart`): the cell
  of the file handlers only ever holds the socket of a connection that asked for a file,
  although both kinds of handler read theirs late. That socket can belong to another connection
  only after somebody has closed it, so that of two handlers with it one has done so.
  `NamesNeverGoBack` states `NameNeverOlder`, from `NamesTraced`, which follows a name from
  the struct to every thread that may still copy it. `SilenceIsEchoed` states
  `SilentRequestsEcho`, from `BufferTrace`: whose request a first or a last byte 1 in
  `requestBuf` comes from, and how often it has been swapped, and that the four bytes are one
  request if none has come in pieces; and from `Echoes`, the property with that detail.
  `NoListIsCompleted` states `OnlyEmptyListsServed` for fewer than 65536 known nodes, an
  assumption of that theorem: below it no number but 0 is as small in network order as the list
  is long (`CountsSwapped`); with 65536 nodes the count reads 256, and the loop does come to its
  end. These rest on `ClientsStay`: what a client has sent stays sent, and one that has closed
  sends no more.
- `PipeStackProofs`: `OneMessage` and `OnlyTheClientEnds` state `OneAtATime` and
  `EndsByHangUp`. Neither is inductive. Both follow from `Turns`, which says what is in the
  pipe for every place where the server and the client can be: before the session, in it,
  while an answer is due, and after it. A request in the pipe never asks the server to stop.
  The stack on its heap: `Shape` and `Implementation` state `WellStacked` and `Implements`.
  Their inductive invariant is `TypeOK /\ Linked` (`HeapInv`): some list of distinct blocks
  runs from the top to the bottom, with integers in blocks of their own. It is needed because
  pop and clear follow links that only the whole list vouches for. That walking the links
  meets that list is again shown by the least step at which it would not.
  `RepeatsAtTheEnd` states `AfterTheEndOnlyRepeats`: the request is always the one that the last
  command asks for, with the last integer (`RequestInv`), so that reading both again changes
  nothing. `DoesWhatWasRead` states `AnswersTheWord`, with what is on its way (`OnItsWay`).
  `LeaksWhatItPops` states `PoppedIsLost`: the integers no node holds are counted, as the blocks
  in use less two for every node (`LostCount`), and outside a session the stack is empty (`EmptyBefore`).
- `PeerSyncerProofs`: `AloneAmongEquals` (`NothingLearned`) and `NoWalkEndsOnAnAnswer`
  (`EndsOnAFailure`). `Untaught`: among nodes of this program no reply is parsed to its end,
  so that "count" is never reached. `Ahead`: where the Syncer asks, its index is in the pool,
  and after an answer it stays below the size, since what is inserted goes before it.
  `EmptyForGood`, from the same invariant and `HasAnswered`: whoever is out there, a node
  whose last known node has failed never learns of another, since nothing but an answer to a
  sync of its own is ever put into the pool.
- `PeerPairProofs`: `FileNeverComes`, `MistakesAnswer` and `NoSecondDownload` state
  `NeverTheFile`, `OnlyAMistakeAnswers` and `EveryDownloadIsTheLast`. The invariant adds to
  that of `PeerNodeProofs` that what is sent on a connection comes from a thread with its
  socket (`SentBy`); that no thread is started for the downloading node's connection, which has
  sent no name, and that bytes of a file are sent on it only once two file handlers have its
  socket (`Nameless`); and that its disk holds no file before it opens one, which it then holds
  (`Unsaved`). The actions of the other node and its other clients are those of `PeerNode`, so
  its lemmas are cited as they are. `DownloadsStall` states `DownloadStallsTheNode`: a recv that
  waits for a name can fail only when its socket was closed, by a handler that is not the first.
- `PairImplementsNode`, in the same module, is the refinement behind this: every behaviour of
  the pair, seen from the serving node, is one of `PeerNode`, the downloading node being one
  of its clients (`DownloadIsAClient`), so that what is proved of `PeerNode` against any
  clients holds of the pair. It assumes that clients may close and reset, since the downloading
  node does; that they may ask for files is an assumption of `PeerPair`. After the serving
  process has died `PeerNode` stops, while clients of a dead node still hang up; those steps
  are named in the theorem.
- `NodeLifecycleProofs`: `DeafSinceItsStart` (`DeafFromTheStart`), with `Unprompted`: as long
  as the listener has not set `running`, the REPL has asked for nothing. `ExitIsNeverLost`: an
  "exit" that was read is kept, whatever thread is interrupted, until the REPL compares it
  (`ExitKept`). `StopIsForGood`: after the listener's start no stop is undone.
- `StudentServerProofs`: `AnswersAreAboutTheStudent` (`InStep`) and `NoAnswerIsRightAgain`
  (`SplitNeverHeals`), for names and answers of any length. The invariant counts (`Counted`):
  nobody has read more than the answers and the turns of the client account for, and no answer
  is about a later student than its own number (`NotAhead`). As long as no receive was short
  all of these are equal (`Exact`). Afterwards either the client has read fewer answers than it
  has had turns (`ReaderBehind`), or the answers it has not read are about earlier students
  (`AnswersBehind`): every step keeps one of the two, also when both sides are at the beginning
  of a message again. That a connection is served once, and waits once, is `Served`.
- `UdpServerProofs`: `NumbersAreNotShared` (`OneThreadOneClient`), with `FromEnded`: an answer
  on its way, or received, came from a thread that has ended and that had this client's
  address. `WaitersAreCaredFor` (`NobodyForgotten`, as long as the server lives), with `Care`:
  each thread has a cell of its own (`OwnCells`) that keeps the address until the thread has
  copied it, so that neither another client's datagram nor a failed receive takes a thread away
  from its client.

Only model-checked: the liveness properties, which the provers cannot reach
(`OnlySilenceStarves`, `SyncReachesNewest`, `NoAnswerIsAwaitedForEver`, `ServedUnlessEarly`,
`AloneDeadOrWaiting`, `StopIsObeyed`, `ExitIsObeyed`, `OnlyAStayerStarves`,
`AnsweredUnlessLost`). What some of them rest on besides scheduling is proved: that nothing
they wait for is lost on the way. `NobodyForgotten` is that half of `AnsweredUnlessLost`,
`ExitIsNeverLost` of `ExitIsObeyed`, `StopIsForGood` of `StopIsObeyed`, `OneAtATime` of
`NoAnswerIsAwaitedForEver`, and `InStep` of what a client of the student server waits for.

## Order of the work

The modules were planned and written in the order of what is hard: the list with its
contract, on which both nodes rest; the serving side of the Windows node; the stack; the
asking side of the Windows node, first against anybody (`PeerSyncer`), then composed with the
serving side (`PeerPair`); the Linux node; Lab 4 and Lab 5. Each was checked by TLC before it
was proved about.

## Not modelled

- The Linux node's handlers, send_sync and download_file: init_tcp_server calls no listen, so
  that no connection is accepted, and nothing fills the pools, so that no node is asked. A
  model of them would be of a program that nobody can run. The Windows edition of the same
  functions is in `PeerNode`, `PeerSyncer` and `PeerPair`.
- How many pieces a file is sent in. The count that bounds that loop is in network order
  (`PeerToPeer.c:116`), which makes 16777216 pieces of one word; `PeerNode` lets a handler send
  any number, and no downloading node ever sends the name such a handler waits for.
- Sockets that the node's Syncer and RetrieveFile open: a late file handler could hold the value
  of one of them, too. `PeerNode` gives closed values to accepted connections only.
- A bound on open sockets. `PeerNode` records what is closed, and `OnlyFileThreadsClose` says
  whose connections are not (`PeerToPeer.c:390`); how many the system allows has no counterpart
  in the model.
- `code_archive.c`, which nothing compiles; the socket set-up functions, which are calls to
  the system; the precompiled-header stubs; the notes of Lab 3.
