----------------------------- MODULE LinkedList -----------------------------
(***************************************************************************)
(* The doubly linked list of Lab 7, pointer by pointer.  Every function of *)
(* linkedlist.c is one operator here; the two editions of the file differ  *)
(* only in deleteVal, which the Windows one guards against an empty list   *)
(* and against removing the last value.                                    *)
(*                                                                         *)
(* A node is an address; the three fields of struct Node are functions of  *)
(* it.  malloc gives any free address, or none; free leaves the fields as  *)
(* they were.  An access through NULL or through a freed node ends the     *)
(* process (fault), so "the list is memory safe" is a property and not an  *)
(* assumption of the model.                                                *)
(***************************************************************************)
EXTENDS Integers

CONSTANTS Addr,      \* the addresses malloc can return
          Val,       \* the payloads the callers store
          NULL,      \* the null pointer
          Build,     \* "linux" or "windows": which linkedlist.c is linked
          MaxIndex   \* bound: the largest index a caller passes

ASSUME NullAssumption == NULL \notin Addr
ASSUME BuildAssumption == Build \in {"linux", "windows"}
ASSUME MaxIndexAssumption == MaxIndex \in Nat

VARIABLES head, tail, size,   \* struct LinkedList
          val, next, prev,    \* struct Node, by address
          live,               \* the nodes allocated and not freed
          ret,                \* what the last call returned
          fault               \* TRUE once a call has killed the process

list == <<head, tail, size>>
fields == <<val, next, prev>>
vars == <<list, fields, live, ret, fault>>

OK == 0
FAIL == 1

Init ==
    /\ head = NULL
    /\ tail = NULL
    /\ size = 0
    /\ val \in [Addr -> Val]        \* memory before malloc: anything
    /\ next = [a \in Addr |-> NULL]
    /\ prev = [a \in Addr |-> NULL]
    /\ live = {}
    /\ ret = OK
    /\ fault = FALSE

-----------------------------------------------------------------------------
(* Memory and control *)

Return(r) == ret' = r /\ UNCHANGED fault

Crash == fault' = TRUE /\ UNCHANGED <<list, fields, live, ret>>

Refuse(r) == Return(r) /\ UNCHANGED <<list, fields, live>>

newNode_Blank(new, v) ==
    /\ new \in Addr \ live
    /\ live' = live \cup {new}
    /\ val' = [val EXCEPT ![new] = NULL]

(* __newNode when malloc succeeds; the callers say what becomes of the     *)
(* links, which start as 0.                                                *)
newNode(new, v) ==
    /\ new \in Addr \ live
    /\ live' = live \cup {new}
    /\ val' = [val EXCEPT ![new] = v]

free(node) == live' = live \ {node} /\ UNCHANGED val

(* The node ix links after first.  Once the walk has left the nodes it     *)
(* stays at NULL: in the code that access ends the process, as it does in  *)
(* every caller, which dereferences the result at once.                    *)
WalkFrom(first, link, nodes, ix) ==
    LET at[i \in 0..ix] ==
          IF i = 0 THEN first
          ELSE IF at[i - 1] \in nodes THEN link[at[i - 1]] ELSE NULL
    IN  at[ix]

jumpToNode(ix) == WalkFrom(head, next, live, ix)

-----------------------------------------------------------------------------
(* insertVal *)

initList_Circular(new) ==
    /\ next' = [next EXCEPT ![new] = new]
    /\ prev' = [prev EXCEPT ![new] = new]
    /\ head' = new
    /\ tail' = new

initList(new) ==
    /\ next' = [next EXCEPT ![new] = NULL]
    /\ prev' = [prev EXCEPT ![new] = NULL]
    /\ head' = new
    /\ tail' = new

prependNode(new) ==
    /\ next' = [next EXCEPT ![new] = head]
    /\ prev' = [prev EXCEPT ![new] = NULL, ![head] = new]
    /\ head' = new
    /\ UNCHANGED tail

appendNode(new) ==
    /\ next' = [next EXCEPT ![new] = NULL, ![tail] = new]
    /\ prev' = [prev EXCEPT ![new] = tail]
    /\ tail' = new
    /\ UNCHANGED head

linkBefore_OneWay(new, current) ==
    /\ next' = [next EXCEPT ![new] = current, ![prev[current]] = new]
    /\ prev' = [prev EXCEPT ![new] = prev[current]]
    /\ UNCHANGED <<head, tail>>

linkBefore(new, current) ==
    /\ next' = [next EXCEPT ![new] = current, ![prev[current]] = new]
    /\ prev' = [prev EXCEPT ![new] = prev[current], ![current] = new]
    /\ UNCHANGED <<head, tail>>

(* What the code does next when the pointers it goes through are nodes.    *)
Through(ok, Effect) == IF ok THEN Effect ELSE Crash

(* An insertion is refused past the end or when malloc returns NULL.  An   *)
(* empty list takes its first value whatever the index.                    *)
insertVal(ix, v) ==
    \/ Refuse(FAIL)
    \/ \E new \in Addr \ live :
         LET Linked(Link) == /\ newNode(new, v)
                             /\ Link
                             /\ size' = size + 1
                             /\ Return(OK)
             current == jumpToNode(ix)
         IN  \/ size = 0 /\ Linked(initList(new))
             \/ /\ size # 0 /\ ix = 0
                /\ Through(head \in live, Linked(prependNode(new)))
             \/ /\ size # 0 /\ ix = size
                /\ Through(tail \in live, Linked(appendNode(new)))
             \/ /\ 0 < ix /\ ix < size
                /\ Through(current \in live /\ prev[current] \in live,
                           Linked(linkBefore(new, current)))

-----------------------------------------------------------------------------
(* deleteVal *)

unlinkFirst ==
    /\ prev' = [prev EXCEPT ![next[head]] = NULL]
    /\ head' = next[head]
    /\ UNCHANGED <<tail, next>>

unlinkLast ==
    /\ next' = [next EXCEPT ![prev[tail]] = NULL]
    /\ tail' = prev[tail]
    /\ UNCHANGED <<head, prev>>

unlink(current) ==
    /\ next' = [next EXCEPT ![prev[current]] = next[current]]
    /\ prev' = [prev EXCEPT ![next[current]] = prev[current]]
    /\ UNCHANGED <<head, tail>>

DeleteRefused_OffByOne(ix) == ix > size /\ (Build = "linux" => size # 0)

(* The check both editions begin with: only the Linux one lets a call on   *)
(* an empty list through.                                                  *)
DeleteRefused(ix) == ix >= size /\ (Build = "linux" => size # 0)

deleteVal(ix) ==
    LET Unlinked(node, Unlink) == /\ Unlink
                                  /\ free(node)
                                  /\ size' = size - 1
                                  /\ Return(OK)
        current == jumpToNode(ix)
        emptied == Build = "windows" /\ size = 1
    IN  \/ DeleteRefused(ix) /\ Refuse(FAIL)
        \/ /\ ~DeleteRefused(ix) /\ emptied
           /\ Unlinked(head, head' = NULL /\ tail' = NULL /\ UNCHANGED <<next, prev>>)
        \/ /\ ~DeleteRefused(ix) /\ ~emptied /\ ix = 0
           /\ Through(head \in live /\ next[head] \in live, Unlinked(head, unlinkFirst))
        \/ /\ ~DeleteRefused(ix) /\ ~emptied /\ ix # 0 /\ ix = size - 1
           /\ Through(tail \in live /\ prev[tail] \in live, Unlinked(tail, unlinkLast))
        \/ /\ ~DeleteRefused(ix) /\ ~emptied /\ ix # 0 /\ ix # size - 1
           /\ Through(/\ current \in live
                      /\ next[current] \in live
                      /\ prev[current] \in live, Unlinked(current, unlink(current)))

-----------------------------------------------------------------------------
(* getVal and findVal *)

getVal(ix) ==
    \/ ix >= size /\ size # 0 /\ Refuse(NULL)
    \/ /\ ix < size \/ size = 0
       /\ Through(jumpToNode(ix) \in live, Refuse(val[jumpToNode(ix)]))

(* The loop stops at the first node that holds v, or that is no node.      *)
findVal(v) ==
    LET Stops(i) == jumpToNode(i) \notin live \/ val[jumpToNode(i)] = v
    IN  \/ (\A i \in 0..(size - 1) : ~Stops(i)) /\ Refuse(-1)
        \/ \E i \in 0..(size - 1) :
             /\ Stops(i)
             /\ \A j \in 0..(i - 1) : ~Stops(j)
             /\ Through(jumpToNode(i) \in live, Refuse(i))

-----------------------------------------------------------------------------
Next ==
    /\ ~fault
    /\ \/ \E ix \in 0..MaxIndex, v \in Val : insertVal(ix, v)
       \/ \E ix \in 0..MaxIndex : deleteVal(ix)
       \/ \E ix \in 0..MaxIndex : getVal(ix)
       \/ \E v \in Val : findVal(v)

Spec == Init /\ [][Next]_vars

-----------------------------------------------------------------------------
(* Properties *)

Pointer == Addr \cup {NULL}

(* The list, the memory and the fault flag have their types: links are      *)
(* nodes or NULL, and the size counts.                                     *)
TypeOK ==
    /\ head \in Pointer /\ tail \in Pointer
    /\ size \in Nat
    /\ val \in [Addr -> Val]
    /\ next \in [Addr -> Pointer]
    /\ prev \in [Addr -> Pointer]
    /\ live \in SUBSET Addr
    /\ fault \in BOOLEAN

(* c lists the nodes from the head: the links run along it in both         *)
(* directions and end in NULL, and the allocated nodes are exactly the     *)
(* nodes on it.                                                            *)
IsChain(c) ==
    /\ c \in [1..size -> live]
    /\ \A i, j \in 1..size : c[i] = c[j] => i = j
    /\ \A a \in live : \E i \in 1..size : c[i] = a
    /\ size = 0 => head = NULL /\ tail = NULL
    /\ size # 0 => /\ head = c[1]
                   /\ tail = c[size]
                   /\ prev[c[1]] = NULL
                   /\ next[c[size]] = NULL
    /\ \A i \in 1..(size - 1) : next[c[i]] = c[i + 1] /\ prev[c[i + 1]] = c[i]

(* However calls are mixed, the list stays one chain of distinct nodes     *)
(* that both directions of links agree on, it is as long as size says, and *)
(* no node is leaked or freed while linked (insertVal, deleteVal).         *)
WellLinked == \E c \in [1..size -> live] : IsChain(c)

(* The values as the callers see them by position. *)
contents == [i \in 1..size |-> val[jumpToNode(i - 1)]]

Contract == INSTANCE ListContract WITH seq <- contents

(* Every call does to the sequence of values what the contract says, and   *)
(* the process dies only in the calls the contract names: no pointer of a  *)
(* reachable list ever leads insertVal, deleteVal, getVal or findVal       *)
(* outside it.                                                             *)
Implements == Contract!Spec

(* The Linux deleteVal cannot take the last value out: a list that once    *)
(* held a value holds one for ever.  The Windows edition has a branch for  *)
(* this case (linkedlist.c:101-107).                                       *)
NeverEmptiesAgain == [][size > 0 => size' > 0]_vars
=============================================================================
