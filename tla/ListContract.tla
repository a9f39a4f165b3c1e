---------------------------- MODULE ListContract ----------------------------
(***************************************************************************)
(* What the doubly linked list of Lab 7 (linkedlist.c, in its Linux and    *)
(* its Windows edition) promises to the peer node that stores its peers    *)
(* and its files in it: a sequence of values with positions counted from   *)
(* 0, and a status or a value returned by every call.  The contract says   *)
(* nothing of nodes and pointers; LinkedList is shown to implement it.     *)
(*                                                                         *)
(* A call may also end the process: getVal does on an empty list, and the  *)
(* Linux deleteVal does on a list of at most one value.  These calls are   *)
(* part of the contract because the callers do make them.                  *)
(***************************************************************************)
EXTENDS Integers, Sequences, SequencesExt

CONSTANTS Val,       \* the payloads the callers store
          NULL,      \* the null pointer a failed getVal returns
          Build,     \* "linux" or "windows": which linkedlist.c is linked
          MaxIndex   \* bound: the largest index a caller passes

VARIABLES seq,       \* the stored values
          ret,       \* what the last call returned
          fault      \* TRUE once a call has killed the process

vars == <<seq, ret, fault>>

OK == 0
FAIL == 1

Init ==
    /\ seq = << >>
    /\ ret = OK
    /\ fault = FALSE

Return(r) == ret' = r /\ UNCHANGED fault

Crash == fault' = TRUE /\ UNCHANGED <<seq, ret>>

(* An insertion is refused past the end or when memory has run out; an     *)
(* empty list takes its first value whatever the index.                    *)
insertVal(ix, v) ==
    \/ UNCHANGED seq /\ Return(FAIL)
    \/ /\ seq = << >>
       /\ seq' = <<v>>
       /\ Return(OK)
    \/ /\ seq # << >>
       /\ ix <= Len(seq)
       /\ seq' = InsertAt(seq, ix + 1, v)
       /\ Return(OK)

deleteVal(ix) ==
    \/ /\ ix < Len(seq)
       /\ Build = "windows" \/ Len(seq) > 1
       /\ seq' = RemoveAt(seq, ix + 1)
       /\ Return(OK)
    \/ /\ ix >= Len(seq)
       /\ Build = "windows" \/ seq # << >>
       /\ UNCHANGED seq
       /\ Return(FAIL)
    \/ /\ Build = "linux"
       /\ seq = << >> \/ (Len(seq) = 1 /\ ix = 0)
       /\ Crash

getVal(ix) ==
    \/ ix < Len(seq) /\ UNCHANGED seq /\ Return(seq[ix + 1])
    \/ ix >= Len(seq) /\ seq # << >> /\ UNCHANGED seq /\ Return(NULL)
    \/ seq = << >> /\ Crash

(* The position of the first occurrence, -1 when there is none. *)
findVal(v) ==
    /\ UNCHANGED seq
    /\ \/ \E i \in 1..Len(seq) :
            /\ seq[i] = v
            /\ \A j \in 1..(i - 1) : seq[j] # v
            /\ Return(i - 1)
       \/ (\A i \in 1..Len(seq) : seq[i] # v) /\ Return(-1)

Next ==
    /\ ~fault
    /\ \/ \E ix \in 0..MaxIndex, v \in Val : insertVal(ix, v)
       \/ \E ix \in 0..MaxIndex : deleteVal(ix) \/ getVal(ix)
       \/ \E v \in Val : findVal(v)

Spec == Init /\ [][Next]_vars
=============================================================================
