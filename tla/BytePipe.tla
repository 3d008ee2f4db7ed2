------------------------------- MODULE BytePipe --------------------------------
(***************************************************************************)
(* What streams promise their readers: the bytes the peer wrote to each,   *)
(* each once and in order, some more of them at a time.                    *)
(***************************************************************************)
EXTENDS Integers, Sequences

CONSTANTS
  Stream,   \* the streams
  Written   \* what the peer writes to each

VARIABLE out   \* what the reader of each got

Init == out = [s \in Stream |-> <<>>]

Get(s) == \E n \in Len(out[s]) + 1 .. Len(Written) :
            out' = [out EXCEPT ![s] = SubSeq(Written, 1, n)]

Next == \E s \in Stream : Get(s)
Spec == Init /\ [][Next]_out
===============================================================================
