---------------------------- MODULE FrameStream ----------------------------
(***************************************************************************)
(* What a recorder of depth frames promises, with no thread, lock or queue *)
(* in sight: the entries it accepts are handed on one at a time, each      *)
(* once, in the order in which they were accepted.  An entry is a depth    *)
(* frame or the marker that ends a recording.                              *)
(***************************************************************************)
EXTENDS Naturals, Sequences

CONSTANT Entries   \* what can be accepted: the depth frames and the end marker

VARIABLES accepted,  \* every entry accepted so far, oldest first
          delivered  \* every entry handed on so far, oldest first

vars == <<accepted, delivered>>

Init == /\ accepted = << >>
        /\ delivered = << >>

Accept(e) == /\ accepted' = Append(accepted, e)
             /\ UNCHANGED delivered

(* The next entry handed on is the oldest one that was not handed on yet. *)
Deliver == /\ Len(delivered) < Len(accepted)
           /\ delivered' = Append(delivered, accepted[Len(delivered) + 1])
           /\ UNCHANGED accepted

Next == Deliver \/ \E e \in Entries : Accept(e)

Spec == Init /\ [][Next]_vars
=============================================================================
