---------------------------- MODULE ObjectStore ----------------------------
(***************************************************************************)
(* What the server relies on in a payload store: under a key there is      *)
(* nothing, a body somebody gave to Put for that identifier, or a file a   *)
(* writer has truncated and not filled.  Not promised: that a deleted body *)
(* stays away, nor that the newest one wins.                               *)
(***************************************************************************)
CONSTANTS Keys, Bodies, IdOf(_), None, Torn

VARIABLES
    visible,   \* what Get finds under each key
    offered    \* the bodies given to Put for each identifier

Init == visible = [k \in Keys |-> None] /\ \A i \in DOMAIN offered : offered[i] = {}

Offered(k) == offered[IdOf(k)]

Shows(k, content) == visible' = [visible EXCEPT ![k] = content]

Offer(k, b) ==
    /\ offered' = [offered EXCEPT ![IdOf(k)] = @ \cup {b}]
    /\ Shows(k, Torn) \/ UNCHANGED visible

\* A write of a body that was offered before: a copy from the other store.
Rewrite(k) == Offered(k) # {} /\ Shows(k, Torn) /\ UNCHANGED offered

Finish(k) ==
    /\ visible[k] = Torn
    /\ \E b \in Offered(k) : Shows(k, b)
    /\ UNCHANGED offered

Remove(k) == Shows(k, None) /\ UNCHANGED offered

\* A copy is gone and another comes into view, or comes back.
Uncover(k) == (\E b \in Offered(k) : Shows(k, b)) /\ UNCHANGED offered

Next ==
    \E k \in Keys :
        \/ \E b \in Bodies : Offer(k, b)
        \/ Rewrite(k) \/ Finish(k) \/ Remove(k) \/ Uncover(k)

Spec == Init /\ [][Next]_<<visible, offered>>
=============================================================================
