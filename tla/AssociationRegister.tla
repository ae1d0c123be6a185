------------------------ MODULE AssociationRegister ------------------------
(***************************************************************************)
(* What a provider's Set promises to callers that may call it at the same  *)
(* time: it looks as if each call happened at one moment or not at all.  A *)
(* call that returns nil has put its whole association in the resource; a  *)
(* call that returns an error may have done so or not.  Apart from that    *)
(* the value only changes when the resource is deleted.                    *)
(***************************************************************************)
CONSTANTS Callers, Associations, Nothing

VARIABLES
    value,   \* the association the resource shows, Nothing if it shows none
    calls    \* per caller, the association it is setting and what Set returned

vars == <<value, calls>>

Init ==
    /\ value = Nothing
    /\ calls = [c \in Callers |-> [want |-> Nothing, result |-> "ok"]]

Call(c, a) ==
    /\ calls[c].result # "none"
    /\ calls' = [calls EXCEPT ![c] = [want |-> a, result |-> "none"]]
    /\ UNCHANGED value

Return(c, result) ==
    /\ calls[c].result = "none"
    /\ calls' = [calls EXCEPT ![c].result = result]
    /\ value' = calls[c].want \/ (result = "error" /\ UNCHANGED value)

Erase ==
    /\ value' = Nothing
    /\ UNCHANGED calls

Next ==
    \/ \E c \in Callers :
         \/ \E a \in Associations : Call(c, a)
         \/ \E result \in {"ok", "error"} : Return(c, result)
    \/ Erase

Spec == Init /\ [][Next]_vars
=============================================================================
