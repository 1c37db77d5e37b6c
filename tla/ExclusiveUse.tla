----------------------------- MODULE ExclusiveUse -----------------------------
(***************************************************************************)
(* What the instance lease promises: a game directory is used by the       *)
(* workers of at most one process at a time, and by two of them only when  *)
(* one let the other in.                                                   *)
(***************************************************************************)
CONSTANTS Workers, Home
VARIABLE users

Init == users = {}

Enter(w) == users = {} /\ users' = {w}
Join(w)  == (\E v \in users : Home[v] = Home[w]) /\ users' = users \cup {w}
Leave(w) == w \in users /\ users' = users \ {w}
Die(p)   == users' = {w \in users : Home[w] # p}

Next == \/ \E w \in Workers : Enter(w) \/ Join(w) \/ Leave(w)
        \/ \E w \in Workers : Die(Home[w])
Spec == Init /\ [][Next]_users
=============================================================================
