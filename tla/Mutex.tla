------------------------------- MODULE Mutex --------------------------------
(***************************************************************************)
(* What a mutex promises: at most one owner, who alone can give it up.     *)
(***************************************************************************)
CONSTANT Thread

VARIABLE owners

Init == owners = {}

Acquire(t) == owners = {} /\ owners' = {t}

Release(t) == owners = {t} /\ owners' = {}

Next == \E t \in Thread : Acquire(t) \/ Release(t)

Spec == Init /\ [][Next]_owners
=============================================================================
