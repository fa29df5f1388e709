------------------------------ MODULE Allocator ------------------------------
(***************************************************************************)
(* What a heap promises its callers: a region a thread holds lies in the   *)
(* arena, has the size the thread asked for, and overlaps no other region, *)
(* whoever holds it, until that thread gives it back or resizes it.        *)
(***************************************************************************)
EXTENDS Integers

CONSTANTS
    Agent,       \* the threads
    ArenaSize    \* the arena is the cells 0..ArenaSize-1

VARIABLE held    \* the regions << start, size >> each thread holds

Apart(r, s) == r[1] + r[2] <= s[1] \/ s[1] + s[2] <= r[1]

Held(h) == UNION {h[t] : t \in Agent}

Init == held = [t \in Agent |-> {}]

(* Thread t gets r, instead of the regions in Old when it is resized.      *)
Get(t, r, Old) ==
    /\ Old \subseteq held[t]
    /\ r[1] >= 0 /\ r[2] >= 0 /\ r[1] + r[2] <= ArenaSize
    /\ \A s \in Held([held EXCEPT ![t] = @ \ Old]) : Apart(r, s)
    /\ held' = [held EXCEPT ![t] = (@ \ Old) \cup {r}]

Give(t, r) ==
    /\ r \in held[t]
    /\ held' = [held EXCEPT ![t] = @ \ {r}]

Next ==
    \E t \in Agent :
        \/ \E r \in held'[t] : Get(t, r, {}) \/ \E s \in held[t] : Get(t, r, {s})
        \/ \E r \in held[t] : Give(t, r)

Spec == Init /\ [][Next]_held
=============================================================================
