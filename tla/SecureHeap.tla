------------------------------ MODULE SecureHeap ------------------------------
(***************************************************************************)
(* What the secure allocator promises to the programs that use it: every    *)
(* live buffer is its owner's alone.  It starts zeroed, it changes only     *)
(* when its owner writes it, and a resize keeps the words both sizes have.  *)
(***************************************************************************)
CONSTANT Zero

VARIABLE objs    \* buffer -> its words, numbered from 1

Init == objs = << >>

Keep(p, o) == p \in DOMAIN o /\ o[p] = objs[p]

New ==
  \E p \in DOMAIN objs' \ DOMAIN objs :
    /\ DOMAIN objs' = DOMAIN objs \cup {p}
    /\ \A q \in DOMAIN objs : Keep(q, objs')
    /\ \A i \in DOMAIN objs'[p] : objs'[p][i] = Zero

Write ==
  /\ DOMAIN objs' = DOMAIN objs
  /\ \E p \in DOMAIN objs :
       /\ DOMAIN objs'[p] = DOMAIN objs[p]
       /\ \A q \in DOMAIN objs \ {p} : Keep(q, objs')

\* The new words of a buffer that grows are not promised to be zero.
Resize ==
  \E p \in DOMAIN objs, q \in DOMAIN objs' :
    /\ q \notin DOMAIN objs \ {p}
    /\ DOMAIN objs' = (DOMAIN objs \ {p}) \cup {q}
    /\ \A r \in DOMAIN objs \ {p} : Keep(r, objs')
    /\ \A i \in DOMAIN objs[p] \cap DOMAIN objs'[q] : objs'[q][i] = objs[p][i]

Free ==
  \E p \in DOMAIN objs :
    /\ DOMAIN objs' = DOMAIN objs \ {p}
    /\ \A q \in DOMAIN objs' : Keep(q, objs')

Next == New \/ Write \/ Resize \/ Free

Spec == Init /\ [][Next]_objs
=============================================================================
