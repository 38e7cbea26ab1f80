---------------------------- MODULE PassageCount ----------------------------
(***************************************************************************)
(* What a people counter promises, whatever sensor it uses: it counts      *)
(* people who passed, each once, none that did not exist, and in the end   *)
(* all of them.  A power loss starts a new count.                          *)
(***************************************************************************)
EXTENDS Naturals

VARIABLES passages, counted

vars == <<passages, counted>>

Init == passages = 0 /\ counted = 0

Pass == passages' = passages + 1 /\ UNCHANGED counted

Count ==
    /\ counted < passages
    /\ counted' = counted + 1
    /\ UNCHANGED passages

Restart == passages' = 0 /\ counted' = 0

Next == Pass \/ Count \/ Restart

\* Safety, and the promise that every passage is counted.
Safe == Init /\ [][Next]_vars
Live == WF_vars(Count)
Spec == Safe /\ Live
=============================================================================
