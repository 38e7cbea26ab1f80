----------------------------- MODULE FileStore -----------------------------
(***************************************************************************)
(* What a program may expect of the files of a card: the abstract          *)
(* specification of the SD library.  A file is the sequence of bytes       *)
(* appended to it; what the card would still have after a power loss is    *)
(* what was last committed.                                                *)
(*                                                                         *)
(* The content of a name is a set: of one sequence, or of none when there  *)
(* is no such file.                                                        *)
(***************************************************************************)
EXTENDS Naturals, Sequences

CONSTANTS Name, MaxAppend

VARIABLES
    content,   \* what a program reads under a name
    safe,      \* what it would read after a power loss
    age,       \* how often a name has been written from its start
    broken     \* names whose removal a power loss cut off half-way

vars == <<content, safe, age, broken>>

Nothing == {}
\* Byte i of what is written under a name, of the age it is written in.
Byte(n, a, i)     == <<n, a, i>>
Bytes(n, a, i, k) == [j \in 1 .. k |-> Byte(n, a, i + j)]

Init ==
    /\ content = [n \in Name |-> Nothing]
    /\ safe = content
    /\ age = [n \in Name |-> 0]
    /\ broken = {}

\* A new file is on the card at once.
Create(n) ==
    /\ n \notin broken /\ content[n] = Nothing
    /\ content' = [content EXCEPT ![n] = {<<>>}]
    /\ safe' = [safe EXCEPT ![n] = {<<>>}]
    /\ age' = [age EXCEPT ![n] = @ + 1]
    /\ UNCHANGED broken

\* Bytes are there for the program, and not safe yet.
Extend(n) ==
    /\ n \notin broken
    /\ \E old \in content[n], k \in 1 .. MaxAppend :
         content' = [content EXCEPT
                        ![n] = {old \o Bytes(n, age[n], Len(old), k)}]
    /\ UNCHANGED <<safe, age, broken>>

Commit(n) ==
    /\ safe' = [safe EXCEPT ![n] = content[n]]
    /\ UNCHANGED <<content, age, broken>>

Delete(n) ==
    /\ n \notin broken
    /\ content' = [content EXCEPT ![n] = Nothing]
    /\ safe' = [safe EXCEPT ![n] = Nothing]
    /\ UNCHANGED <<age, broken>>

\* The file is removed and written again, committed: k bytes of a new age, or
\* none when they do not fit.
Rewrite(n, k) ==
    /\ n \notin broken
    /\ content' = [content EXCEPT ![n] = {Bytes(n, age[n] + 1, 0, k)}]
    /\ safe' = [safe EXCEPT ![n] = content'[n]]
    /\ age' = [age EXCEPT ![n] = @ + 1]
    /\ UNCHANGED broken

\* Power is lost during a call for name n.  Every other file is as it was
\* committed.  File n is as it was, or as the call would have made it, or
\* empty, or missing; or it is broken, when it was being removed.
PowerLoss(n) ==
    /\ \/ /\ \E c \in {safe[n], content[n], {<<>>}, Nothing}
                      \cup {{Bytes(n, age[n] + 1, 0, k)} : k \in 1 .. MaxAppend} :
               safe' = [safe EXCEPT ![n] = c]
          /\ UNCHANGED broken
       \/ /\ safe' = [safe EXCEPT ![n] = Nothing]
          /\ broken' = broken \cup {n}
    /\ content' = safe'
    /\ UNCHANGED age

Next ==
    \E n \in Name :
        \/ Create(n)
        \/ Extend(n)
        \/ Commit(n)
        \/ Delete(n)
        \/ \E k \in 0 .. MaxAppend : Rewrite(n, k)
        \/ PowerLoss(n)

Spec == Init /\ [][Next]_vars
=============================================================================
