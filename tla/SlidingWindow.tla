--------------------------- MODULE SlidingWindow ---------------------------
(***************************************************************************)
(* What the compressed ROM format promises: a text made of single bytes    *)
(* and of copies, each copy taken from a fixed distance back in the text   *)
(* itself.  Before the text there are zeros, as far back as a copy may     *)
(* reach; of the text, a limited part is kept.                             *)
(***************************************************************************)
EXTENDS Naturals, Sequences

CONSTANTS Byte,    \* the bytes
          Reach,   \* how far back a copy may reach
          Length,  \* how long it may be
          Limit    \* how much of the text is kept

VARIABLES past,    \* the text backwards: past[d] was written d bytes ago
          copy,    \* the copy being made, or none
          text     \* what is kept of the text

vars == <<past, copy, text>>

NoCopy == [back |-> 1, left |-> 0]

Init == /\ past = [d \in 1 .. Reach |-> 0]
        /\ copy = NoCopy
        /\ text = <<>>

Write(c) == /\ past' = [d \in 1 .. Reach |-> IF d = 1 THEN c ELSE past[d - 1]]
            /\ text' = IF Len(text) < Limit THEN Append(text, c) ELSE text

Literal(c) == /\ copy.left = 0
              /\ Write(c)
              /\ UNCHANGED copy

StartCopy(d, n) == /\ copy.left = 0
                   /\ copy' = [back |-> d, left |-> n]
                   /\ UNCHANGED <<past, text>>

CopyByte == /\ copy.left > 0
            /\ Write(past[copy.back])
            /\ copy' = IF copy.left = 1 THEN NoCopy ELSE [copy EXCEPT !.left = @ - 1]

Next == \/ \E c \in Byte : Literal(c)
        \/ \E d \in 1 .. Reach, n \in Length : StartCopy(d, n)
        \/ CopyByte

Spec == Init /\ [][Next]_vars
=============================================================================
