---------------------------- MODULE ShellValues ----------------------------
(***************************************************************************)
(* What ModelShell promises its users: a shell is a variable.  It is       *)
(* absent, empty, or holds a model by value; copying gives the copy the    *)
(* same model and leaves the source as it is, moving leaves it empty, and  *)
(* nothing done to one shell is seen through another.  An assignment to a  *)
(* shell with a model may fail; the shell is then broken until it is given *)
(* something else or ended, and nothing can be got from it.                *)
(***************************************************************************)
CONSTANTS Shell, Held, Absent, Empty, Broken

VARIABLE content

Init == content = [s \in Shell |-> Absent]

Begin(s) == content[s] = Absent /\ content' = [content EXCEPT ![s] = Empty]

(* A model is stored, in a new shell or in one there is.                   *)
Put(s, h) == content' = [content EXCEPT ![s] = h]

Usable(t) == content[t] \notin {Absent, Broken}

Copy(s, t) == Usable(t) /\ content' = [content EXCEPT ![s] = content[t]]

Move(s, t) ==
  /\ s # t /\ Usable(t)
  /\ content' = [content EXCEPT ![s] = content[t], ![t] = Empty]

(* Only what had a model can break. *)
Fail(s) == content[s] \in Held /\ content' = [content EXCEPT ![s] = Broken]

End(s) == content[s] # Absent /\ content' = [content EXCEPT ![s] = Absent]

Next ==
  \E s \in Shell :
    \/ Begin(s) \/ End(s) \/ Fail(s)
    \/ \E h \in Held : Put(s, h)
    \/ \E t \in Shell : Copy(s, t) \/ Move(s, t)

Spec == Init /\ [][Next]_content
=============================================================================
