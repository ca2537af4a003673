------------------------------ MODULE SlugTable ------------------------------
(***************************************************************************)
(* What the links table promises to whoever follows or creates a short     *)
(* link, whatever statements it takes: a slug names one link and a link    *)
(* has one slug, for good, and a creation that succeeds is answered with   *)
(* what the table holds by then. Rows whose slug is still temporary are    *)
(* not in it: nobody has been told of them.                                *)
(***************************************************************************)
VARIABLES
  published,  \* the pairs of a slug and the id of its link
  told        \* those of them that their creators have been answered with

vars == <<published, told>>

Init ==
  /\ published = {}
  /\ told = {}

Free(p) == \A q \in published : q[1] # p[1] /\ q[2] # p[2]

(* The creator may not hear of it: the answer is lost, or the process dies. *)
Publish(p) ==
  /\ Free(p)
  /\ published' = published \cup {p}
  /\ told' \in {told, told \cup {p}}

Next == \E p \in published' : Publish(p)

Spec == Init /\ [][Next]_vars
=============================================================================
