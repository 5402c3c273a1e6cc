----------------------------- MODULE UserPresence -----------------------------
(***************************************************************************)
(* What a presence check promises: it finds the user present when the user *)
(* has confirmed, not too long ago, something no other check has used.     *)
(***************************************************************************)
VARIABLES
  credit,  \* there is a confirmation that has neither lapsed nor been used
  answer   \* of the last check: "present", "absent", or "none" while it is made

vars == <<credit, answer>>

Confirm == credit' = TRUE /\ UNCHANGED answer
Lapse == credit' = FALSE /\ UNCHANGED answer

Ask == answer' = "none" /\ UNCHANGED credit
Grant == answer = "none" /\ credit /\ credit' = FALSE /\ answer' = "present"
Refuse == answer = "none" /\ ~credit /\ answer' = "absent" /\ UNCHANGED credit

Init == credit = FALSE /\ answer = "none"
Next == Confirm \/ Lapse \/ Ask \/ Grant \/ Refuse
Spec == Init /\ [][Next]_vars
===============================================================================
