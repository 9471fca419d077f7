------------------------------ MODULE AtomicLog ------------------------------
(***************************************************************************)
(* What the provisioning log promises its readers: a text to which         *)
(* messages are added one at a time, each as a whole and none twice in a   *)
(* row, as if writers took turns.  A log that does not exist yet is empty. *)
(***************************************************************************)
EXTENDS LogText

CONSTANT NoMessage   \* the last message of an empty log

VARIABLES text, last

Init == text = <<>> /\ last = NoMessage

AddMessage(m) ==
  /\ m # last
  /\ text' = Trim(text) \o Text(m)
  /\ last' = m

Next == \E m \in Messages : AddMessage(m)

Spec == Init /\ [][Next]_<<text, last>>
=============================================================================
