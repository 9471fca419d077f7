------------------------------- MODULE LogText -------------------------------
(***************************************************************************)
(* The text of a provisioning log.  Only lengths and identities of         *)
(* messages matter, so the text is a sequence of cells, message m being    *)
(* the cells <<m, 1>> .. <<m, Size[m]>>.  Two messages that differ in      *)
(* their timestamp alone are the same m: that is what                      *)
(* areEquivalentMessages compares.                                         *)
(***************************************************************************)
EXTENDS Naturals, Sequences

CONSTANTS
  Messages,   \* level and text of a message
  Size,       \* length of each message, its newline included
  MaxSize,    \* bound: no message is longer
  MaxLength   \* maxLength: the length from which a log is trimmed

ASSUME SizeAssumption ==
  MaxSize \in Nat /\ Size \in [Messages -> 1 .. MaxSize]
ASSUME MaxLengthAssumption == MaxLength \in Nat \ {0}

Cells == {<<m, i>> : m \in Messages, i \in 1 .. MaxSize}

\* Variant: a second newline is added to the message.
TextTooLong(m) == [i \in 1 .. (Size[m] + 1) |-> <<m, i>>]

Text(m) == [i \in 1 .. Size[m] |-> <<m, i>>]

\* log[maxLength:].  The line-wise trim that follows it in the code has no
\* effect, its result being discarded.
Trim(log) == IF Len(log) >= MaxLength
             THEN SubSeq(log, MaxLength + 1, Len(log)) ELSE log
=============================================================================
