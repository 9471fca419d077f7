----------------------- MODULE ProvisioningLog_proofs -----------------------
(***************************************************************************)
(* Theorems about ProvisioningLog, for any writers, messages and limits.   *)
(* TypeOK carries the one fact about concurrency that everything else      *)
(* needs: a write that the API server accepts was computed from the        *)
(* ConfigMap as it is.                                                     *)
(***************************************************************************)
EXTENDS ProvisioningLog, SequenceTheorems, TLAPS

USE SizeAssumption, MaxLengthAssumption, NoneAssumption

\* A message is a sequence of cells as long as its size.
LEMMA TextType ==
  ASSUME NEW m \in Messages
  PROVE  Text(m) \in Seq(Cells) /\ Len(Text(m)) = Size[m] /\ Size[m] \in 1 .. MaxSize
  BY DEF Text, Cells

\* Trimming yields a log that is no longer, and short when messages are.
LEMMA TrimType ==
  ASSUME NEW log \in Seq(Cells)
  PROVE  /\ Trim(log) \in Seq(Cells)
         /\ Len(Trim(log)) = IF Len(log) >= MaxLength THEN Len(log) - MaxLength ELSE Len(log)
<1>1. CASE Len(log) >= MaxLength
  <2>1. /\ Len(log) \in Nat /\ MaxLength + 1 \in Nat
        /\ \A i \in (MaxLength + 1) .. Len(log) : log[i] \in Cells
    OBVIOUS
  <2>2. SubSeq(log, MaxLength + 1, Len(log)) \in Seq(Cells)
    BY <2>1, SubSeqProperties
  <2>3. Len(SubSeq(log, MaxLength + 1, Len(log))) = Len(log) - MaxLength
    BY <1>1, <2>1, SubSeqProperties
  <2> QED BY <1>1, <2>2, <2>3 DEF Trim
<1>2. CASE ~(Len(log) >= MaxLength)
  BY <1>2 DEF Trim
<1> QED BY <1>1, <1>2

\* A log that gets a message ends with it, and grows by its size.
LEMMA AppendType ==
  ASSUME NEW log \in Seq(Cells), NEW m \in Messages
  PROVE  /\ log \o Text(m) \in Seq(Cells)
         /\ Len(log \o Text(m)) = Len(log) + Size[m]
         /\ EndsWith(log \o Text(m), m)
<1>1. Text(m) \in Seq(Cells) /\ Len(Text(m)) = Size[m] /\ Size[m] \in 1 .. MaxSize
  BY TextType
<1>2. /\ log \o Text(m) \in Seq(Cells) /\ Len(log \o Text(m)) = Len(log) + Size[m]
      /\ \A i \in 1 .. Size[m] : (log \o Text(m))[Len(log) + i] = Text(m)[i]
  BY <1>1, ConcatProperties
<1>3. \A i \in 1 .. Size[m] : Text(m)[i] = <<m, i>>
  BY DEF Text
<1> QED BY <1>1, <1>2, <1>3 DEF EndsWith

-----------------------------------------------------------------------------
\* The types, and that a fresh read is the ConfigMap itself.
THEOREM Typing == Spec => []TypeOK
<1>1. Init => TypeOK
  <2> SUFFICES ASSUME Init PROVE TypeOK
    OBVIOUS
  <2>1. [log |-> <<>>, last |-> None] \in ConfigMaps
    BY DEF ConfigMaps
  <2>2. cm \in ConfigMaps \cup {None}
    BY <2>1 DEF Init
  <2>3. writer \in [Writers -> Writes \cup {None}]
    BY DEF Init
  <2> QED BY <2>2, <2>3 DEF Init, TypeOK
<1>2. TypeOK /\ [Next]_vars => TypeOK'
  <2> SUFFICES ASSUME TypeOK, [Next]_vars PROVE TypeOK'
    OBVIOUS
  <2> USE DEF TypeOK, Writing, Done, Writes
  <2>1. ASSUME NEW w \in Writers, NEW m \in Messages, Get(w, m) PROVE TypeOK'
    BY <2>1 DEF Get, ConfigMaps
  <2>2. ASSUME NEW w \in Writers, CreateLog(w) PROVE TypeOK'
    <3>1. writer[w].msg \in Messages
      BY <2>2 DEF CreateLog
    <3>2. Text(writer[w].msg) \in Seq(Cells)
      BY <3>1, TextType
    <3> QED BY <2>2, <3>1, <3>2 DEF CreateLog, ConfigMaps
  <2>3. ASSUME NEW w \in Writers, DropEquivalent(w) PROVE TypeOK'
    BY <2>3 DEF DropEquivalent
  <2>4. ASSUME NEW w \in Writers, AppendLog(w) PROVE TypeOK'
    <3>1. writer[w].msg \in Messages /\ writer[w].read \in ConfigMaps
      BY <2>4 DEF AppendLog
    <3>2. Trim(writer[w].read.log) \in Seq(Cells)
      BY <3>1, TrimType DEF ConfigMaps
    <3>3. Trim(writer[w].read.log) \o Text(writer[w].msg) \in Seq(Cells)
      BY <3>1, <3>2, AppendType
    <3> QED BY <2>4, <3>1, <3>3 DEF AppendLog, ConfigMaps
  <2>5. ASSUME NEW w \in Writers, Fail(w) PROVE TypeOK'
    BY <2>5 DEF Fail
  <2>6. CASE UNCHANGED vars
    BY <2>6 DEF vars
  <2> QED BY <2>1, <2>2, <2>3, <2>4, <2>5, <2>6 DEF Next
<1> QED BY <1>1, <1>2, PTL DEF Spec

\* What a write makes of the ConfigMap, as seen from the ConfigMap it replaces.
LEMMA CmStep ==
  ASSUME TypeOK, [Next]_vars
  PROVE  \/ cm' = cm
         \/ /\ cm = None
            /\ \E m \in Messages : cm' = [log |-> Text(m), last |-> m]
         \/ /\ cm \in ConfigMaps
            /\ \E m \in Messages \ {cm.last} :
                 cm' = [log |-> Trim(cm.log) \o Text(m), last |-> m]
<1>1. ASSUME NEW w \in Writers, CreateLog(w) PROVE
        cm = None /\ \E m \in Messages : cm' = [log |-> Text(m), last |-> m]
  BY <1>1 DEF CreateLog, TypeOK, Writing, Writes
<1>2. ASSUME NEW w \in Writers, AppendLog(w) PROVE
        cm \in ConfigMaps
          /\ \E m \in Messages \ {cm.last} :
               cm' = [log |-> Trim(cm.log) \o Text(m), last |-> m]
  BY <1>2 DEF AppendLog, TypeOK, Writing, Writes
<1> QED BY <1>1, <1>2 DEF Next, vars, Get, DropEquivalent, Fail

\* "last" and the end of the log always agree.
THEOREM LastStaysTail == Spec => []LastIsTail
<1>1. Init => LastIsTail
  BY DEF Init, LastIsTail
<1>2. TypeOK /\ LastIsTail /\ [Next]_vars => LastIsTail'
  <2> SUFFICES ASSUME TypeOK, LastIsTail, [Next]_vars PROVE LastIsTail'
    OBVIOUS
  <2>1. CASE cm' = cm
    BY <2>1 DEF LastIsTail, EndsWith
  <2>2. ASSUME NEW m \in Messages, cm' = [log |-> Text(m), last |-> m] PROVE LastIsTail'
    <3>1. Text(m) \in Seq(Cells) /\ Len(Text(m)) = Size[m] /\ Size[m] \in 1 .. MaxSize
      BY TextType
    <3>2. EndsWith(Text(m), m)
      BY <3>1 DEF EndsWith, Text
    <3> QED BY <2>2, <3>2 DEF LastIsTail, EndsWith
  <2>3. ASSUME NEW m \in Messages, cm \in ConfigMaps,
               cm' = [log |-> Trim(cm.log) \o Text(m), last |-> m]
        PROVE  LastIsTail'
    <3>1. Trim(cm.log) \in Seq(Cells)
      BY <2>3, TrimType DEF ConfigMaps
    <3>2. EndsWith(Trim(cm.log) \o Text(m), m)
      BY <3>1, AppendType
    <3> QED BY <2>3, <3>2 DEF LastIsTail, EndsWith
  <2> QED BY <2>1, <2>2, <2>3, CmStep
<1> QED BY <1>1, <1>2, Typing, PTL DEF Spec

\* The length of the log is bounded.
THEOREM LengthStaysBounded == Spec => []LengthBounded
<1>1. Init => LengthBounded
  BY DEF Init, LengthBounded
<1>2. TypeOK /\ LengthBounded /\ [Next]_vars => LengthBounded'
  <2> SUFFICES ASSUME TypeOK, LengthBounded, [Next]_vars, MaxSize <= MaxLength
               PROVE  cm' # None => Len(cm'.log) < MaxLength + MaxSize
    BY DEF LengthBounded
  <2>1. CASE cm' = cm
    BY <2>1 DEF LengthBounded
  <2>2. ASSUME NEW m \in Messages, cm' = [log |-> Text(m), last |-> m]
        PROVE  Len(cm'.log) < MaxLength + MaxSize
    BY <2>2, TextType
  <2>3. ASSUME NEW m \in Messages, cm \in ConfigMaps,
               cm' = [log |-> Trim(cm.log) \o Text(m), last |-> m]
        PROVE  Len(cm'.log) < MaxLength + MaxSize
    <3>0. cm # None /\ cm.log \in Seq(Cells) /\ Len(cm.log) \in Nat
      BY <2>3 DEF ConfigMaps
    <3>1. Len(cm.log) < MaxLength + MaxSize
      BY <3>0 DEF LengthBounded
    <3>2. Trim(cm.log) \in Seq(Cells)
           /\ Len(Trim(cm.log)) = IF Len(cm.log) >= MaxLength
                                  THEN Len(cm.log) - MaxLength ELSE Len(cm.log)
      BY <3>0, TrimType
    <3>3. Len(cm'.log) = Len(Trim(cm.log)) + Size[m] /\ Size[m] \in 1 .. MaxSize
      BY <2>3, <3>2, AppendType
    <3> QED BY <3>0, <3>1, <3>2, <3>3
  <2> QED BY <2>1, <2>2, <2>3, CmStep
<1> QED BY <1>1, <1>2, Typing, PTL DEF Spec

\* No writer takes away what another has added.
THEOREM WritesAccumulate == Spec => NothingOverwritten
<1>1. TypeOK /\ [Next]_vars =>
        [cm # None => /\ cm' # None
                      /\ \E m \in Messages : cm'.log = Trim(cm.log) \o Text(m)]_cm
  <2> SUFFICES ASSUME TypeOK, [Next]_vars, cm' # cm, cm # None
               PROVE  cm' # None /\ \E m \in Messages : cm'.log = Trim(cm.log) \o Text(m)
    OBVIOUS
  <2>1. PICK m \in Messages : cm' = [log |-> Trim(cm.log) \o Text(m), last |-> m]
    BY CmStep
  <2>2. cm' # None
    <3>1. cm.log \in Seq(Cells)
      BY DEF TypeOK, ConfigMaps
    <3>2. Trim(cm.log) \o Text(m) \in Seq(Cells)
      BY <3>1, TrimType, AppendType
    <3>3. cm' \in ConfigMaps
      BY <2>1, <3>2 DEF ConfigMaps
    <3> QED BY <3>3
  <2> QED BY <2>1, <2>2
<1> QED BY <1>1, Typing, PTL DEF Spec, NothingOverwritten

\* The empty log has nothing to trim.
LEMMA AppendToEmpty ==
  ASSUME NEW m \in Messages
  PROVE  Trim(<<>>) \o Text(m) = Text(m)
<1>1. Text(m) \in Seq(Cells)
  BY TextType
<1>2. Trim(<<>>) = <<>>
  BY DEF Trim
<1> QED BY <1>1, <1>2

\* Concurrent reads and writes amount to messages appended one at a time.
THEOREM Implementation == Spec => ImplementsAtomicLog
<1>1. Init => Atomic!Init
  BY DEF Init, Atomic!Init, text, last
<1>2. TypeOK /\ [Next]_vars => [Atomic!Next]_<<text, last>>
  <2> SUFFICES ASSUME TypeOK, [Next]_vars, <<text, last>>' # <<text, last>>
               PROVE  Atomic!Next
    OBVIOUS
  <2>1. cm' # cm
    BY DEF text, last
  <2>2. ASSUME NEW m \in Messages, cm = None, cm' = [log |-> Text(m), last |-> m]
        PROVE  Atomic!Next
    <3>1. cm' \in ConfigMaps
      BY <2>2, TextType DEF ConfigMaps
    <3>2. text = <<>> /\ last = None /\ text' = Text(m) /\ last' = m
      BY <2>2, <3>1 DEF text, last
    <3>3. text' = Trim(text) \o Text(m) /\ m # last
      BY <3>2, AppendToEmpty
    <3> QED BY <3>2, <3>3 DEF Atomic!Next, Atomic!AddMessage, Atomic!Trim, Atomic!Text, Trim, Text
  <2>3. ASSUME NEW m \in Messages \ {cm.last}, cm \in ConfigMaps,
               cm' = [log |-> Trim(cm.log) \o Text(m), last |-> m]
        PROVE  Atomic!Next
    <3>1. cm' \in ConfigMaps
      BY <2>3, TrimType, AppendType DEF ConfigMaps
    <3>2. /\ text = cm.log /\ last = cm.last
          /\ text' = Trim(text) \o Text(m) /\ last' = m
      BY <2>3, <3>1 DEF text, last
    <3> QED BY <3>2 DEF Atomic!Next, Atomic!AddMessage, Atomic!Trim, Atomic!Text, Trim, Text
  <2> QED BY <2>1, <2>2, <2>3, CmStep
<1> QED BY <1>1, <1>2, Typing, PTL DEF Spec, ImplementsAtomicLog, Atomic!Spec

-----------------------------------------------------------------------------
\* What keeps a message from following itself: a log without a last message is
\* empty, and every other one ends with the last cell of that message.
LastCell ==
  cm # None => IF cm.last = None THEN cm.log = <<>>
               ELSE /\ Len(cm.log) > 0
                    /\ cm.log[Len(cm.log)] = <<cm.last, Size[cm.last]>>

\* No message twice in a row in a log.
Unrepeated(log) ==
  \A i \in 1 .. (Len(log) - 1), m \in Messages :
    log[i] = <<m, Size[m]>> => log[i + 1] # <<m, 1>>

\* A message repeats nothing within itself, and its last cell closes it.
LEMMA TextUnrepeated ==
  ASSUME NEW m \in Messages
  PROVE  Unrepeated(Text(m)) /\ Len(Text(m)) > 0 /\ Text(m)[1] = <<m, 1>>
           /\ Text(m)[Len(Text(m))] = <<m, Size[m]>>
<1>1. Len(Text(m)) = Size[m] /\ Size[m] \in 1 .. MaxSize
  BY TextType
<1>2. \A i \in 1 .. Size[m] : Text(m)[i] = <<m, i>>
  BY DEF Text
<1>3. ASSUME NEW i \in 1 .. (Len(Text(m)) - 1), NEW n \in Messages,
             Text(m)[i] = <<n, Size[n]>>
      PROVE  Text(m)[i + 1] # <<n, 1>>
  BY <1>1, <1>2, <1>3
<1> QED BY <1>1, <1>2, <1>3 DEF Unrepeated

\* A trim leaves a suffix, which repeats nothing if the log did not.
LEMMA TrimUnrepeated ==
  ASSUME NEW log \in Seq(Cells), Unrepeated(log)
  PROVE  /\ Unrepeated(Trim(log))
         /\ Len(Trim(log)) > 0 => Trim(log)[Len(Trim(log))] = log[Len(log)]
<1>1. CASE Len(log) >= MaxLength
  <2>1. /\ Len(log) \in Nat /\ MaxLength + 1 \in 1 .. Len(log) + 1
        /\ \A i \in (MaxLength + 1) .. Len(log) : log[i] \in Cells
    BY <1>1
  <2>2. /\ Len(Trim(log)) = Len(log) - MaxLength
        /\ \A i \in 1 .. (Len(log) - MaxLength) : Trim(log)[i] = log[MaxLength + i]
    BY <1>1, <2>1, SubSeqProperties DEF Trim
  <2>3. ASSUME NEW i \in 1 .. (Len(Trim(log)) - 1), NEW m \in Messages,
               Trim(log)[i] = <<m, Size[m]>>
        PROVE  Trim(log)[i + 1] # <<m, 1>>
    <3>1. Trim(log)[i] = log[MaxLength + i] /\ Trim(log)[i + 1] = log[(MaxLength + i) + 1]
      BY <2>1, <2>2
    <3>2. MaxLength + i \in 1 .. (Len(log) - 1)
      BY <2>1, <2>2
    <3> QED BY <2>3, <3>1, <3>2 DEF Unrepeated
  <2>4. Len(Trim(log)) > 0 => Trim(log)[Len(Trim(log))] = log[Len(log)]
    <3>1. Len(log) = MaxLength + (Len(log) - MaxLength)
      BY <2>1
    <3>2. Len(Trim(log)) > 0 => Trim(log)[Len(log) - MaxLength] = log[MaxLength + (Len(log) - MaxLength)]
      BY <2>1, <2>2
    <3> QED BY <2>2, <3>1, <3>2
  <2>5. Unrepeated(Trim(log))
    BY <2>3 DEF Unrepeated
  <2> QED BY <2>4, <2>5
<1>2. CASE ~(Len(log) >= MaxLength)
  BY <1>2 DEF Trim
<1> QED BY <1>1, <1>2

\* Joining two logs repeats nothing when the first does not end with the message
\* the second begins with.
LEMMA AppendUnrepeated ==
  ASSUME NEW log \in Seq(Cells), NEW m \in Messages, Unrepeated(log),
         Len(log) > 0 => \E n \in Messages \ {m} : log[Len(log)] = <<n, Size[n]>>
  PROVE  /\ Unrepeated(log \o Text(m))
         /\ Len(log \o Text(m)) > 0
         /\ (log \o Text(m))[Len(log \o Text(m))] = <<m, Size[m]>>
<1> DEFINE new == log \o Text(m)
<1>1. /\ Text(m) \in Seq(Cells) /\ Len(Text(m)) = Size[m] /\ Size[m] \in 1 .. MaxSize
      /\ Len(log) \in Nat
  BY TextType
<1>2. /\ Len(new) = Len(log) + Size[m]
      /\ \A i \in 1 .. Len(log) : new[i] = log[i]
      /\ \A i \in 1 .. Size[m] : new[Len(log) + i] = <<m, i>>
  <2>1. \A i \in 1 .. Size[m] : Text(m)[i] = <<m, i>>
    BY DEF Text
  <2> QED BY <1>1, <2>1, ConcatProperties
<1>3. ASSUME NEW i \in 1 .. (Len(new) - 1), NEW n \in Messages, new[i] = <<n, Size[n]>>
      PROVE  new[i + 1] # <<n, 1>>
  <2>1. CASE i < Len(log)
    <3>1. i \in 1 .. (Len(log) - 1) /\ new[i] = log[i] /\ new[i + 1] = log[i + 1]
      BY <1>1, <1>2, <2>1
    <3> QED BY <1>3, <3>1 DEF Unrepeated
  <2>2. CASE i = Len(log)
    <3>1. PICK k \in Messages \ {m} : log[Len(log)] = <<k, Size[k]>>
      BY <1>1, <2>2
    <3>2. new[i] = <<k, Size[k]>> /\ new[i + 1] = <<m, 1>>
      BY <1>1, <1>2, <2>2, <3>1
    <3> QED BY <1>3, <3>1, <3>2
  <2>3. CASE i > Len(log)
    <3>1. PICK j \in 1 .. (Size[m] - 1) : i = Len(log) + j
      <4>1. i - Len(log) \in 1 .. (Size[m] - 1) /\ i = Len(log) + (i - Len(log))
        BY <1>1, <1>2, <2>3
      <4> QED BY <4>1
    <3>2. new[i] = <<m, j>>
      BY <1>1, <1>2, <3>1
    <3> QED BY <1>1, <1>3, <3>1, <3>2
  <2> QED BY <1>1, <2>1, <2>2, <2>3
<1>4. new[Len(new)] = <<m, Size[m]>>
  BY <1>1, <1>2
<1> HIDE DEF new
<1>5. Unrepeated(new)
  BY <1>3 DEF Unrepeated
<1>6. Len(new) > 0
  BY <1>1, <1>2
<1> QED BY <1>4, <1>5, <1>6 DEF new

\* Concurrent writers never leave the same message twice in a row.
THEOREM NothingRepeats == Spec => []NoRepeats
<1> DEFINE NoRepeatInv == LastCell /\ NoRepeats
<1>1. Init => NoRepeatInv
  <2> SUFFICES ASSUME Init, cm # None PROVE LastCell /\ NoRepeats
    BY DEF LastCell, NoRepeats
  <2>1. cm = [log |-> <<>>, last |-> None]
    BY DEF Init
  <2> QED BY <2>1 DEF LastCell, NoRepeats
<1>2. TypeOK /\ NoRepeatInv /\ [Next]_vars => NoRepeatInv'
  <2> SUFFICES ASSUME TypeOK, LastCell, NoRepeats, [Next]_vars
               PROVE  LastCell' /\ NoRepeats'
    OBVIOUS
  <2>1. CASE cm' = cm
    BY <2>1 DEF LastCell, NoRepeats
  <2>2. ASSUME NEW m \in Messages, cm' = [log |-> Text(m), last |-> m]
        PROVE  LastCell' /\ NoRepeats'
    BY <2>2, TextUnrepeated DEF LastCell, NoRepeats, Unrepeated
  <2>3. ASSUME NEW m \in Messages \ {cm.last}, cm \in ConfigMaps,
               cm' = [log |-> Trim(cm.log) \o Text(m), last |-> m]
        PROVE  LastCell' /\ NoRepeats'
    <3>1. cm # None /\ cm.log \in Seq(Cells) /\ cm.last \in Messages \cup {None}
      BY <2>3 DEF ConfigMaps
    <3>2. Unrepeated(cm.log)
      BY <3>1 DEF NoRepeats, Unrepeated
    <3>3. /\ Trim(cm.log) \in Seq(Cells) /\ Unrepeated(Trim(cm.log))
          /\ Len(Trim(cm.log)) > 0 => Trim(cm.log)[Len(Trim(cm.log))] = cm.log[Len(cm.log)]
          /\ Len(Trim(cm.log)) <= Len(cm.log)
      BY <3>1, <3>2, TrimUnrepeated, TrimType
    <3>4. Len(Trim(cm.log)) > 0 =>
            \E n \in Messages \ {m} : Trim(cm.log)[Len(Trim(cm.log))] = <<n, Size[n]>>
      <4> SUFFICES ASSUME Len(Trim(cm.log)) > 0
                   PROVE  \E n \in Messages \ {m} :
                            Trim(cm.log)[Len(Trim(cm.log))] = <<n, Size[n]>>
        OBVIOUS
      <4>1. cm.last # None
        BY <3>1, <3>3 DEF LastCell
      <4> QED BY <2>3, <3>1, <3>3, <4>1 DEF LastCell
    <3>5. /\ Unrepeated(cm'.log) /\ Len(cm'.log) > 0
          /\ cm'.log[Len(cm'.log)] = <<cm'.last, Size[cm'.last]>>
      BY <2>3, <3>3, <3>4, AppendUnrepeated
    <3>6. cm'.last # None
      BY <2>3
    <3> QED BY <3>5, <3>6 DEF LastCell, NoRepeats, Unrepeated
  <2> QED BY <2>1, <2>2, <2>3, CmStep
<1>3. NoRepeatInv => NoRepeats
  OBVIOUS
<1> QED BY <1>1, <1>2, <1>3, Typing, PTL DEF Spec
=============================================================================
