--------------------------- MODULE ProvisioningLog ---------------------------
(***************************************************************************)
(* The provisioning log of one cluster: a ConfigMap with the log text and  *)
(* the last message, which several calls may write at the same time.  A    *)
(* write reads the ConfigMap, appends in memory and sends it back, with    *)
(* nothing but the API server's optimistic locking between writers.        *)
(***************************************************************************)
EXTENDS LogText

CONSTANTS
  Writers,    \* calls that write log messages
  None        \* no ConfigMap, no write in progress, no last message

VARIABLES
  cm,     \* the ConfigMap: None or [log, last]
  writer, \* per writer: None, or the message and the ConfigMap it has read
  fresh   \* writers whose read is still current

vars == <<cm, writer, fresh>>

ConfigMaps == [log : Seq(Cells), last : Messages \cup {None}]

\* A write in progress: its message and the ConfigMap it has read.
Writes == [msg : Messages, read : ConfigMaps \cup {None}]

ASSUME NoneAssumption == None \notin Messages \cup ConfigMaps \cup Writes

Init ==
  /\ cm \in {None, [log |-> <<>>, last |-> None]}
  /\ writer = [w \in Writers |-> None] /\ fresh = {}

Writing(w) == writer[w] # None

\* write: read the ConfigMap, absent or not.
Get(w, m) ==
  /\ ~Writing(w)
  /\ writer' = [writer EXCEPT ![w] = [msg |-> m, read |-> cm]]
  /\ fresh' = fresh \cup {w}
  /\ UNCHANGED cm

Done(w) == writer' = [writer EXCEPT ![w] = None]

\* Variant: the new ConfigMap replaces one that appeared in the meantime.
CreateOverExisting(w) ==
  /\ Writing(w) /\ writer[w].read = None
  /\ cm' = [log |-> Text(writer[w].msg), last |-> writer[w].msg]
  /\ fresh' = {} /\ Done(w)

\* createLog.
CreateLog(w) ==
  /\ Writing(w) /\ writer[w].read = None /\ cm = None
  /\ cm' = [log |-> Text(writer[w].msg), last |-> writer[w].msg]
  /\ fresh' = {} /\ Done(w)

\* appendLog drops a message equal to the last one it has read ...
DropEquivalent(w) ==
  /\ Writing(w) /\ writer[w].read # None /\ writer[w].read.last = writer[w].msg
  /\ fresh' = fresh \ {w} /\ Done(w)
  /\ UNCHANGED cm

\* Variant: the Update is sent without the resource version that was read.
AppendBlindly(w) ==
  /\ Writing(w) /\ writer[w].read # None /\ writer[w].read.last # writer[w].msg
  /\ cm' = [log |-> Trim(writer[w].read.log) \o Text(writer[w].msg), last |-> writer[w].msg]
  /\ fresh' = {} /\ Done(w)

\* Variant: equivalent messages are appended as well.
AppendRepeats(w) ==
  /\ Writing(w) /\ writer[w].read # None /\ w \in fresh
  /\ cm' = [log |-> Trim(writer[w].read.log) \o Text(writer[w].msg), last |-> writer[w].msg]
  /\ fresh' = {} /\ Done(w)

\* Variant: the log is never trimmed below twice its limit.
AppendLateTrim(w) ==
  /\ Writing(w) /\ writer[w].read # None /\ w \in fresh
  /\ writer[w].read.last # writer[w].msg
  /\ cm' = [log |-> (IF Len(writer[w].read.log) > 2 * MaxLength
                     THEN Trim(writer[w].read.log) ELSE writer[w].read.log)
                      \o Text(writer[w].msg),
            last |-> writer[w].msg]
  /\ fresh' = {} /\ Done(w)

\* Variant: the trim is applied to the text with the new message.
AppendThenTrim(w) ==
  /\ Writing(w) /\ writer[w].read # None /\ w \in fresh
  /\ writer[w].read.last # writer[w].msg
  /\ cm' = [log |-> Trim(writer[w].read.log \o Text(writer[w].msg)), last |-> writer[w].msg]
  /\ fresh' = {} /\ Done(w)

\* ... and otherwise trims, appends and updates, if nobody wrote in between.
AppendLog(w) ==
  /\ Writing(w) /\ writer[w].read # None /\ w \in fresh
  /\ writer[w].read.last # writer[w].msg
  /\ cm' = [log |-> Trim(writer[w].read.log) \o Text(writer[w].msg), last |-> writer[w].msg]
  /\ fresh' = {} /\ Done(w)

\* A conflict, an AlreadyExists or any other error: the message is lost, since no
\* caller writes it again.
Fail(w) ==
  /\ Writing(w)
  /\ fresh' = fresh \ {w} /\ Done(w)
  /\ UNCHANGED cm

Next == \E w \in Writers :
  \/ \E m \in Messages : Get(w, m)
  \/ CreateLog(w) \/ DropEquivalent(w) \/ AppendLog(w) \/ Fail(w)

Spec == Init /\ [][Next]_vars

\* What a reader of the ConfigMap sees of it.
text == IF cm = None THEN <<>> ELSE cm.log
last == IF cm = None THEN None ELSE cm.last

Atomic == INSTANCE AtomicLog WITH NoMessage <- None

-----------------------------------------------------------------------------
(* Properties.                                                             *)

\* Types; a fresh read is a copy of the ConfigMap.
TypeOK ==
  /\ cm \in ConfigMaps \cup {None}
  /\ writer \in [Writers -> Writes \cup {None}]
  /\ fresh \in SUBSET Writers
  /\ \A w \in fresh : Writing(w) /\ writer[w].read = cm

EndsWith(log, m) ==
  /\ Len(log) >= Size[m]
  /\ \A i \in 1 .. Size[m] : log[Len(log) - Size[m] + i] = <<m, i>>

\* The field "last" always is the message the log ends with, whole, whatever the
\* writers' interleaving and however the log was trimmed.
LastIsTail == (cm # None /\ cm.last # None) => EndsWith(cm.log, cm.last)

\* Concurrent writers never leave the same message twice in a row.
NoRepeats ==
  cm # None =>
    \A i \in 1 .. (Len(cm.log) - 1), m \in Messages :
      cm.log[i] = <<m, Size[m]>> => cm.log[i + 1] # <<m, 1>>

\* The log cannot outgrow its limit by more than one message, provided no message
\* is longer than the limit.  (Longer ones do make it grow without end: an append
\* removes MaxLength cells only.)
LengthBounded ==
  (cm # None /\ MaxSize <= MaxLength) => Len(cm.log) < MaxLength + MaxSize

\* A write never takes away what another writer has added: the new log is the
\* old one, or the old one without its first MaxLength cells, with one message
\* appended.
NothingOverwritten ==
  [][cm # None => /\ cm' # None
                  /\ \E m \in Messages : cm'.log = Trim(cm.log) \o Text(m)]_cm

\* The reads and writes of concurrent calls add up to whole messages appended one
\* at a time, each to the log as it is and none after an equivalent one: the
\* optimistic locking of the API server is enough, in the absence of any lock.
ImplementsAtomicLog == Atomic!Spec

\* "Trim to last message if over length" (logger.go): a log that is trimmed keeps
\* its last message in front of the new one.
TrimKeepsLastMessage ==
  [][(cm # None /\ Len(cm.log) >= MaxLength) =>
       cm'.log = Text(cm.last) \o Text(cm'.last)]_cm
=============================================================================
