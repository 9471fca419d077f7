----------------------- MODULE VerrazzanoAddon_proofs -----------------------
(***************************************************************************)
(* Safety of module VerrazzanoAddon.  For any number of calls: types,      *)
(* flags, the pull secret before the fleet that refers to it, and no fleet *)
(* left after an uninstall.  For one call at a time: that the registration *)
(* is gone as well when a PostCheck reports its uninstall done, and that   *)
(* both are gone when Remove turns to the Cluster.                         *)
(***************************************************************************)
EXTENDS VerrazzanoAddon, TLAPS

LEMMA NoneFacts ==
  /\ \A v \in Flags : v # None
  /\ \A f \in Frames : f # None
  /\ \A f \in Fleets : f # None
BY NoneAssumption

CallType == call \in [Calls -> Frames \cup {None}]

-----------------------------------------------------------------------------
(* The frame of a call.                                                    *)

LEMMA GotoType ==
  ASSUME CallType, NEW c \in Calls, Running(c), NEW pc \in Stages, Goto(c, pc)
  PROVE  /\ CallType' /\ UNCHANGED caller
         /\ call[c] \in Frames /\ call'[c] \in Frames
         /\ call'[c].op = call[c].op /\ call'[c].v = call[c].v /\ call'[c].pc = pc
         /\ \A d \in Calls \ {c} : call'[d] = call[d]
<1> DEFINE f == [call[c] EXCEPT !.pc = pc]
<1>1. call[c] \in Frames
  BY DEF CallType, Running
<1>2. f \in Frames /\ f.op = call[c].op /\ f.v = call[c].v /\ f.pc = pc
  BY <1>1 DEF Frames
<1>3. call' = [call EXCEPT ![c] = f] /\ UNCHANGED caller
  BY DEF Goto
<1> HIDE DEF f
<1> QED BY <1>1, <1>2, <1>3 DEF CallType

LEMMA ReturnType ==
  ASSUME CallType, NEW c \in Calls, Running(c), NEW ok \in BOOLEAN, Return(c, ok)
  PROVE  /\ CallType' /\ UNCHANGED <<info, removing>>
         /\ outcome' \in {"failed", "PostCheck", "Remove"} /\ (~ok => outcome' = "failed")
         /\ outcome' # "failed" => outcome' = call[c].op
         /\ call'[c] = None /\ \A d \in Calls \ {c} : call'[d] = call[d]
<1>1. call[c] \in Frames
  BY DEF CallType, Running
<1> QED BY <1>1 DEF Return, CallType, Frames

\* Every step of a call moves it to another stage or ends it.
LEMMA WorkMoves ==
  ASSUME CallType, NEW c \in Calls, Work(c) \/ RequestFails(c)
  PROVE  Running(c) /\ ((\E pc \in Stages : Goto(c, pc)) \/ \E ok \in BOOLEAN : Return(c, ok))
<1>1. Running(c)
  BY DEF Work, RequestFails, CheckReady, Connect, CreateImagePullSecrets, UpdateVerrazzano,
         deleteVMC, deleteVZ, DeleteImagePullSecrets, DeleteCluster, DeleteNamespace, At
<1>2. CASE RequestFails(c)
  BY <1>1, <1>2 DEF RequestFails
<1>3. CASE CheckReady(c) \/ Connect(c)
  BY <1>1, <1>3 DEF CheckReady, Connect, Stages
<1>4. CASE CreateImagePullSecrets(c) \/ UpdateVerrazzano(c)
  BY <1>1, <1>4 DEF CreateImagePullSecrets, UpdateVerrazzano, Then, Stages
<1>5. CASE deleteVMC(c) \/ deleteVZ(c)
  BY <1>1, <1>5 DEF deleteVMC, deleteVZ, Then, AfterUninstall, Stages
<1>6. CASE DeleteImagePullSecrets(c) \/ DeleteCluster(c) \/ DeleteNamespace(c)
  BY <1>1, <1>6 DEF DeleteImagePullSecrets, DeleteCluster, DeleteNamespace, Stages
<1> QED BY <1>2, <1>3, <1>4, <1>5, <1>6 DEF Work

ObjectType ==
  /\ fleet \in Fleets \cup {None} /\ vmc \in BOOLEAN /\ pullSecret \in BOOLEAN
  /\ cluster \in {"absent", "present", "deleting"}
  /\ namespace \in BOOLEAN /\ ready \in BOOLEAN

CallerType ==
  /\ info \in Flags \cup {None} /\ removing \in BOOLEAN
  /\ outcome \in {"none", "failed", "Create", "Update", "PostCheck", "Remove"}

LEMMA TypeParts ==
  /\ TypeOK <=> CallerType /\ CallType /\ ObjectType
  /\ TypeOK' <=> CallerType' /\ CallType' /\ ObjectType'
BY DEF TypeOK, CallerType, CallType, ObjectType

LEMMA FleetUpdates ==
  ASSUME NEW f \in Fleets
  PROVE  /\ [f EXCEPT !.dying = TRUE] \in Fleets /\ [f EXCEPT !.dying = TRUE].dying
         /\ \A b \in BOOLEAN : /\ [f EXCEPT !.refs = @ \/ b] \in Fleets
                              /\ [f EXCEPT !.refs = @ \/ b].dying = f.dying
<1>1. [f EXCEPT !.dying = TRUE] \in Fleets /\ [f EXCEPT !.dying = TRUE].dying
  BY DEF Fleets
<1>2. ASSUME NEW b \in BOOLEAN
      PROVE  [f EXCEPT !.refs = @ \/ b] \in Fleets /\ [f EXCEPT !.refs = @ \/ b].dying = f.dying
  <2>1. (f.refs \/ b) \in BOOLEAN
    BY DEF Fleets
  <2> QED BY <2>1 DEF Fleets
<1> QED BY <1>1, <1>2

LEMMA WorkObjects ==
  ASSUME TypeOK, NEW c \in Calls, Work(c) \/ RequestFails(c)
  PROVE  ObjectType'
<1>1. ObjectType /\ CallType
  BY TypeParts
<1>2. call[c].v \in Flags
  BY <1>1, WorkMoves DEF CallType, Running, Frames
<1>3. CASE RequestFails(c) \/ CheckReady(c) \/ Connect(c)
  BY <1>1, <1>3 DEF RequestFails, CheckReady, Connect, objects, ObjectType
<1>4. CASE CreateImagePullSecrets(c) \/ DeleteImagePullSecrets(c)
  <2>1. pullSecret' \in BOOLEAN
    BY <1>1, <1>2, <1>4 DEF CreateImagePullSecrets, DeleteImagePullSecrets, ObjectType, Flags
  <2> QED BY <1>1, <1>4, <2>1 DEF CreateImagePullSecrets, DeleteImagePullSecrets, ObjectType
<1>5. CASE UpdateVerrazzano(c)
  <2>1. call[c].v.create \in BOOLEAN
    BY <1>2 DEF Flags
  <2>2. [refs |-> call[c].v.create, dying |-> FALSE] \in Fleets
    BY <2>1 DEF Fleets
  <2>3. fleet # None => [fleet EXCEPT !.refs = @ \/ call[c].v.create] \in Fleets
    BY <1>1, <2>1, FleetUpdates DEF ObjectType
  <2>4. fleet' \in Fleets \cup {None}
    BY <1>1, <1>5, <2>2, <2>3 DEF UpdateVerrazzano, ObjectType
  <2> QED BY <1>1, <1>5, <2>4 DEF UpdateVerrazzano, ObjectType
<1>6. CASE deleteVMC(c)
  BY <1>1, <1>6 DEF deleteVMC, ObjectType
<1>7. CASE deleteVZ(c)
  <2>1. fleet' \in Fleets \cup {None}
    BY <1>1, <1>7, FleetUpdates DEF deleteVZ, ObjectType
  <2> QED BY <1>1, <1>7, <2>1 DEF deleteVZ, ObjectType
<1>8. CASE DeleteCluster(c)
  BY <1>1, <1>8 DEF DeleteCluster, ObjectType
<1>9. CASE DeleteNamespace(c)
  BY <1>1, <1>9 DEF DeleteNamespace, ObjectType
<1> QED BY <1>3, <1>4, <1>5, <1>6, <1>7, <1>8, <1>9 DEF Work

-----------------------------------------------------------------------------
(* Types and flags, for any number of overlapping calls.                   *)

FlagInv == TypeOK /\ FlagsCoherent

\* A new state is well formed and coherent, whatever the options.
LEMMA OptionTypes ==
  ASSUME NEW o \in Options
  PROVE  o.install \in BOOLEAN /\ o.resource \in BOOLEAN /\ o.create \in BOOLEAN
<1>1. o \in DriverOptions
  BY OptionsAssumption
<1> QED BY <1>1 DEF DriverOptions

LEMMA CreateFlags ==
  ASSUME NEW o \in Options
  PROVE  NewFromOptions(o) \in Flags /\ Coherent(NewFromOptions(o))
BY OptionTypes DEF NewFromOptions, Flags, Coherent

LEMMA UpdateFlags ==
  ASSUME NEW o \in Options, NEW v \in Flags
  PROVE  SetUpdateValues(v, o) \in Flags /\ Coherent(SetUpdateValues(v, o))
<1>1. v.install \in BOOLEAN /\ v.create \in BOOLEAN
  BY DEF Flags
<1>2. (v.install /\ ~o.install) \in BOOLEAN /\ (v.create /\ ~o.create) \in BOOLEAN
  OBVIOUS
<1>3. SetUpdateValues(v, o) \in Flags
  BY <1>2, OptionTypes DEF SetUpdateValues, Flags
<1>4. Coherent(SetUpdateValues(v, o))
  BY DEF SetUpdateValues, Coherent
<1> QED BY <1>3, <1>4

LEMMA StartCall ==
  ASSUME FlagInv, NEW c \in Calls, StartPostCheck(c) \/ StartRemove(c)
  PROVE  /\ CallType' /\ UNCHANGED <<caller, objects, ready>> /\ ~Running(c)
         /\ info # None /\ call'[c] \in Frames /\ call'[c].v = info
         /\ call'[c].pc \in {"ready", "vmc", "cluster"}
         /\ call'[c].pc = "cluster" => call'[c].op = "Remove" /\ ~DeletesVerrazzano(info)
         /\ \A d \in Calls \ {c} : call'[d] = call[d]
<1>1. CallType /\ CallerType
  BY TypeParts DEF FlagInv
<1>2. info # None /\ info \in Flags /\ ~Running(c) /\ UNCHANGED <<caller, objects, ready>>
  BY <1>1 DEF StartPostCheck, StartRemove, CallerType
<1>3. PICK f \in Frames :
        /\ call' = [call EXCEPT ![c] = f] /\ f.v = info /\ f.pc \in {"ready", "vmc", "cluster"}
        /\ f.pc = "cluster" => f.op = "Remove" /\ ~DeletesVerrazzano(info)
  <2>1. CASE StartPostCheck(c)
    <3> DEFINE f == [op |-> "PostCheck", v |-> info, pc |-> "ready"]
    <3>1. f \in Frames
      BY <1>2 DEF Frames, Stages
    <3>2. call' = [call EXCEPT ![c] = f]
      BY <2>1 DEF StartPostCheck
    <3> QED BY <3>1, <3>2
  <2>2. CASE StartRemove(c)
    <3> DEFINE x == IF DeletesVerrazzano(info) THEN "vmc" ELSE "cluster"
               f == [op |-> "Remove", v |-> info, pc |-> x]
    <3>1. x \in Stages
      BY DEF Stages
    <3>2. x \in {"vmc", "cluster"} /\ (x = "cluster" => ~DeletesVerrazzano(info))
      OBVIOUS
    <3>3. call' = [call EXCEPT ![c] = f]
      BY <2>2 DEF StartRemove
    <3> HIDE DEF x
    <3>4. f \in Frames /\ f.v = info /\ f.pc = x /\ f.op = "Remove"
      BY <1>2, <3>1 DEF Frames
    <3> HIDE DEF f
    <3> QED BY <3>2, <3>3, <3>4
  <2> QED BY <2>1, <2>2
<1> QED BY <1>1, <1>2, <1>3 DEF CallType

LEMMA FlagStep ==
  ASSUME FlagInv, [Next]_vars
  PROVE  FlagInv'
<1>1. CallType /\ CallerType /\ ObjectType /\ FlagsCoherent
  BY TypeParts DEF FlagInv
<1>2. ASSUME UNCHANGED call, CallerType', ObjectType', info' # None => Coherent(info')
      PROVE  FlagInv'
  BY <1>1, <1>2, TypeParts DEF FlagInv, CallType, FlagsCoherent, Running
<1>3. ASSUME NEW o \in Options, Create(o) \/ Update(o)
      PROVE  FlagInv'
  <2>1. info' = info \/ (info' \in Flags /\ Coherent(info'))
    <3>1. CASE Create(o)
      BY <3>1, CreateFlags DEF Create
    <3>2. CASE Update(o)
      <4>1. info \in Flags
        BY <1>1, <3>2 DEF Update, CallerType
      <4> QED BY <3>2, <4>1, UpdateFlags DEF Update
    <3> QED BY <1>3, <3>1, <3>2
  <2>2. ObjectType'
    BY <1>1, <1>3 DEF Create, Update, objects, ObjectType
  <2>3. CallerType' /\ UNCHANGED call
    BY <1>1, <1>3, <2>1 DEF Create, Update, Ended, CallerType
  <2> QED BY <1>1, <1>2, <2>1, <2>2, <2>3 DEF FlagsCoherent
<1>4. CASE AskRemoval \/ RemoveWithoutState
  BY <1>1, <1>2, <1>4 DEF AskRemoval, RemoveWithoutState, objects, CallerType, ObjectType, FlagsCoherent
<1>5. ASSUME NEW c \in Calls, StartPostCheck(c) \/ StartRemove(c)
      PROVE  FlagInv'
  <2>1. CallerType' /\ ObjectType'
    BY <1>1, <1>5, StartCall DEF caller, objects, CallerType, ObjectType
  <2>2. FlagsCoherent'
    BY <1>1, <1>5, StartCall DEF FlagsCoherent, Running, caller
  <2> QED BY <1>5, <2>1, <2>2, StartCall, TypeParts DEF FlagInv
<1>6. ASSUME NEW c \in Calls, Work(c) \/ RequestFails(c)
      PROVE  FlagInv'
  <2>1. Running(c) /\ ((\E pc \in Stages : Goto(c, pc)) \/ \E ok \in BOOLEAN : Return(c, ok))
    BY <1>1, <1>6, WorkMoves
  <2>2. CallType' /\ CallerType'
    BY <1>1, <2>1, GotoType, ReturnType DEF caller, CallerType
  <2>3. info' = info /\ \A d \in Calls : call'[d] = None \/ call'[d] = call[d]
                            \/ (Running(d) /\ call'[d].v = call[d].v)
    BY <1>1, <2>1, GotoType, ReturnType DEF caller
  <2>4. FlagsCoherent'
    BY <1>1, <2>3 DEF FlagsCoherent, Running
  <2> QED BY <1>6, <2>2, <2>4, WorkObjects, TypeParts DEF FlagInv
<1>7. CASE RegisterVMC \/ FleetGone \/ ClusterGone \/ ClusterUp \/ ClusterDown
  BY <1>1, <1>2, <1>7 DEF RegisterVMC, FleetGone, ClusterGone, ClusterUp, ClusterDown, caller, objects,
     CallerType, ObjectType, FlagsCoherent
<1>8. CASE UNCHANGED vars
  BY <1>1, <1>2, <1>8 DEF vars, caller, objects, CallerType, ObjectType, FlagsCoherent
<1> QED BY <1>3, <1>4, <1>5, <1>6, <1>7, <1>8 DEF Next

LEMMA FlagInit == ASSUME Init PROVE FlagInv
BY DEF Init, FlagInv, TypeOK, FlagsCoherent, Running

\* Every variable keeps its type.
THEOREM Typing == Spec => []TypeOK
<1>1. FlagInv => TypeOK
  BY DEF FlagInv
<1> QED BY <1>1, FlagInit, FlagStep, PTL DEF Spec

\* No stored state and no call ever asks for two opposite things.
THEOREM FlagsStayCoherent == Spec => []FlagsCoherent
<1>1. FlagInv => FlagsCoherent
  BY DEF FlagInv
<1> QED BY <1>1, FlagInit, FlagStep, PTL DEF Spec

-----------------------------------------------------------------------------
(***************************************************************************)
(* One call at a time.  What the invariant has to know is why the          *)
(* registration cannot come back unseen: between the deletion of the VMC   *)
(* and that of the fleet it can only be created again by a fleet that is   *)
(* not yet being deleted, and then the deletion of the fleet finds it.     *)
(***************************************************************************)
Gone == fleet = None /\ ~vmc

CallInv(c) ==
  Running(c) =>
    /\ call[c].v = info
    /\ call[c].pc \in {"secret", "fleet"} => info.install
    /\ call[c].pc \in {"cluster", "namespace"} => call[c].op = "Remove"
    /\ (call[c].pc = "uninstall" /\ (fleet = None \/ fleet.dying)) => ~vmc
    /\ (call[c].pc = "cluster" /\ DeletesVerrazzano(info)) => Gone
    /\ (call[c].pc = "cleanup" /\ info.uninstall) => Gone

AddonInv == FlagInv /\ UninstallIsComplete /\ \A c \in Calls : CallInv(c)

\* Nobody but a call makes a fleet, a fleet goes away only after its deletion has
\* begun, and only a fleet that is not being deleted makes a registration.
Quiet ==
  /\ fleet' = None => fleet = None \/ fleet.dying
  /\ fleet' # None => fleet # None /\ (fleet'.dying <=> fleet.dying)
  /\ (vmc' /\ ~vmc) => fleet # None /\ ~fleet.dying /\ fleet' = fleet

LEMMA QuietStep ==
  ASSUME AddonInv, call' = call, info' = info, outcome' = outcome \/ outcome' # "PostCheck", Quiet
  PROVE  UninstallIsComplete' /\ \A c \in Calls : CallInv(c)'
<1>1. Gone => Gone'
  BY DEF Gone, Quiet
<1>2. ASSUME NEW c \in Calls PROVE CallInv(c)'
  <2> SUFFICES ASSUME Running(c) PROVE CallInv(c)'
    BY DEF CallInv, Running
  <2>1. /\ call[c].v = info
        /\ call[c].pc \in {"secret", "fleet"} => info.install
        /\ call[c].pc \in {"cluster", "namespace"} => call[c].op = "Remove"
        /\ (call[c].pc = "uninstall" /\ (fleet = None \/ fleet.dying)) => ~vmc
        /\ (call[c].pc = "cluster" /\ DeletesVerrazzano(info)) => Gone
        /\ (call[c].pc = "cleanup" /\ info.uninstall) => Gone
    BY DEF AddonInv, CallInv
  <2>2. (fleet' = None \/ fleet'.dying) /\ (fleet = None \/ fleet.dying => ~vmc) => ~vmc'
    BY DEF Quiet
  <2> QED BY <1>1, <2>1, <2>2 DEF CallInv, DeletesVerrazzano
<1>3. UninstallIsComplete'
  BY <1>1 DEF AddonInv, UninstallIsComplete, Idle, Running, Gone
<1> QED BY <1>2, <1>3

\* The only call moves to a stage that CallInv allows it.
LEMMA MoveTo ==
  ASSUME AddonInv, SerialCalls, NEW c \in Calls, Running(c), NEW pc \in Stages, Goto(c, pc),
         pc \in {"secret", "fleet"} => info.install,
         pc \in {"cluster", "namespace"} => call[c].op = "Remove",
         (pc = "uninstall" /\ (fleet' = None \/ fleet'.dying)) => ~vmc',
         (pc = "cluster" /\ DeletesVerrazzano(info)) => Gone',
         (pc = "cleanup" /\ info.uninstall) => Gone'
  PROVE  UninstallIsComplete' /\ \A d \in Calls : CallInv(d)'
<1>1. CallType
  BY TypeParts DEF AddonInv, FlagInv
<1>2. /\ info' = info /\ call'[c] # None
      /\ call'[c].op = call[c].op /\ call'[c].v = call[c].v /\ call'[c].pc = pc
  BY <1>1, GotoType, NoneFacts DEF caller
<1>3. call[c].v = info
  BY DEF AddonInv, CallInv
<1>4. CallInv(c)'
  BY <1>2, <1>3 DEF CallInv, DeletesVerrazzano
<1>5. UninstallIsComplete'
  BY <1>2 DEF UninstallIsComplete, Idle, Running
<1> QED BY <1>4, <1>5 DEF SerialCalls

\* The only call ends.
LEMMA MoveOut ==
  ASSUME AddonInv, SerialCalls, NEW c \in Calls, Running(c), NEW ok \in BOOLEAN, Return(c, ok),
         (ok /\ call[c].op = "PostCheck" /\ info.uninstall) => Gone'
  PROVE  UninstallIsComplete' /\ \A d \in Calls : CallInv(d)'
<1>1. CallType
  BY TypeParts DEF AddonInv, FlagInv
<1>2. /\ info' = info /\ call'[c] = None
      /\ ~ok => outcome' = "failed"
      /\ outcome' # "failed" => outcome' = call[c].op
  BY <1>1, ReturnType
<1>3. \A d \in Calls : CallInv(d)'
  BY <1>2 DEF CallInv, Running, SerialCalls
<1>4. UninstallIsComplete'
  BY <1>2 DEF UninstallIsComplete, Gone
<1> QED BY <1>3, <1>4

LEMMA AddonWork ==
  ASSUME AddonInv, SerialCalls, NEW c \in Calls, Work(c) \/ RequestFails(c)
  PROVE  UninstallIsComplete' /\ \A d \in Calls : CallInv(d)'
<1>1. /\ CallType /\ ObjectType /\ CallerType
      /\ \A d \in Calls : Running(d) => Coherent(call[d].v)
  BY TypeParts DEF AddonInv, FlagInv, FlagsCoherent
<1>2. Running(c)
  BY <1>1, WorkMoves
<1>3. /\ call[c] \in Frames /\ call[c].v = info /\ info \in Flags /\ Coherent(info)
      /\ call[c].pc \in {"secret", "fleet"} => info.install
      /\ call[c].pc \in {"cluster", "namespace"} => call[c].op = "Remove"
      /\ (call[c].pc = "uninstall" /\ (fleet = None \/ fleet.dying)) => ~vmc
      /\ (call[c].pc = "cluster" /\ DeletesVerrazzano(info)) => Gone
      /\ (call[c].pc = "cleanup" /\ info.uninstall) => Gone
  <2>1. call[c] \in Frames
    BY <1>1, <1>2 DEF CallType, Running
  <2> QED BY <1>1, <1>2, <2>1 DEF AddonInv, CallInv, Frames
<1>4. ASSUME Return(c, FALSE) PROVE UninstallIsComplete' /\ \A d \in Calls : CallInv(d)'
  BY <1>2, <1>4, MoveOut
<1>5. CASE RequestFails(c)
  BY <1>4, <1>5 DEF RequestFails
<1>6. CASE CheckReady(c)
  BY <1>2, <1>4, <1>6, MoveTo DEF CheckReady, Stages
<1>7. CASE Connect(c)
  <2> DEFINE pc == IF info.install THEN "secret"
                   ELSE IF DeletesVerrazzano(info) THEN "vmc" ELSE "cleanup"
  <2>1. Goto(c, pc)
    BY <1>3, <1>7 DEF Connect
  <2>2. /\ pc \in Stages /\ pc \in {"secret", "vmc", "cleanup"} /\ (pc = "secret" => info.install)
        /\ pc = "cleanup" => ~info.uninstall
    BY <1>3 DEF Stages, DeletesVerrazzano, Coherent
  <2> HIDE DEF pc
  <2> QED BY <1>2, <2>1, <2>2, MoveTo
<1>8. CASE CreateImagePullSecrets(c)
  <2>1. info.install /\ (Goto(c, "fleet") \/ Return(c, FALSE))
    BY <1>3, <1>8 DEF CreateImagePullSecrets, Then, At
  <2> QED BY <1>2, <1>4, <2>1, MoveTo DEF Stages
<1>9. CASE UpdateVerrazzano(c)
  <2>1. info.install /\ (Goto(c, "cleanup") \/ Return(c, FALSE))
    BY <1>3, <1>9 DEF UpdateVerrazzano, Then, At
  <2>2. ~info.uninstall
    BY <1>3, <2>1 DEF Coherent
  <2> QED BY <1>2, <1>4, <2>1, <2>2, MoveTo DEF Stages
<1>10. CASE deleteVMC(c)
  BY <1>2, <1>4, <1>10, MoveTo DEF deleteVMC, Then, Stages
<1>11. CASE deleteVZ(c)
  <2> DEFINE pc == AfterUninstall(call[c].op)
  <2>1. CASE fleet # None
    BY <1>4, <1>11, <2>1 DEF deleteVZ
  <2>2. CASE fleet = None
    <3>1. call[c].pc = "uninstall" /\ Goto(c, pc) /\ fleet' = fleet /\ vmc' = vmc
      BY <1>11, <2>2 DEF deleteVZ, At
    <3>2. Gone'
      BY <1>3, <2>2, <3>1 DEF Gone
    <3>3. pc \in Stages /\ pc \in {"cleanup", "cluster"} /\ (pc = "cluster" => call[c].op = "Remove")
      BY <1>3 DEF AfterUninstall, Stages, Frames
    <3> HIDE DEF pc
    <3> QED BY <1>2, <3>1, <3>2, <3>3, MoveTo
  <2> QED BY <2>1, <2>2
<1>12. CASE DeleteImagePullSecrets(c)
  <2>1. /\ call[c].pc = "cleanup" /\ UNCHANGED <<fleet, vmc>>
        /\ Return(c, TRUE) \/ Return(c, FALSE)
    BY <1>12 DEF DeleteImagePullSecrets, At
  <2>2. info.uninstall => Gone'
    BY <1>3, <2>1 DEF Gone
  <2> QED BY <1>2, <2>1, <2>2, MoveOut
<1>13. CASE DeleteCluster(c)
  <2>1. call[c].op = "Remove"
    BY <1>3, <1>13 DEF DeleteCluster, At
  <2> QED BY <1>2, <1>4, <1>13, <2>1, MoveTo DEF DeleteCluster, Stages
<1>14. CASE DeleteNamespace(c)
  <2>1. call[c].op = "Remove" /\ (Return(c, TRUE) \/ Return(c, FALSE))
    BY <1>3, <1>14 DEF DeleteNamespace, At
  <2> QED BY <1>2, <2>1, MoveOut
<1> QED BY <1>5, <1>6, <1>7, <1>8, <1>9, <1>10, <1>11, <1>12, <1>13, <1>14 DEF Work

LEMMA AddonStep ==
  ASSUME AddonInv, SerialCalls, [Next]_vars
  PROVE  AddonInv'
<1>1. CallType /\ FlagInv'
  BY FlagStep, TypeParts DEF AddonInv, FlagInv
<1> SUFFICES UninstallIsComplete' /\ \A d \in Calls : CallInv(d)'
  BY <1>1 DEF AddonInv
<1>2. ASSUME NEW o \in Options, Create(o) \/ Update(o)
      PROVE  UninstallIsComplete' /\ \A d \in Calls : CallInv(d)'
  <2>1. Idle /\ call' = call /\ outcome' # "PostCheck"
    BY <1>2 DEF Create, Update, Ended
  <2> QED BY <2>1 DEF Idle, Running, CallInv, UninstallIsComplete
<1>3. CASE AskRemoval \/ RemoveWithoutState
  <2>1. /\ call' = call /\ info' = info /\ UNCHANGED <<fleet, vmc>>
        /\ outcome' = outcome \/ outcome' # "PostCheck"
    BY <1>3 DEF AskRemoval, RemoveWithoutState, objects
  <2> QED BY <2>1, QuietStep DEF Quiet
<1>4. ASSUME NEW c \in Calls, StartPostCheck(c) \/ StartRemove(c)
      PROVE  UninstallIsComplete' /\ \A d \in Calls : CallInv(d)'
  <2>1. /\ call'[c] # None /\ call'[c].v = info' /\ info' = info
        /\ call'[c].pc \in {"ready", "vmc", "cluster"}
        /\ call'[c].pc = "cluster" => call'[c].op = "Remove" /\ ~DeletesVerrazzano(info)
    BY <1>4, StartCall, NoneFacts DEF AddonInv, caller
  <2>2. CallInv(c)'
    BY <2>1 DEF CallInv, DeletesVerrazzano
  <2>3. UninstallIsComplete'
    BY <2>1 DEF UninstallIsComplete, Idle, Running
  <2> QED BY <2>2, <2>3 DEF SerialCalls
<1>5. ASSUME NEW c \in Calls, Work(c) \/ RequestFails(c)
      PROVE  UninstallIsComplete' /\ \A d \in Calls : CallInv(d)'
  BY <1>5, AddonWork
<1>6. CASE RegisterVMC \/ FleetGone \/ ClusterGone \/ ClusterUp \/ ClusterDown
  <2>1. call' = call /\ info' = info /\ outcome' = outcome /\ Quiet
    BY <1>6 DEF RegisterVMC, FleetGone, ClusterGone, ClusterUp, ClusterDown, caller, objects, Quiet
  <2> QED BY <2>1, QuietStep
<1>7. CASE UNCHANGED vars
  BY <1>7, QuietStep DEF vars, caller, objects, Quiet
<1> QED BY <1>2, <1>3, <1>4, <1>5, <1>6, <1>7 DEF Next

LEMMA AddonInit == ASSUME Init PROVE AddonInv
BY FlagInit DEF Init, AddonInv, UninstallIsComplete, CallInv, Running

\* With one call at a time, a PostCheck that was to uninstall Verrazzano reports
\* success only when the fleet and its registration are gone.
THEOREM UninstallReallyCompletes ==
  ASSUME SerialCalls PROVE Spec => []UninstallIsComplete
<1>1. AddonInv => UninstallIsComplete
  BY DEF AddonInv
<1> QED BY <1>1, AddonInit, AddonStep, PTL DEF Spec

\* With one call at a time, Remove begins to delete the Cluster only when the
\* Verrazzano the stored state knows of is gone.
THEOREM ClusterOutlivesVerrazzano ==
  ASSUME SerialCalls PROVE Spec => VerrazzanoGoneBeforeCluster
<1> DEFINE A == \A c \in Calls :
       (At(c, "cluster") /\ cluster = "present" /\ cluster' = "deleting"
          /\ DeletesVerrazzano(call[c].v)) => fleet = None /\ ~vmc
<1>1. AddonInv => A
  BY DEF AddonInv, CallInv, At, Gone
<1> QED BY <1>1, AddonInit, AddonStep, PTL DEF Spec, VerrazzanoGoneBeforeCluster

-----------------------------------------------------------------------------
(***************************************************************************)
(* Calls that overlap.  Create and Update wait for them, so all of them    *)
(* carry the stored flags, and coherent flags keep one call from undoing   *)
(* what another relies on: none deletes the pull secret that another has   *)
(* put, and none puts the fleet that another has taken off.  Only Remove   *)
(* takes the secret away, together with the namespace, and then no fleet   *)
(* can be put any more.                                                    *)
(***************************************************************************)
AgreedCall(c) ==
  Running(c) =>
    /\ call[c].v = info
    /\ call[c].pc \in {"secret", "fleet"} => info.install
    /\ (call[c].pc = "fleet" /\ info.create) => pullSecret \/ ~namespace
    /\ (call[c].pc = "cleanup" /\ info.uninstall) => fleet = None

OverlapInv ==
  /\ FlagInv /\ \A c \in Calls : AgreedCall(c)
  /\ (outcome = "PostCheck" /\ info.uninstall) => fleet = None

\* What the other calls rely on stays.
Relied ==
  /\ (info.create /\ (pullSecret \/ ~namespace)) => pullSecret' \/ ~namespace'
  /\ (info.uninstall /\ fleet = None) => fleet' = None

LEMMA AgreedStays ==
  ASSUME OverlapInv, Relied, info' = info, NEW c \in Calls, call'[c] = call[c]
  PROVE  AgreedCall(c)'
BY DEF OverlapInv, AgreedCall, Relied, Running

\* The call itself moves to a stage that AgreedCall allows it.
LEMMA AgreedMoves ==
  ASSUME OverlapInv, NEW c \in Calls, Running(c), NEW pc \in Stages, Goto(c, pc),
         pc \in {"secret", "fleet"} => info.install,
         (pc = "fleet" /\ info.create) => pullSecret' \/ ~namespace',
         (pc = "cleanup" /\ info.uninstall) => fleet' = None, Relied
  PROVE  AgreedCall(c)' /\ ((outcome' = "PostCheck" /\ info.uninstall) => fleet' = None)
<1>1. CallType /\ call[c].v = info
  BY TypeParts DEF OverlapInv, FlagInv, AgreedCall
<1>2. call'[c].v = call[c].v /\ call'[c].pc = pc /\ info' = info /\ outcome' = outcome
  BY <1>1, GotoType DEF caller
<1> QED BY <1>1, <1>2 DEF OverlapInv, AgreedCall, Relied

LEMMA AgreedEnds ==
  ASSUME OverlapInv, NEW c \in Calls, Running(c), NEW ok \in BOOLEAN, Return(c, ok),
         (ok /\ call[c].op = "PostCheck" /\ info.uninstall) => fleet' = None
  PROVE  AgreedCall(c)' /\ ((outcome' = "PostCheck" /\ info.uninstall) => fleet' = None)
<1>1. CallType
  BY TypeParts DEF OverlapInv, FlagInv
<1>2. /\ call'[c] = None
      /\ ~ok => outcome' = "failed"
      /\ outcome' # "failed" => outcome' = call[c].op
  BY <1>1, ReturnType
<1> QED BY <1>2 DEF AgreedCall, Running

LEMMA OverlapWork ==
  ASSUME OverlapInv, NEW c \in Calls, Work(c) \/ RequestFails(c)
  PROVE  /\ Relied /\ AgreedCall(c)'
         /\ (outcome' = "PostCheck" /\ info.uninstall) => fleet' = None
<1>1. CallType /\ ObjectType /\ CallerType /\ Running(c)
  BY TypeParts, WorkMoves DEF OverlapInv, FlagInv
<1>2. /\ call[c] \in Frames /\ call[c].v = info /\ info \in Flags /\ Coherent(info)
      /\ call[c].pc \in {"secret", "fleet"} => info.install
      /\ (call[c].pc = "fleet" /\ info.create) => pullSecret \/ ~namespace
      /\ (call[c].pc = "cleanup" /\ info.uninstall) => fleet = None
  <2>1. call[c] \in Frames /\ Coherent(call[c].v)
    BY <1>1 DEF CallType, Running, OverlapInv, FlagInv, FlagsCoherent
  <2> QED BY <1>1, <2>1 DEF OverlapInv, AgreedCall, Frames
<1>3. ASSUME Relied, Return(c, FALSE)
      PROVE  AgreedCall(c)' /\ ((outcome' = "PostCheck" /\ info.uninstall) => fleet' = None)
  BY <1>1, <1>3, AgreedEnds
<1>4. ASSUME UNCHANGED <<fleet, pullSecret, namespace>> PROVE Relied
  BY <1>4 DEF Relied
<1>5. CASE RequestFails(c)
  BY <1>3, <1>4, <1>5 DEF RequestFails, objects
<1>6. CASE CheckReady(c)
  <2>1. Relied
    BY <1>4, <1>6 DEF CheckReady, objects
  <2> QED BY <1>1, <1>3, <1>6, <2>1, AgreedMoves DEF CheckReady, Stages
<1>7. CASE Connect(c)
  <2> DEFINE pc == IF info.install THEN "secret"
                   ELSE IF DeletesVerrazzano(info) THEN "vmc" ELSE "cleanup"
  <2>1. Goto(c, pc) /\ Relied
    BY <1>2, <1>4, <1>7 DEF Connect, objects
  <2>2. /\ pc \in Stages /\ pc \in {"secret", "vmc", "cleanup"} /\ (pc = "secret" => info.install)
        /\ pc = "cleanup" => ~info.uninstall
    BY <1>2 DEF Stages, DeletesVerrazzano, Coherent
  <2> HIDE DEF pc
  <2> QED BY <1>1, <2>1, <2>2, AgreedMoves
<1>8. CASE CreateImagePullSecrets(c)
  <2>1. /\ info.install /\ (Goto(c, "fleet") \/ Return(c, FALSE))
        /\ UNCHANGED <<fleet, namespace>>
    BY <1>2, <1>8 DEF CreateImagePullSecrets, Then, At
  <2>2. pullSecret' = (pullSecret \/ info.create)
    BY <1>2, <1>8 DEF CreateImagePullSecrets
  <2>3. Relied /\ (info.create => pullSecret')
    BY <2>1, <2>2 DEF Relied
  <2> QED BY <1>1, <1>3, <2>1, <2>3, AgreedMoves DEF Stages
<1>9. CASE UpdateVerrazzano(c)
  <2>1. /\ info.install /\ (Goto(c, "cleanup") \/ Return(c, FALSE))
        /\ UNCHANGED <<pullSecret, namespace>>
    BY <1>2, <1>9 DEF UpdateVerrazzano, Then, At
  <2>2. ~info.uninstall
    BY <1>2, <2>1 DEF Coherent
  <2>3. Relied
    BY <2>1, <2>2 DEF Relied
  <2> QED BY <1>1, <1>3, <2>1, <2>2, <2>3, AgreedMoves DEF Stages
<1>10. CASE deleteVMC(c)
  <2>1. Relied /\ (Goto(c, "uninstall") \/ Return(c, FALSE))
    BY <1>4, <1>10 DEF deleteVMC, Then
  <2> QED BY <1>1, <1>3, <2>1, AgreedMoves DEF Stages
<1>11. CASE deleteVZ(c)
  <2> DEFINE pc == AfterUninstall(call[c].op)
  <2>1. Relied
    BY <1>11 DEF deleteVZ, Relied
  <2>2. CASE fleet # None
    BY <1>3, <1>11, <2>1, <2>2 DEF deleteVZ
  <2>3. CASE fleet = None
    <3>1. Goto(c, pc) /\ fleet' = None
      BY <1>11, <2>3 DEF deleteVZ
    <3>2. pc \in Stages /\ pc \in {"cleanup", "cluster"}
      BY DEF AfterUninstall, Stages
    <3> HIDE DEF pc
    <3> QED BY <1>1, <2>1, <3>1, <3>2, AgreedMoves
  <2> QED BY <2>2, <2>3
<1>12. CASE DeleteImagePullSecrets(c)
  <2>1. /\ call[c].pc = "cleanup" /\ UNCHANGED <<fleet, namespace>>
        /\ Return(c, TRUE) \/ Return(c, FALSE)
    BY <1>12 DEF DeleteImagePullSecrets, At
  <2>2. info.create => pullSecret' = pullSecret
    BY <1>1, <1>2, <1>12 DEF DeleteImagePullSecrets, Coherent, ObjectType
  <2>3. Relied
    BY <2>1, <2>2 DEF Relied
  <2> QED BY <1>1, <1>2, <1>3, <2>1, <2>3, AgreedEnds
<1>13. CASE DeleteCluster(c)
  <2>1. Relied
    BY <1>4, <1>13 DEF DeleteCluster
  <2> QED BY <1>1, <1>3, <1>13, <2>1, AgreedMoves DEF DeleteCluster, Stages
<1>14. CASE DeleteNamespace(c)
  <2>1. ~namespace' /\ fleet' = None /\ (Return(c, TRUE) \/ Return(c, FALSE))
    BY <1>14 DEF DeleteNamespace
  <2>2. Relied
    BY <2>1 DEF Relied
  <2> QED BY <1>1, <2>1, <2>2, AgreedEnds
<1> QED BY <1>5, <1>6, <1>7, <1>8, <1>9, <1>10, <1>11, <1>12, <1>13, <1>14 DEF Work

LEMMA OverlapStep ==
  ASSUME OverlapInv, [Next]_vars
  PROVE  OverlapInv'
<1>1. FlagInv' /\ CallType
  BY FlagStep, TypeParts DEF OverlapInv, FlagInv
<1>2. ASSUME Relied, info' = info, call' = call, outcome' = outcome \/ outcome' # "PostCheck"
      PROVE  OverlapInv'
  <2>1. \A d \in Calls : AgreedCall(d)'
    BY <1>2, AgreedStays
  <2> QED BY <1>1, <1>2, <2>1 DEF OverlapInv, Relied
<1>3. ASSUME NEW o \in Options, Create(o) \/ Update(o)
      PROVE  OverlapInv'
  <2>1. Idle /\ call' = call /\ outcome' # "PostCheck"
    BY <1>3 DEF Create, Update, Ended
  <2> QED BY <1>1, <2>1 DEF Idle, Running, AgreedCall, OverlapInv
<1>4. CASE AskRemoval \/ RemoveWithoutState
  BY <1>2, <1>4 DEF AskRemoval, RemoveWithoutState, objects, Relied
<1>5. ASSUME NEW c \in Calls, StartPostCheck(c) \/ StartRemove(c)
      PROVE  OverlapInv'
  <2>1. /\ call'[c].v = info /\ call'[c].pc \in {"ready", "vmc", "cluster"}
        /\ UNCHANGED <<info, outcome, fleet, pullSecret, namespace>>
        /\ \A d \in Calls \ {c} : call'[d] = call[d]
    BY <1>5, StartCall DEF OverlapInv, caller, objects
  <2>2. Relied /\ AgreedCall(c)'
    BY <2>1 DEF Relied, AgreedCall
  <2>3. \A d \in Calls \ {c} : AgreedCall(d)'
    BY <2>1, <2>2, AgreedStays
  <2> QED BY <1>1, <2>1, <2>2, <2>3 DEF OverlapInv
<1>6. ASSUME NEW c \in Calls, Work(c) \/ RequestFails(c)
      PROVE  OverlapInv'
  <2>1. info' = info /\ \A d \in Calls \ {c} : call'[d] = call[d]
    BY <1>1, <1>6, WorkMoves, GotoType, ReturnType DEF caller
  <2>2. Relied /\ AgreedCall(c)' /\ ((outcome' = "PostCheck" /\ info.uninstall) => fleet' = None)
    BY <1>6, OverlapWork
  <2>3. \A d \in Calls \ {c} : AgreedCall(d)'
    BY <2>1, <2>2, AgreedStays
  <2> QED BY <1>1, <2>1, <2>2, <2>3 DEF OverlapInv
<1>7. CASE RegisterVMC \/ FleetGone \/ ClusterGone \/ ClusterUp \/ ClusterDown
  <2>1. /\ UNCHANGED <<info, outcome, call, pullSecret, namespace>>
        /\ fleet' = fleet \/ fleet' = None
    BY <1>7 DEF RegisterVMC, FleetGone, ClusterGone, ClusterUp, ClusterDown, caller, objects
  <2> QED BY <1>2, <2>1 DEF Relied
<1>8. CASE UNCHANGED vars
  BY <1>2, <1>8 DEF vars, caller, objects, Relied
<1> QED BY <1>3, <1>4, <1>5, <1>6, <1>7, <1>8 DEF Next

LEMMA OverlapInit == ASSUME Init PROVE OverlapInv
BY FlagInit DEF Init, OverlapInv, AgreedCall, Running

\* However many PostChecks and Removes overlap, when one that was to uninstall
\* Verrazzano has reported success, no fleet is left and none is put again.  Its
\* registration is another matter: that takes one call at a time.
THEOREM UninstallTakesFleet ==
  Spec => []((outcome = "PostCheck" /\ info.uninstall) => fleet = None)
<1>1. OverlapInv => ((outcome = "PostCheck" /\ info.uninstall) => fleet = None)
  BY DEF OverlapInv
<1> QED BY <1>1, OverlapInit, OverlapStep, PTL DEF Spec

\* What a step does to the fleet's reference.
Refers == (fleet' # None /\ fleet'.refs /\ (fleet # None => ~fleet.refs)) => pullSecret

LEMMA RefersStep ==
  ASSUME OverlapInv, [Next]_vars
  PROVE  Refers
<1>1. CallType /\ ObjectType
  BY TypeParts DEF OverlapInv, FlagInv
<1>2. ASSUME fleet' = fleet \/ fleet' = None PROVE Refers
  BY <1>2 DEF Refers
<1>3. CASE \E o \in Options : Create(o) \/ Update(o)
  BY <1>2, <1>3 DEF Create, Update, objects
<1>4. CASE AskRemoval \/ RemoveWithoutState \/ RegisterVMC \/ FleetGone \/ ClusterGone
             \/ ClusterUp \/ ClusterDown \/ UNCHANGED vars
  BY <1>2, <1>4 DEF AskRemoval, RemoveWithoutState, RegisterVMC, FleetGone, ClusterGone,
     ClusterUp, ClusterDown, vars, objects
<1>5. ASSUME NEW c \in Calls, UpdateVerrazzano(c) PROVE Refers
  <2>1. call[c].v.create => pullSecret
    BY <1>5 DEF UpdateVerrazzano, OverlapInv, AgreedCall, At
  <2>2. call[c].v.create \in BOOLEAN
    BY <1>1, <1>5 DEF UpdateVerrazzano, At, Running, CallType, Frames, Flags
  <2>3. CASE ~call[c].v.resource
    BY <1>2, <1>5, <2>3 DEF UpdateVerrazzano
  <2>4. CASE call[c].v.resource /\ fleet = None
    <3>1. fleet' = [refs |-> call[c].v.create, dying |-> FALSE]
      BY <1>5, <2>4 DEF UpdateVerrazzano
    <3> QED BY <2>1, <3>1 DEF Refers
  <2>5. CASE call[c].v.resource /\ fleet # None
    <3>1. fleet \in Fleets /\ fleet' = [fleet EXCEPT !.refs = @ \/ call[c].v.create]
      BY <1>1, <1>5, <2>5 DEF UpdateVerrazzano, ObjectType
    <3>2. fleet'.refs => (fleet.refs \/ call[c].v.create)
      BY <3>1 DEF Fleets
    <3> QED BY <2>1, <2>5, <3>2 DEF Refers
  <2> QED BY <2>3, <2>4, <2>5
<1>6. ASSUME NEW c \in Calls, deleteVZ(c) PROVE Refers
  <2>1. CASE fleet = None
    BY <1>2, <1>6, <2>1 DEF deleteVZ
  <2>2. CASE fleet # None
    <3>1. fleet \in Fleets /\ fleet' = [fleet EXCEPT !.dying = TRUE]
      BY <1>1, <1>6, <2>2 DEF deleteVZ, ObjectType
    <3>2. fleet'.refs = fleet.refs
      BY <3>1 DEF Fleets
    <3> QED BY <2>2, <3>2 DEF Refers
  <2> QED BY <2>1, <2>2
<1>7. ASSUME NEW c \in Calls,
             \/ StartPostCheck(c) \/ StartRemove(c) \/ RequestFails(c) \/ CheckReady(c)
             \/ Connect(c) \/ CreateImagePullSecrets(c) \/ deleteVMC(c)
             \/ DeleteImagePullSecrets(c) \/ DeleteCluster(c) \/ DeleteNamespace(c)
      PROVE  Refers
  BY <1>2, <1>7 DEF StartPostCheck, StartRemove, RequestFails, CheckReady, Connect,
     CreateImagePullSecrets, deleteVMC, DeleteImagePullSecrets, DeleteCluster, DeleteNamespace, objects
<1> QED BY <1>3, <1>4, <1>5, <1>6, <1>7 DEF Next, Work

\* However many calls overlap, a fleet comes to refer to the pull secret only when
\* the secret is there.
THEOREM SecretComesFirst == Spec => SecretBeforeReference
<1>1. OverlapInv /\ [Next]_vars => Refers
  BY RefersStep
<1> QED BY <1>1, OverlapInit, OverlapStep, PTL DEF Spec, SecretBeforeReference, Refers
=============================================================================
