------------------------- MODULE Connection_proofs -------------------------
(***************************************************************************)
(* What holds of PostCheck's connection to a managed cluster, for any      *)
(* number of overlapping PostChecks and any amount of trouble.             *)
(***************************************************************************)
EXTENDS Connection, TLAPS

(* What a PostCheck knows of the managed cluster at each stage: nothing    *)
(* that it or another one made there is ever taken away.                   *)

MadeBy(c) ==
  Running(c) =>
    /\ call[c].at \in {"secret", "read", "bind", "look", "rest"} => account
    /\ call[c].at \in {"look", "rest"} => bound
    /\ call[c].populated => secret = "populated"
    /\ call[c].at = "rest" => call[c].token = "account" /\ call[c].populated

Made == \A c \in Calls : MadeBy(c)

UsableInv == TypeOK /\ Made /\ ConnectedMeansUsable

(* The client of a stage is whole once a call is past that stage.          *)

PastClient(c) ==
  Running(c) =>
    /\ call[c].at # "dynamic" => client["dynamic"] = "whole"
    /\ call[c].at \notin Clients => client["interface"] = "whole"
    /\ call[c].making = "half" /\ call[c].at \in Clients => client[call[c].at] # "nil"

CacheInv == TypeOK /\ \A c \in Calls : PastClient(c)

-----------------------------------------------------------------------------
(* The type invariant.                                                     *)

\* What an error hands back is a token.
LEMMA ErrorTokens ==
  ASSUME TypeOK, NEW c \in Calls, Running(c)
  PROVE  TokensOnError(c) \subseteq Tokens
  BY DEF TypeOK, Running, TokensOnError, Frames, Tokens

LEMMA RunningFrame ==
  ASSUME TypeOK, NEW c \in Calls, Running(c)
  PROVE  call[c] \in Frames
  BY DEF TypeOK, Running

LEMMA ReturnType ==
  ASSUME TypeOK, NEW c \in Calls, NEW ok \in BOOLEAN, NEW t \in Tokens, Return(c, ok, t)
  PROVE  /\ token' \in Tokens /\ outcome' \in {"none", "failed", "connected"}
         /\ call' \in [Calls -> Frames \cup {None}]
  BY DEF TypeOK, Return

LEMMA FailsType ==
  ASSUME TypeOK, NEW c \in Calls, Running(c), Fails(c)
  PROVE  /\ token' \in Tokens /\ outcome' \in {"none", "failed", "connected"}
         /\ call' \in [Calls -> Frames \cup {None}]
  BY ErrorTokens, ReturnType DEF Fails

LEMMA FrameStep ==
  ASSUME TypeOK, NEW c \in Calls, Running(c), NEW f \in Frames, call' = [call EXCEPT ![c] = f]
  PROVE  call' \in [Calls -> Frames \cup {None}]
  BY DEF TypeOK

LEMMA GotoType ==
  ASSUME TypeOK, NEW c \in Calls, Running(c), NEW s \in Stages, Goto(c, s)
  PROVE  /\ call' \in [Calls -> Frames \cup {None}]
         /\ token' = token /\ outcome' = outcome
  <1>1. [call[c] EXCEPT !.at = s] \in Frames
    BY RunningFrame DEF Frames
  <1>2. call' = [call EXCEPT ![c] = [call[c] EXCEPT !.at = s]]
    BY DEF Goto
  <1> QED BY <1>1, <1>2, FrameStep DEF Goto, caller

\* A frame that moves on.
LEMMA FrameFields ==
  ASSUME NEW f \in Frames, NEW s \in Stages, NEW t \in Tokens,
         NEW m \in {"no", "made", "half"}, NEW b \in BOOLEAN
  PROVE  /\ [f EXCEPT !.at = s] \in Frames
         /\ [f EXCEPT !.making = m] \in Frames
         /\ [f EXCEPT !.making = m, !.at = s] \in Frames
         /\ [f EXCEPT !.at = s, !.token = t] \in Frames
         /\ [f EXCEPT !.at = s, !.populated = b] \in Frames
  BY DEF Frames

LEMMA InjectType ==
  ASSUME TypeOK, NEW c \in Calls, Running(c), NEW x \in Clients,
         \/ Cached(c, x) \/ MakeClient(c, x) \/ CacheFirstWord(c, x) \/ CacheSecondWord(c, x)
  PROVE  TypeOK'
  <1> After(x) \in Stages
    BY DEF After, Stages, Clients
  <1>1. CASE Cached(c, x)
    BY <1>1, GotoType DEF Cached, TypeOK, world, managed
  <1>2. CASE MakeClient(c, x)
    <2>1. [call[c] EXCEPT !.making = "made"] \in Frames
      BY RunningFrame, FrameFields DEF Stages, Tokens
    <2>2. call' = [call EXCEPT ![c] = [call[c] EXCEPT !.making = "made"]]
      BY <1>2 DEF MakeClient
    <2> QED BY <1>2, <2>1, <2>2, FrameStep DEF MakeClient, TypeOK, caller, world, managed
  <1>3. CASE CacheFirstWord(c, x)
    <2>1. [call[c] EXCEPT !.making = "half"] \in Frames
      BY RunningFrame, FrameFields DEF Stages, Tokens
    <2>2. call' = [call EXCEPT ![c] = [call[c] EXCEPT !.making = "half"]]
      BY <1>3 DEF CacheFirstWord
    <2> QED BY <1>3, <2>1, <2>2, FrameStep DEF CacheFirstWord, TypeOK, caller, world, managed
  <1>4. CASE CacheSecondWord(c, x)
    <2>1. [call[c] EXCEPT !.making = "no", !.at = After(x)] \in Frames
      BY RunningFrame, FrameFields DEF Tokens
    <2>2. call' = [call EXCEPT ![c] = [call[c] EXCEPT !.making = "no", !.at = After(x)]]
      BY <1>4 DEF CacheSecondWord
    <2> QED BY <1>4, <2>1, <2>2, FrameStep DEF CacheSecondWord, TypeOK, caller, world, managed
  <1> QED BY <1>1, <1>2, <1>3, <1>4

LEMMA KilledType ==
  ASSUME TypeOK, Killed
  PROVE  TypeOK'
  BY TroubleAssumption DEF TypeOK, Killed, Trouble, world, managed

LEMMA AdminType ==
  ASSUME TypeOK, NEW c \in Calls, CheckReady(c) \/ GetKubeconfig(c)
  PROVE  TypeOK'
  <1>1. CASE CheckReady(c)
    <2> Running(c)
      BY <1>1 DEF CheckReady, At
    <2>1. CASE ready
      BY <1>1, <2>1, GotoType DEF CheckReady, TypeOK, world, managed, Stages
    <2>2. CASE ~ready
      BY <1>1, <2>2, FailsType DEF CheckReady, TypeOK, world, managed
    <2> QED BY <2>1, <2>2
  <1>2. CASE GetKubeconfig(c)
    <2> Running(c)
      BY <1>2 DEF GetKubeconfig, At
    <2>1. CASE kubeconfig = "absent"
      BY <1>2, <2>1, FailsType DEF GetKubeconfig, TypeOK, world, managed
    <2>2. CASE kubeconfig # "absent"
      <3> DEFINE t == IF kubeconfig = "token" THEN "user" ELSE call[c].token
                 f == [call[c] EXCEPT !.at = "account", !.token = t]
      <3>1. t \in Tokens
        BY RunningFrame DEF Frames, Tokens
      <3>2. f \in Frames
        BY <3>1, RunningFrame, FrameFields DEF Stages
      <3>3. call' = [call EXCEPT ![c] = f]
        BY <1>2, <2>2 DEF GetKubeconfig
      <3> HIDE DEF f
      <3> QED BY <1>2, <2>2, <3>2, <3>3, FrameStep DEF GetKubeconfig, TypeOK, caller, world, managed
    <2> QED BY <2>1, <2>2
  <1> QED BY <1>1, <1>2

LEMMA AccountType ==
  ASSUME TypeOK, NEW c \in Calls, CreateAccount(c) \/ CreateSecret(c) \/ Bind(c)
  PROVE  TypeOK'
  <1> Running(c)
    BY DEF CreateAccount, CreateSecret, Bind, At
  <1> /\ "secret" \in Stages /\ "read" \in Stages /\ "look" \in Stages
    BY DEF Stages
  <1>1. CASE CreateAccount(c)
    BY <1>1, GotoType DEF CreateAccount, TypeOK, world
  <1>2. CASE CreateSecret(c)
    BY <1>2, GotoType DEF CreateSecret, TypeOK, world
  <1>3. CASE Bind(c)
    BY <1>3, GotoType DEF Bind, TypeOK, world
  <1> QED BY <1>1, <1>2, <1>3

LEMMA TokenType ==
  ASSUME TypeOK, NEW c \in Calls, ReadSecret(c) \/ TakeToken(c) \/ Finish(c)
  PROVE  TypeOK'
  <1> Running(c)
    BY DEF ReadSecret, TakeToken, Finish, At
  <1>1. CASE ReadSecret(c)
    <2> DEFINE f == [call[c] EXCEPT !.at = "bind", !.populated = (secret = "populated")]
    <2>1. f \in Frames
      BY RunningFrame, FrameFields DEF Stages, Tokens
    <2>2. call' = [call EXCEPT ![c] = f]
      BY <1>1 DEF ReadSecret
    <2> HIDE DEF f
    <2> QED BY <1>1, <2>1, <2>2, FrameStep DEF ReadSecret, TypeOK, caller, world, managed
  <1>2. CASE TakeToken(c) /\ call[c].populated
    <2> DEFINE f == [call[c] EXCEPT !.at = "rest", !.token = "account"]
    <2>1. f \in Frames
      BY RunningFrame, FrameFields DEF Stages, Tokens
    <2>2. call' = [call EXCEPT ![c] = f]
      BY <1>2 DEF TakeToken
    <2> HIDE DEF f
    <2> QED BY <1>2, <2>1, <2>2, FrameStep DEF TakeToken, TypeOK, caller, world, managed
  <1>3. CASE TakeToken(c) /\ ~call[c].populated
    BY <1>3, FailsType DEF TakeToken, TypeOK, world, managed
  <1>4. CASE Finish(c)
    <2>1. call[c].token \in Tokens
      BY RunningFrame DEF Frames
    <2> QED BY <1>4, <2>1, ReturnType DEF Finish, TypeOK, world, managed
  <1> QED BY <1>1, <1>2, <1>3, <1>4

LEMMA StepType ==
  ASSUME TypeOK, [Next]_vars
  PROVE  TypeOK'
  <1>1. ASSUME NEW c \in Calls, StartPostCheck(c) PROVE TypeOK'
    <2> DEFINE f == [at |-> "dynamic", token |-> token, making |-> "no", populated |-> FALSE]
    <2>1. f \in Frames
      BY DEF TypeOK, Frames, Stages, Clients
    <2>2. call' = [call EXCEPT ![c] = f]
      BY <1>1 DEF StartPostCheck
    <2> HIDE DEF f
    <2> QED BY <1>1, <2>1, <2>2 DEF StartPostCheck, TypeOK, caller, world, managed
  <1>2. ASSUME NEW c \in Calls, Work(c) PROVE TypeOK'
    <2>1. CASE Inject(c)
      BY <2>1, InjectType, KilledType DEF Inject, Cached, MakeClient, Panic, CacheFirstWord,
         CacheSecondWord, At
    <2> QED BY <1>2, <2>1, AdminType, AccountType, TokenType DEF Work
  <1>3. ASSUME NEW c \in Calls, RequestFails(c) PROVE TypeOK'
    BY <1>3, FailsType, TroubleAssumption DEF RequestFails, Trouble, TypeOK, world, managed
  <1>4. CASE Crash
    BY <1>4, KilledType DEF Crash
  <1>5. CASE PopulateSecret \/ WriteKubeconfig
    BY <1>5 DEF PopulateSecret, WriteKubeconfig, TypeOK, caller, world, managed
  <1>6. CASE ClusterUp \/ ClusterDown
    <2>1. trouble' \in 0 .. MaxTrouble
      BY <1>6, TroubleAssumption DEF ClusterUp, ClusterDown, Trouble, TypeOK
    <2>2. ready' \in BOOLEAN
      BY <1>6 DEF ClusterUp, ClusterDown
    <2> QED BY <1>6, <2>1, <2>2 DEF ClusterUp, ClusterDown, TypeOK, caller, managed
  <1>7. CASE UNCHANGED vars
    BY <1>7 DEF vars, TypeOK, caller, world, managed
  <1> QED BY <1>1, <1>2, <1>3, <1>4, <1>5, <1>6, <1>7 DEF Next

LEMMA InitType ==
  ASSUME Init
  PROVE  TypeOK
  <1>1. /\ call \in [Calls -> Frames \cup {None}]
        /\ client \in [Clients -> {"nil", "torn", "whole"}]
    BY DEF Init
  <1>2. ready \in BOOLEAN /\ account \in BOOLEAN /\ bound \in BOOLEAN
    BY Zenon DEF Init
  <1>3. trouble \in 0 .. MaxTrouble
    <2>1. trouble = 0
      BY Zenon DEF Init
    <2> QED BY <2>1, TroubleAssumption
  <1> QED BY <1>1, <1>2, <1>3 DEF Init, TypeOK, Tokens

\* The variables keep their types, for any number of overlapping PostChecks.
THEOREM Typing == Spec => []TypeOK
  BY InitType, StepType, PTL DEF Spec

-----------------------------------------------------------------------------
(* The client cache.                                                       *)

\* A frame that moved on, as its next value shows it.
LEMMA NextFrame ==
  ASSUME TypeOK, NEW c \in Calls, Running(c)
  PROVE  /\ call[c].at \in Stages /\ call[c].making \in {"no", "made", "half"}
         /\ call[c].token \in Tokens /\ call[c].populated \in BOOLEAN
  BY RunningFrame DEF Frames

\* A step that keeps what is whole whole, and the other calls as they are, keeps
\* what the others know of the cache.
LEMMA OthersPastClient ==
  ASSUME TypeOK, NEW c \in Calls, NEW d \in Calls, PastClient(d),
         c # d, call'[d] = call[d],
         \A x \in Clients : client[x] = "whole" => client'[x] = "whole",
         \A x \in Clients : client[x] # "nil" => client'[x] # "nil"
  PROVE  PastClient(d)'
  BY DEF PastClient, Running, Clients

\* Clients are never lost but with the process.
LEMMA ClientsStay ==
  ASSUME TypeOK, NEW c \in Calls, NEW x \in Clients,
         CacheFirstWord(c, x) \/ CacheSecondWord(c, x)
  PROVE  \A y \in Clients : /\ client[y] = "whole" => client'[y] = "whole"
                            /\ client[y] # "nil" => client'[y] # "nil"
  BY DEF CacheFirstWord, CacheSecondWord, TypeOK

LEMMA KilledCache ==
  ASSUME CacheInv, Killed
  PROVE  \A d \in Calls : PastClient(d)'
  BY DEF Killed, PastClient, Running

LEMMA FailsCache ==
  ASSUME CacheInv, NEW c \in Calls, Running(c), Fails(c), UNCHANGED client
  PROVE  \A d \in Calls : PastClient(d)'
  <1>1. call' = [call EXCEPT ![c] = None]
    BY DEF Fails, Return
  <1>2. PastClient(c)'
    BY <1>1 DEF CacheInv, TypeOK, PastClient, Running
  <1>3. ASSUME NEW d \in Calls, d # c PROVE PastClient(d)'
    <2>1. call'[d] = call[d]
      BY <1>1, <1>3 DEF CacheInv, TypeOK
    <2> QED BY <1>3, <2>1, OthersPastClient DEF CacheInv
  <1> QED BY <1>2, <1>3

\* A call past its clients that moves on past its clients.
LEMMA MovesOnCache ==
  ASSUME CacheInv, NEW c \in Calls, Running(c), call[c].at \notin Clients,
         NEW f \in Frames, f.at \notin Clients, call' = [call EXCEPT ![c] = f], UNCHANGED client
  PROVE  \A d \in Calls : PastClient(d)'
  <1>1. PastClient(c)'
    BY DEF CacheInv, TypeOK, PastClient, Running, Clients
  <1>2. ASSUME NEW d \in Calls, d # c PROVE PastClient(d)'
    <2>1. call'[d] = call[d]
      BY <1>2 DEF CacheInv, TypeOK
    <2> QED BY <1>2, <2>1, OthersPastClient DEF CacheInv
  <1> QED BY <1>1, <1>2

LEMMA GotoCache ==
  ASSUME CacheInv, NEW c \in Calls, Running(c), call[c].at \notin Clients,
         NEW s \in Stages \ Clients, Goto(c, s), UNCHANGED client
  PROVE  \A d \in Calls : PastClient(d)'
  <1>1. [call[c] EXCEPT !.at = s] \in Frames /\ [call[c] EXCEPT !.at = s].at = s
    BY RunningFrame DEF Frames, CacheInv
  <1>2. call' = [call EXCEPT ![c] = [call[c] EXCEPT !.at = s]]
    BY DEF Goto
  <1> QED BY <1>1, <1>2, MovesOnCache

\* Making a client and caching it.
LEMMA InjectCache ==
  ASSUME CacheInv, NEW c \in Calls, NEW x \in Clients,
         \/ Cached(c, x) \/ MakeClient(c, x) \/ CacheFirstWord(c, x) \/ CacheSecondWord(c, x)
  PROVE  \A d \in Calls : PastClient(d)'
  <1>1. PastClient(c)'
    <2>1. CASE Cached(c, x)
      BY <2>1, NextFrame DEF Cached, Goto, At, PastClient, Running, After, Clients, CacheInv, TypeOK
    <2>2. CASE MakeClient(c, x)
      BY <2>2, NextFrame DEF MakeClient, At, PastClient, Running, Clients, CacheInv, TypeOK
    <2>3. CASE CacheFirstWord(c, x)
      BY <2>3, NextFrame DEF CacheFirstWord, At, PastClient, Running, Clients, CacheInv, TypeOK
    <2>4. CASE CacheSecondWord(c, x)
      BY <2>4, NextFrame DEF CacheSecondWord, At, PastClient, Running, After, Clients, CacheInv, TypeOK
    <2> QED BY <2>1, <2>2, <2>3, <2>4
  <1>2. ASSUME NEW d \in Calls, d # c PROVE PastClient(d)'
    <2>1. call'[d] = call[d]
      BY <1>2 DEF Cached, MakeClient, CacheFirstWord, CacheSecondWord, Goto, CacheInv, TypeOK
    <2>2. \A y \in Clients : /\ client[y] = "whole" => client'[y] = "whole"
                             /\ client[y] # "nil" => client'[y] # "nil"
      BY ClientsStay DEF Cached, MakeClient, CacheInv
    <2> QED BY <1>2, <2>1, <2>2, OthersPastClient DEF CacheInv
  <1> QED BY <1>1, <1>2

\* The requests behind the clients.
LEMMA RequestsCache ==
  ASSUME CacheInv, NEW c \in Calls,
         \/ CheckReady(c) \/ GetKubeconfig(c) \/ CreateAccount(c) \/ CreateSecret(c)
         \/ ReadSecret(c) \/ Bind(c) \/ TakeToken(c) \/ Finish(c)
  PROVE  \A d \in Calls : PastClient(d)'
  <1> TypeOK /\ Running(c) /\ call[c].at \notin Clients /\ UNCHANGED client
    BY DEF CacheInv, CheckReady, GetKubeconfig, CreateAccount, CreateSecret, ReadSecret, Bind, TakeToken,
       Finish, At, Clients
  <1>1. CASE CheckReady(c)
    BY <1>1, GotoCache, FailsCache DEF CheckReady, Stages, Clients
  <1>2. CASE CreateAccount(c) \/ CreateSecret(c) \/ Bind(c)
    BY <1>2, GotoCache DEF CreateAccount, CreateSecret, Bind, Stages, Clients
  <1>3. CASE GetKubeconfig(c)
    <2>1. CASE kubeconfig = "absent"
      BY <1>3, <2>1, FailsCache DEF GetKubeconfig
    <2>2. CASE kubeconfig # "absent"
      <3> DEFINE t == IF kubeconfig = "token" THEN "user" ELSE call[c].token
                 f == [call[c] EXCEPT !.at = "account", !.token = t]
      <3>1. f \in Frames /\ f.at \notin Clients
        BY RunningFrame DEF Frames, Stages, Tokens, Clients
      <3>2. call' = [call EXCEPT ![c] = f]
        BY <1>3, <2>2 DEF GetKubeconfig
      <3> HIDE DEF f
      <3> QED BY <3>1, <3>2, MovesOnCache
    <2> QED BY <2>1, <2>2
  <1>4. CASE ReadSecret(c)
    <2> DEFINE f == [call[c] EXCEPT !.at = "bind", !.populated = (secret = "populated")]
    <2>1. f \in Frames /\ f.at \notin Clients
      BY RunningFrame DEF Frames, Stages, Clients
    <2>2. call' = [call EXCEPT ![c] = f]
      BY <1>4 DEF ReadSecret
    <2> HIDE DEF f
    <2> QED BY <2>1, <2>2, MovesOnCache
  <1>5. CASE TakeToken(c) /\ call[c].populated
    <2> DEFINE f == [call[c] EXCEPT !.at = "rest", !.token = "account"]
    <2>1. f \in Frames /\ f.at \notin Clients
      BY RunningFrame DEF Frames, Stages, Tokens, Clients
    <2>2. call' = [call EXCEPT ![c] = f]
      BY <1>5 DEF TakeToken
    <2> HIDE DEF f
    <2> QED BY <2>1, <2>2, MovesOnCache
  <1>6. CASE TakeToken(c) /\ ~call[c].populated
    BY <1>6, FailsCache DEF TakeToken
  <1>7. CASE Finish(c)
    <2>1. call' = [call EXCEPT ![c] = None]
      BY <1>7 DEF Finish, Return
    <2>2. PastClient(c)'
      BY <2>1 DEF TypeOK, PastClient, Running
    <2>3. ASSUME NEW d \in Calls, d # c PROVE PastClient(d)'
      BY <2>1, <2>3 DEF TypeOK, PastClient, Running, CacheInv
    <2> QED BY <2>2, <2>3
  <1> QED BY <1>1, <1>2, <1>3, <1>4, <1>5, <1>6, <1>7

LEMMA StepCache ==
  ASSUME CacheInv, [Next]_vars
  PROVE  CacheInv'
  <1> TypeOK'
    BY StepType DEF CacheInv
  <1> SUFFICES \A d \in Calls : PastClient(d)'
    BY DEF CacheInv
  <1>1. ASSUME NEW c \in Calls, StartPostCheck(c) PROVE \A d \in Calls : PastClient(d)'
    BY <1>1 DEF StartPostCheck, PastClient, Running, Clients, CacheInv, TypeOK
  <1>2. ASSUME NEW c \in Calls, Work(c) PROVE \A d \in Calls : PastClient(d)'
    <2>1. CASE Inject(c)
      BY <2>1, InjectCache, KilledCache DEF Inject, Panic
    <2> QED BY <1>2, <2>1, RequestsCache DEF Work
  <1>3. ASSUME NEW c \in Calls, RequestFails(c) PROVE \A d \in Calls : PastClient(d)'
    BY <1>3, FailsCache DEF RequestFails
  <1>4. CASE Crash
    BY <1>4, KilledCache DEF Crash
  <1>5. CASE PopulateSecret \/ ClusterUp \/ ClusterDown \/ WriteKubeconfig \/ UNCHANGED vars
    BY <1>5 DEF PopulateSecret, ClusterUp, ClusterDown, WriteKubeconfig, vars, PastClient, Running, CacheInv
  <1> QED BY <1>1, <1>2, <1>3, <1>4, <1>5 DEF Next

\* However many calls raced to fill the cache, a call that got past its clients
\* found or left both of them whole.
THEOREM Settling == Spec => []CacheSettles
  <1>1. Init => CacheInv
    BY InitType DEF Init, CacheInv, PastClient, Running
  <1>2. CacheInv /\ [Next]_vars => CacheInv'
    BY StepCache
  <1>3. CacheInv => CacheSettles
    BY NextFrame DEF CacheInv, PastClient, CacheSettles, Clients
  <1> QED BY <1>1, <1>2, <1>3, PTL DEF Spec

-----------------------------------------------------------------------------
(* The service account, its secret and its binding.                        *)

\* What was made in the managed cluster.
Kept ==
  /\ account => account'
  /\ bound => bound'
  /\ secret = "populated" => secret' = "populated"

LEMMA OthersMade ==
  ASSUME NEW d \in Calls, MadeBy(d), call'[d] = call[d], Kept
  PROVE  MadeBy(d)'
  BY DEF MadeBy, Running, Kept

LEMMA ConnectedKept ==
  ASSUME ConnectedMeansUsable, Kept, UNCHANGED caller
  PROVE  ConnectedMeansUsable'
  BY DEF ConnectedMeansUsable, Kept, caller

\* A step of one call that leaves the caller alone.
LEMMA CallMade ==
  ASSUME UsableInv, NEW c \in Calls, Kept, UNCHANGED caller, MadeBy(c)',
         NEW f \in Frames, call' = [call EXCEPT ![c] = f]
  PROVE  Made' /\ ConnectedMeansUsable'
  <1>1. ASSUME NEW d \in Calls, d # c PROVE MadeBy(d)'
    BY <1>1, OthersMade DEF UsableInv, Made, TypeOK
  <1> QED BY <1>1, ConnectedKept DEF Made, UsableInv

\* The end of a call, with an error or with the service account's token.
LEMMA ReturnMade ==
  ASSUME UsableInv, NEW c \in Calls, NEW ok \in BOOLEAN, NEW t \in Tokens, Return(c, ok, t), Kept,
         ok => t = "account" /\ secret = "populated" /\ account /\ bound
  PROVE  Made' /\ ConnectedMeansUsable'
  <1>1. MadeBy(c)'
    BY DEF Return, MadeBy, Running, UsableInv, TypeOK
  <1>2. ASSUME NEW d \in Calls, d # c PROVE MadeBy(d)'
    BY <1>2, OthersMade DEF Return, UsableInv, Made, TypeOK
  <1>3. ConnectedMeansUsable'
    BY DEF Return, ConnectedMeansUsable, Kept
  <1> QED BY <1>1, <1>2, <1>3 DEF Made

LEMMA FailsMade ==
  ASSUME UsableInv, NEW c \in Calls, Running(c), Fails(c), Kept
  PROVE  Made' /\ ConnectedMeansUsable'
  BY ErrorTokens, ReturnMade DEF Fails, UsableInv

LEMMA KilledMade ==
  ASSUME UsableInv, Killed
  PROVE  Made' /\ ConnectedMeansUsable'
  BY DEF Killed, Made, MadeBy, Running, ConnectedMeansUsable

LEMMA InjectMade ==
  ASSUME UsableInv, NEW c \in Calls, NEW x \in Clients,
         \/ Cached(c, x) \/ MakeClient(c, x) \/ CacheFirstWord(c, x) \/ CacheSecondWord(c, x)
  PROVE  Made' /\ ConnectedMeansUsable'
  <1> TypeOK /\ Running(c) /\ Kept /\ UNCHANGED caller
    BY DEF UsableInv, Cached, MakeClient, CacheFirstWord, CacheSecondWord, Goto, At, Kept, managed
  <1>1. ASSUME NEW d \in Calls, d # c PROVE MadeBy(d)'
    <2>1. call'[d] = call[d]
      BY <1>1 DEF Cached, MakeClient, CacheFirstWord, CacheSecondWord, Goto, TypeOK
    <2> QED BY <2>1, OthersMade DEF UsableInv, Made
  <1>2. MadeBy(c)'
    <2>0. x \in {"dynamic", "interface"} /\ After(x) \in {"interface", "ready"} /\ call[c].at = x
      BY DEF Clients, After, Cached, MakeClient, CacheFirstWord, CacheSecondWord, At
    <2>1. /\ call'[c].at \in {"dynamic", "interface", "ready"}
          /\ call'[c].populated = call[c].populated
      <3>1. CASE Cached(c, x)
        BY <2>0, <3>1, RunningFrame DEF Cached, Goto, TypeOK, Frames
      <3>2. CASE MakeClient(c, x)
        BY <2>0, <3>2, RunningFrame DEF MakeClient, TypeOK, Frames
      <3>3. CASE CacheFirstWord(c, x)
        BY <2>0, <3>3, RunningFrame DEF CacheFirstWord, TypeOK, Frames
      <3>4. CASE CacheSecondWord(c, x)
        BY <2>0, <3>4, RunningFrame DEF CacheSecondWord, TypeOK, Frames
      <3> QED BY <3>1, <3>2, <3>3, <3>4
    <2> QED BY <2>1 DEF MadeBy, UsableInv, Made, Kept
  <1> QED BY <1>1, <1>2, ConnectedKept DEF Made, UsableInv

LEMMA AdminMade ==
  ASSUME UsableInv, NEW c \in Calls, CheckReady(c) \/ GetKubeconfig(c)
  PROVE  Made' /\ ConnectedMeansUsable'
  <1> TypeOK /\ Running(c) /\ MadeBy(c) /\ Kept
    BY DEF UsableInv, Made, CheckReady, GetKubeconfig, At, Kept, managed
  <1>1. CASE CheckReady(c) /\ ready
    <2> DEFINE f == [call[c] EXCEPT !.at = "kubeconfig"]
    <2>1. /\ f \in Frames /\ f.at = "kubeconfig" /\ f.populated = call[c].populated
      BY RunningFrame DEF Frames, Stages
    <2>2. call' = [call EXCEPT ![c] = f] /\ UNCHANGED caller
      BY <1>1 DEF CheckReady, Goto
    <2> HIDE DEF f
    <2>3. MadeBy(c)'
      BY <2>1, <2>2 DEF MadeBy, Running, Kept, TypeOK
    <2> QED BY <2>1, <2>2, <2>3, CallMade
  <1>2. CASE CheckReady(c) /\ ~ready
    BY <1>2, FailsMade DEF CheckReady
  <1>3. CASE GetKubeconfig(c) /\ kubeconfig = "absent"
    BY <1>3, FailsMade DEF GetKubeconfig
  <1>4. CASE GetKubeconfig(c) /\ kubeconfig # "absent"
    <2> DEFINE t == IF kubeconfig = "token" THEN "user" ELSE call[c].token
               f == [call[c] EXCEPT !.at = "account", !.token = t]
    <2>1. /\ f \in Frames /\ f.at = "account" /\ f.populated = call[c].populated
      BY RunningFrame DEF Frames, Stages, Tokens
    <2>2. call' = [call EXCEPT ![c] = f] /\ UNCHANGED caller
      BY <1>4 DEF GetKubeconfig
    <2> HIDE DEF f
    <2>3. MadeBy(c)'
      BY <2>1, <2>2 DEF MadeBy, Running, Kept, TypeOK
    <2> QED BY <2>1, <2>2, <2>3, CallMade
  <1> QED BY <1>1, <1>2, <1>3, <1>4

\* A call that goes from one stage to the next with what the next one needs.
LEMMA GotoMade ==
  ASSUME UsableInv, NEW c \in Calls, Running(c), Kept, NEW s \in Stages \ {"rest"}, Goto(c, s),
         s \in {"secret", "read", "bind", "look"} => account',
         s = "look" => bound'
  PROVE  Made' /\ ConnectedMeansUsable'
  <1> DEFINE f == [call[c] EXCEPT !.at = s]
  <1>1. f \in Frames /\ f.at = s /\ f.populated = call[c].populated
    BY RunningFrame DEF Frames, UsableInv
  <1>2. call' = [call EXCEPT ![c] = f] /\ UNCHANGED caller
    BY DEF Goto
  <1> HIDE DEF f
  <1>3. MadeBy(c)'
    BY <1>1, <1>2 DEF MadeBy, Made, Running, Kept, UsableInv, TypeOK
  <1> QED BY <1>1, <1>2, <1>3, CallMade

LEMMA AccountMade ==
  ASSUME UsableInv, NEW c \in Calls, CreateAccount(c) \/ CreateSecret(c) \/ Bind(c)
  PROVE  Made' /\ ConnectedMeansUsable'
  <1> Running(c) /\ MadeBy(c)
    BY DEF UsableInv, Made, CreateAccount, CreateSecret, Bind, At
  <1>1. CASE CreateAccount(c)
    <2> account' /\ Kept /\ Goto(c, "secret")
      BY <1>1 DEF CreateAccount, Kept
    <2> QED BY GotoMade DEF Stages
  <1>2. CASE CreateSecret(c)
    <2> account' /\ Kept /\ Goto(c, "read")
      BY <1>2 DEF CreateSecret, Kept, At, MadeBy
    <2> QED BY GotoMade DEF Stages
  <1>3. CASE Bind(c)
    <2> account' /\ bound' /\ Kept /\ Goto(c, "look")
      BY <1>3 DEF Bind, Kept, At, MadeBy
    <2> QED BY GotoMade DEF Stages
  <1> QED BY <1>1, <1>2, <1>3

LEMMA TokenMade ==
  ASSUME UsableInv, NEW c \in Calls, ReadSecret(c) \/ TakeToken(c) \/ Finish(c)
  PROVE  Made' /\ ConnectedMeansUsable'
  <1> TypeOK /\ Running(c) /\ MadeBy(c)
    BY DEF UsableInv, Made, ReadSecret, TakeToken, Finish, At
  <1> UNCHANGED managed
    BY DEF ReadSecret, TakeToken, Finish
  <1> Kept
    BY DEF Kept, managed
  <1>1. CASE ReadSecret(c)
    <2> DEFINE p == (secret = "populated")
               f == [call[c] EXCEPT !.at = "bind", !.populated = p]
    <2>1. f \in Frames /\ f.at = "bind" /\ (f.populated => secret = "populated")
      BY RunningFrame DEF Frames, Stages
    <2>2. call' = [call EXCEPT ![c] = f] /\ UNCHANGED caller
      BY <1>1 DEF ReadSecret
    <2>3. account /\ UNCHANGED managed
      BY <1>1 DEF ReadSecret, At, MadeBy
    <2> HIDE DEF f
    <2>4. call'[c] = f /\ account' /\ secret' = secret
      BY <2>2, <2>3 DEF TypeOK, managed
    <2>5. MadeBy(c)'
      BY <2>1, <2>4 DEF MadeBy
    <2> QED BY <2>1, <2>2, <2>5, CallMade
  <1>2. CASE TakeToken(c) /\ call[c].populated
    <2> DEFINE f == [call[c] EXCEPT !.at = "rest", !.token = "account"]
    <2>1. f \in Frames /\ f.at = "rest" /\ f.token = "account" /\ f.populated
      BY <1>2, RunningFrame DEF Frames, Stages, Tokens
    <2>2. call' = [call EXCEPT ![c] = f] /\ UNCHANGED caller
      BY <1>2 DEF TakeToken
    <2>3. account /\ bound /\ secret = "populated"
      BY <1>2 DEF TakeToken, At, MadeBy
    <2> HIDE DEF f
    <2>4. MadeBy(c)'
      BY <2>1, <2>2, <2>3 DEF MadeBy, Running, TypeOK, Kept
    <2> QED BY <2>1, <2>2, <2>4, CallMade
  <1>3. CASE TakeToken(c) /\ ~call[c].populated
    BY <1>3, FailsMade DEF TakeToken
  <1>4. CASE Finish(c)
    <2>1. call[c].token \in Tokens
      BY NextFrame
    <2>2. /\ call[c].token = "account" /\ secret = "populated" /\ account /\ bound
          /\ Return(c, TRUE, call[c].token)
      BY <1>4 DEF Finish, At, MadeBy
    <2> QED BY <2>1, <2>2, ReturnMade
  <1> QED BY <1>1, <1>2, <1>3, <1>4

LEMMA StepUsable ==
  ASSUME UsableInv, [Next]_vars
  PROVE  UsableInv'
  <1> TypeOK /\ TypeOK'
    BY StepType DEF UsableInv
  <1> SUFFICES Made' /\ ConnectedMeansUsable'
    BY DEF UsableInv
  <1>1. ASSUME NEW c \in Calls, StartPostCheck(c) PROVE Made' /\ ConnectedMeansUsable'
    <2> DEFINE f == [at |-> "dynamic", token |-> token, making |-> "no", populated |-> FALSE]
    <2>1. f \in Frames /\ f.at = "dynamic" /\ ~f.populated
      BY DEF TypeOK, Frames, Stages, Clients
    <2>2. call' = [call EXCEPT ![c] = f] /\ UNCHANGED caller /\ Kept
      BY <1>1 DEF StartPostCheck, Kept, managed
    <2> HIDE DEF f
    <2>3. MadeBy(c)'
      BY <2>1, <2>2 DEF MadeBy, Running, TypeOK
    <2> QED BY <2>1, <2>2, <2>3, CallMade
  <1>2. ASSUME NEW c \in Calls, Work(c) PROVE Made' /\ ConnectedMeansUsable'
    <2>1. CASE Inject(c)
      BY <2>1, InjectMade, KilledMade DEF Inject, Panic
    <2> QED BY <1>2, <2>1, AdminMade, AccountMade, TokenMade DEF Work
  <1>3. ASSUME NEW c \in Calls, RequestFails(c) PROVE Made' /\ ConnectedMeansUsable'
    BY <1>3, FailsMade DEF RequestFails, Kept, managed
  <1>4. CASE Crash
    BY <1>4, KilledMade DEF Crash
  <1>5. CASE PopulateSecret \/ ClusterUp \/ ClusterDown \/ WriteKubeconfig \/ UNCHANGED vars
    <2>1. Kept /\ UNCHANGED caller /\ UNCHANGED call
      BY <1>5 DEF PopulateSecret, ClusterUp, ClusterDown, WriteKubeconfig, vars, managed, Kept
    <2> QED BY <2>1, OthersMade, ConnectedKept DEF UsableInv, Made
  <1> QED BY <1>1, <1>2, <1>3, <1>4, <1>5 DEF Next

\* A PostCheck that succeeds hands back the token of a service account that exists
\* and is bound, whatever overlapped with it, failed or was cut off before it.
THEOREM Usability == Spec => []ConnectedMeansUsable
  <1>1. Init => UsableInv
    BY InitType DEF Init, UsableInv, Made, MadeBy, Running, ConnectedMeansUsable
  <1>2. UsableInv /\ [Next]_vars => UsableInv'
    BY StepUsable
  <1>3. UsableInv => ConnectedMeansUsable
    BY DEF UsableInv
  <1> QED BY <1>1, <1>2, <1>3, PTL DEF Spec

=============================================================================
