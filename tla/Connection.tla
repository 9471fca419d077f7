----------------------------- MODULE Connection -----------------------------
(***************************************************************************)
(* How PostCheck connects the caller to a managed cluster: the driver's    *)
(* clients for the admin cluster, kept in two global variables without a   *)
(* lock (k8s/client.go), the kubeconfig CAPI wrote, and the service        *)
(* account, token secret and role binding that generateServiceAccountToken *)
(* leaves in the managed cluster, one action per request.  What PostCheck  *)
(* does once connected is in module VerrazzanoAddon.                       *)
(*                                                                         *)
(* Any request may fail, the plugin may be killed, and a caller that gave  *)
(* up on a PostCheck may send the next one while the first still runs.     *)
(***************************************************************************)
EXTENDS Naturals

CONSTANTS
  Calls,        \* slots for PostChecks in progress at the same time
  None,         \* "no call"
  KeepOnError,  \* may the caller keep the info of a PostCheck that failed?
  MaxTrouble    \* bound: how many requests fail, kills, panics and outages there are

ASSUME FlagAssumption == KeepOnError \subseteq BOOLEAN
ASSUME TroubleAssumption == MaxTrouble \in Nat

VARIABLES
  token,      \* ServiceAccountToken in the info the caller keeps
  outcome,    \* how the caller's last PostCheck ended
  call,       \* what each slot is executing, or None
  client,     \* the cached clients for the admin cluster
  ready,      \* would IsCAPIClusterReady say yes?
  kubeconfig, \* the kubeconfig secret: absent, without or with a user's token
  account,    \* does the service account exist in the managed cluster?
  secret,     \* its token secret: absent, without or with the token
  bound,      \* does the cluster role binding exist?
  trouble     \* how much trouble there has been

caller == <<token, outcome>>
managed == <<account, secret, bound>>
world == <<ready, kubeconfig>>
vars == <<caller, call, client, world, managed, trouble>>

\* No token, the one of the kubeconfig's user, the service account's.
Tokens == {"", "user", "account"}

Clients == {"dynamic", "interface"}

Stages == Clients \cup {"ready", "kubeconfig", "account", "secret", "read", "bind", "look", "rest"}

\* A PostCheck in progress: its stage, its copy of the token, how far it is with
\* making a client, and whether the secret it read holds the token.
Frames == [at : Stages, token : Tokens, making : {"no", "made", "half"}, populated : BOOLEAN]

ASSUME NoneIsNoFrame == None \notin Frames

Running(c) == call[c] # None
At(c, s)   == Running(c) /\ call[c].at = s

Init ==
  /\ token = "" /\ outcome = "none"
  /\ call = [c \in Calls |-> None]
  /\ client = [x \in Clients |-> "nil"]
  /\ ready = FALSE /\ kubeconfig = "absent"
  /\ account = FALSE /\ secret = "absent" /\ bound = FALSE
  /\ trouble = 0

-----------------------------------------------------------------------------
StartPostCheck(c) ==
  /\ ~Running(c)
  /\ call' = [call EXCEPT ![c] = [at |-> "dynamic", token |-> token, making |-> "no",
                                  populated |-> FALSE]]
  /\ UNCHANGED <<caller, client, world, managed, trouble>>

\* PostCheck returns its info also with an error.
Return(c, ok, t) ==
  /\ call' = [call EXCEPT ![c] = None]
  /\ outcome' = IF ok THEN "connected" ELSE "failed"
  /\ \/ (ok \/ TRUE \in KeepOnError) /\ token' = t
     \/ ~ok /\ FALSE \in KeepOnError /\ token' = token

Goto(c, s) == call' = [call EXCEPT ![c].at = s] /\ UNCHANGED caller

\* The tokens an error may hand back: generateServiceAccountToken returns "" with
\* every error, and PostCheck assigns it before it looks at the error.  Before its
\* first request the client for the managed cluster may fail to be made.
TokensOnError(c) ==
  {t \in {call[c].token, ""} :
     \/ t = "" /\ call[c].at \in {"account", "secret", "read", "bind", "look"}
     \/ t = call[c].token /\ call[c].at \notin {"secret", "read", "bind", "look"}}

Fails(c) == \E t \in TokensOnError(c) : Return(c, FALSE, t)

Trouble == trouble < MaxTrouble /\ trouble' = trouble + 1

RequestFails(c) ==
  /\ Running(c) /\ Fails(c) /\ Trouble
  /\ UNCHANGED <<client, world, managed>>

\* The plugin process ends, and the clients it kept with it.
Killed ==
  /\ Trouble
  /\ call' = [c \in Calls |-> None] /\ client' = [x \in Clients |-> "nil"]
  /\ outcome' = "failed"
  /\ UNCHANGED <<token, world, managed>>

Crash == (\E c \in Calls : Running(c)) /\ Killed

-----------------------------------------------------------------------------
(* InjectedDynamic and InjectedInterface.  An interface variable is two    *)
(* words; a client is "torn" between the two writes of the goroutine that  *)
(* fills the cache.  Another goroutine may see the type without the value, *)
(* and panics when it uses the client, or not yet see the type.            *)

After(x) == IF x = "dynamic" THEN "interface" ELSE "ready"

Cached(c, x) ==
  /\ At(c, x) /\ call[c].making = "no" /\ client[x] = "whole"
  /\ Goto(c, After(x))
  /\ UNCHANGED <<client, world, managed, trouble>>

\* Variant: the client is used without being cached.
MakeOwnClient(c, x) ==
  /\ At(c, x) /\ call[c].making = "no" /\ client[x] # "whole"
  /\ Goto(c, After(x))
  /\ UNCHANGED <<client, world, managed, trouble>>

MakeClient(c, x) ==
  /\ At(c, x) /\ call[c].making = "no" /\ client[x] # "whole"
  /\ call' = [call EXCEPT ![c].making = "made"]
  /\ UNCHANGED <<caller, client, world, managed, trouble>>

Panic(c, x) ==
  /\ At(c, x) /\ call[c].making = "no" /\ client[x] = "torn"
  /\ Killed

\* A cache that is filled already stays whole: old and new value have one type.
CacheFirstWord(c, x) ==
  /\ At(c, x) /\ call[c].making = "made"
  /\ client' = [client EXCEPT ![x] = IF @ = "whole" THEN @ ELSE "torn"]
  /\ call' = [call EXCEPT ![c].making = "half"]
  /\ UNCHANGED <<caller, world, managed, trouble>>

CacheSecondWord(c, x) ==
  /\ At(c, x) /\ call[c].making = "half"
  /\ client' = [client EXCEPT ![x] = "whole"]
  /\ call' = [call EXCEPT ![c].making = "no", ![c].at = After(x)]
  /\ UNCHANGED <<caller, world, managed, trouble>>

Inject(c) ==
  \E x \in Clients : \/ Cached(c, x) \/ MakeClient(c, x) \/ Panic(c, x)
                     \/ CacheFirstWord(c, x) \/ CacheSecondWord(c, x)

-----------------------------------------------------------------------------
(* The admin cluster: the gate and the kubeconfig.                         *)

CheckReady(c) ==
  /\ At(c, "ready")
  /\ IF ready THEN Goto(c, "kubeconfig") ELSE Fails(c)
  /\ UNCHANGED <<client, world, managed, trouble>>

\* Variant: whatever the kubeconfig is taken for a token.
TakeKubeconfig(c) ==
  /\ At(c, "kubeconfig") /\ kubeconfig # "absent"
  /\ call' = [call EXCEPT ![c].at = "account", ![c].token = kubeconfig]
  /\ UNCHANGED <<caller, client, world, managed, trouble>>

\* The user's token serves until the service account's is there.
GetKubeconfig(c) ==
  /\ At(c, "kubeconfig")
  /\ IF kubeconfig = "absent" THEN Fails(c)
     ELSE /\ call' = [call EXCEPT ![c].at = "account",
                                  ![c].token = IF kubeconfig = "token" THEN "user" ELSE @]
          /\ UNCHANGED caller
  /\ UNCHANGED <<client, world, managed, trouble>>

-----------------------------------------------------------------------------
(* generateServiceAccountToken, in the managed cluster.  What exists       *)
(* already is left as it is.  The two reads of objects that are there (the *)
(* account after its Create, the binding after its Create) can only fail.  *)

CreateAccount(c) ==
  /\ At(c, "account")
  /\ account' = TRUE
  /\ Goto(c, "secret")
  /\ UNCHANGED <<client, world, secret, bound, trouble>>

\* Variant: a secret that exists is taken for an error.
CreateSecretOnce(c) ==
  /\ At(c, "secret")
  /\ secret' = IF secret = "absent" THEN "empty" ELSE secret
  /\ IF secret = "absent" THEN Goto(c, "read") ELSE Fails(c)
  /\ UNCHANGED <<client, world, account, bound, trouble>>

CreateSecret(c) ==
  /\ At(c, "secret")
  /\ secret' = IF secret = "absent" THEN "empty" ELSE secret
  /\ Goto(c, "read")
  /\ UNCHANGED <<client, world, account, bound, trouble>>

\* Ten seconds later, whether or not the token is in the secret by then.
ReadSecret(c) ==
  /\ At(c, "read")
  /\ call' = [call EXCEPT ![c].at = "bind", ![c].populated = (secret = "populated")]
  /\ UNCHANGED <<caller, client, world, managed, trouble>>

\* Variant: the binding is left out.
BindNothing(c) ==
  At(c, "bind") /\ Goto(c, "look") /\ UNCHANGED <<client, world, managed, trouble>>

Bind(c) ==
  /\ At(c, "bind")
  /\ bound' = TRUE
  /\ Goto(c, "look")
  /\ UNCHANGED <<client, world, account, secret, trouble>>

\* The token is taken from the secret as it was read before the binding was made.
TakeToken(c) ==
  /\ At(c, "look")
  /\ IF call[c].populated
     THEN call' = [call EXCEPT ![c].at = "rest", ![c].token = "account"] /\ UNCHANGED caller
     ELSE Fails(c)
  /\ UNCHANGED <<client, world, managed, trouble>>

\* The rest of PostCheck succeeds; its failures are RequestFails.
Finish(c) ==
  /\ At(c, "rest") /\ Return(c, TRUE, call[c].token)
  /\ UNCHANGED <<client, world, managed, trouble>>

-----------------------------------------------------------------------------
(* The controllers (external).                                             *)

PopulateSecret ==
  /\ secret = "empty" /\ account /\ secret' = "populated"
  /\ UNCHANGED <<caller, call, client, world, account, bound, trouble>>

ClusterUp ==
  /\ ~ready /\ ready' = TRUE
  /\ UNCHANGED <<caller, call, client, kubeconfig, managed, trouble>>

ClusterDown ==
  /\ ready /\ Trouble /\ ready' = FALSE
  /\ UNCHANGED <<caller, call, client, kubeconfig, managed>>

WriteKubeconfig ==
  /\ kubeconfig = "absent" /\ kubeconfig' \in {"plain", "token"}
  /\ UNCHANGED <<caller, call, client, ready, managed, trouble>>

-----------------------------------------------------------------------------
Work(c) ==
  \/ Inject(c) \/ CheckReady(c) \/ GetKubeconfig(c) \/ CreateAccount(c) \/ CreateSecret(c)
  \/ ReadSecret(c) \/ Bind(c) \/ TakeToken(c) \/ Finish(c)

Next ==
  \/ \E c \in Calls : StartPostCheck(c) \/ Work(c) \/ RequestFails(c)
  \/ Crash \/ PopulateSecret \/ ClusterUp \/ ClusterDown \/ WriteKubeconfig

Spec == Init /\ [][Next]_vars

\* The caller repeats PostCheck, the goroutines run, the controllers act.
FairSpec ==
  /\ Spec
  /\ \A c \in Calls : WF_vars(StartPostCheck(c)) /\ WF_vars(Work(c))
  /\ WF_vars(PopulateSecret) /\ WF_vars(ClusterUp) /\ WF_vars(WriteKubeconfig)

-----------------------------------------------------------------------------
(* Properties.                                                             *)

\* Every variable keeps its type.
TypeOK ==
  /\ token \in Tokens /\ outcome \in {"none", "failed", "connected"}
  /\ call \in [Calls -> Frames \cup {None}]
  /\ client \in [Clients -> {"nil", "torn", "whole"}]
  /\ ready \in BOOLEAN /\ kubeconfig \in {"absent", "plain", "token"}
  /\ account \in BOOLEAN /\ secret \in {"absent", "empty", "populated"} /\ bound \in BOOLEAN
  /\ trouble \in 0 .. MaxTrouble

\* A PostCheck that succeeded left the caller with the service account's own
\* token, and with that account bound to cluster-admin, however many PostChecks
\* overlapped, failed halfway or were cut off before.
ConnectedMeansUsable ==
  outcome = "connected" => token = "account" /\ secret = "populated" /\ account /\ bound

\* The cache race is confined to the first calls of a process: when one call got
\* past its clients, both are cached whole, and no later call can panic on them.
CacheSettles ==
  \A c \in Calls : (Running(c) /\ call[c].at \notin Clients) =>
    \A x \in Clients : client[x] = "whole"

\* Repeated PostChecks come to an end: once requests stop failing, the caller has
\* the service account's token for good, although every PostCheck waits for the
\* token controller only once, and finds objects that earlier ones left behind.
StaysConnected == <>[](token = "account")
=============================================================================
