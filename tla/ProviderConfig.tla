---------------------------- MODULE ProviderConfig ----------------------------
(***************************************************************************)
(* How resources come by a client for NiFi, and what keeps the             *)
(* configuration they read while they need it.  Each reconcile of a        *)
(* resource begins with Connect: it records that the resource uses the     *)
(* configuration, reads it, and makes a client of its credentials.  A      *)
(* controller of the configuration counts those records, and lets a        *)
(* deleted configuration go when it counts none.                           *)
(*                                                                         *)
(* A resource is deleted by calls to NiFi: without its configuration it    *)
(* stays.  The rest of its reconcile, which ManagedReconciler is about, is *)
(* here one step that adds the finalizer or, at the end, removes it.       *)
(***************************************************************************)
EXTENDS Naturals, FiniteSets

CONSTANTS
  Users,              \* the resources that refer to the configuration
  Kind,               \* the kind of configuration they refer to
  Secrets,            \* what the secret with the credentials may hold
  NoSecret,           \* a secret that is not there
  MaxDisturbances     \* bound: crashes, failed calls, secrets and configurations written

Kinds == {"ProviderConfig", "ClusterProviderConfig"}
UsageKinds == {"ProviderConfigUsage", "ClusterProviderConfigUsage"}

\* The credentials: a URL or none, a token or none, a user with a password.
NiFiConfigs == [url : BOOLEAN, token : {"none", "valid", "expired"},
                login : {"none", "right", "wrong"}]

ASSUME UsersAssumption == IsFiniteSet(Users)
ASSUME KindAssumption == Kind \in Kinds
ASSUME SecretsAssumption == NoSecret \notin NiFiConfigs /\ Secrets \subseteq NiFiConfigs \cup {NoSecret}
ASSUME DisturbancesAssumption == MaxDisturbances \in Nat

VARIABLES
  config,             \* the configuration as the API server stores it
  configCache,        \* as the provider's informer last saw it
  cacheFresh,         \* whether that is the stored one
  usages,             \* the resources with a usage of each kind
  usageCache,         \* the same as the informers last saw it
  life,               \* how far each resource has got
  finalizer,          \* whether it has the provider's finalizer
  wpc,                \* where the reconcile of each resource is
  copy, fresh,        \* what the config controller works on, and whether it is stored
  listed,             \* the users it counted
  cfgpc,              \* where it is
  secret,             \* what the secret holds
  heard,              \* not in the code: the users known when it was deleted
  disturbances        \* how much of MaxDisturbances is spent

stored == <<config, configCache, cacheFresh>>
resources == <<life, finalizer>>
controller == <<copy, fresh, listed, cfgpc>>
cfgvars == <<stored, usages, usageCache, resources, wpc, controller, secret, heard, disturbances>>

Configs == [exists : BOOLEAN, deleting : BOOLEAN, finalizer : BOOLEAN,
            users : 0 .. Cardinality(Users)]
NoConfig == [exists |-> FALSE, deleting |-> FALSE, finalizer |-> FALSE, users |-> 0]
NewConfig == [NoConfig EXCEPT !.exists = TRUE]

ConfigTypeOK ==
  /\ {config, configCache, copy} \subseteq Configs
  /\ {cacheFresh, fresh} \subseteq BOOLEAN
  /\ {usages, usageCache} \subseteq [UsageKinds -> SUBSET Users]
  /\ life \in [Users -> {"live", "deleting", "gone"}]
  /\ finalizer \in [Users -> BOOLEAN]
  /\ wpc \in [Users -> {"idle", "track", "get", "connected"}]
  /\ listed \in 0 .. Cardinality(Users)
  /\ cfgpc \in {"idle", "list", "decide"}
  /\ secret \in Secrets
  /\ heard \subseteq Users
  /\ disturbances \in 0 .. MaxDisturbances

\* What NiFi takes: a valid token, or a password and no token that hides it.
Sufficient(s) == /\ s # NoSecret
                 /\ s.url
                 /\ s.token = "valid" \/ (s.token = "none" /\ s.login = "right")

\* A resource that is reconciled late stands for one that is written late.
Init ==
  /\ config = NewConfig
  /\ configCache = NewConfig
  /\ cacheFresh = TRUE
  /\ usages = [k \in UsageKinds |-> {}]
  /\ usageCache = usages
  /\ life = [r \in Users |-> "live"]
  /\ finalizer = [r \in Users |-> FALSE]
  /\ wpc = [r \in Users |-> "idle"]
  /\ copy = NoConfig
  /\ fresh = FALSE
  /\ listed = 0
  /\ cfgpc = "idle"
  /\ secret \in {s \in Secrets : Sufficient(s)}
  /\ heard = {}
  /\ disturbances = 0

-----------------------------------------------------------------------------

Disturb == /\ disturbances < MaxDisturbances
           /\ disturbances' = disturbances + 1

WorkerAt(r, step) == wpc' = [wpc EXCEPT ![r] = step]

\* Somebody else than the controller wrote the configuration.
StoreConfig(new) == /\ config' = new
                    /\ cacheFresh' = FALSE
                    /\ fresh' = FALSE

\* The usage that every Setup makes its tracker of, whatever the kind of the
\* configuration a resource refers to.
TrackedKind == "ProviderConfigUsage"

\* The usages that the controller of a kind of configuration counts.
UsageKind(kind) ==
  IF kind = "ProviderConfig" THEN "ProviderConfigUsage" ELSE "ClusterProviderConfigUsage"

-----------------------------------------------------------------------------
(* Connect: the beginning of a reconcile of resource r *)

Begin(r) ==
  /\ wpc[r] = "idle"
  /\ life[r] \in {"live", "deleting"}
  /\ WorkerAt(r, "track")
  /\ UNCHANGED <<stored, usages, usageCache, resources, controller, secret, heard, disturbances>>

\* (mutant of TrackFails: an error of the tracker is passed over)
TrackErrorIgnored(r) == wpc[r] = "track" /\ Disturb /\ WorkerAt(r, "get")

TrackFails(r) == wpc[r] = "track" /\ Disturb /\ WorkerAt(r, "idle")

\* The resource has a usage from now on, even if it went away meanwhile.
Track(r) ==
  /\ \/ /\ wpc[r] = "track"
        /\ WorkerAt(r, "get")
        /\ usages' = [usages EXCEPT ![TrackedKind] = @ \cup {r}]
        /\ UNCHANGED disturbances
     \/ TrackFails(r) /\ UNCHANGED usages
  /\ UNCHANGED <<stored, usageCache, resources, controller, secret, heard>>

\* (mutant of Token: a login is only tried where there is no password)
TokenGiven(s) == s.token

\* What a login buys: a token, or an error.
FetchAccessToken(login) == IF login = "right" THEN "valid" ELSE "none"

\* The token a client sends: the one given, be it expired, or else one that
\* the user's login buys, at every Connect anew.
Token(s) == IF s.token # "none" THEN s.token ELSE FetchAccessToken(s.login)

\* The client is made, and NiFi accepts the first call that carries its token.
Connects(s) == s # NoSecret /\ s.url /\ Token(s) = "valid"

\* The configuration is read, being deleted or not, and a client made of its
\* credentials.
GetNiFiClient(r) ==
  /\ wpc[r] = "get"
  /\ WorkerAt(r, IF configCache.exists /\ Connects(secret) THEN "connected" ELSE "idle")
  /\ UNCHANGED <<stored, usages, usageCache, resources, controller, secret, heard, disturbances>>

\* The rest of the reconcile; the component of a resource being deleted goes.
Reconciled(r) ==
  /\ wpc[r] = "connected"
  /\ WorkerAt(r, "idle")
  /\ finalizer' = [finalizer EXCEPT ![r] = life[r] = "live"]
  /\ life' = [life EXCEPT ![r] = IF @ = "deleting" THEN "gone" ELSE @]
  /\ heard' = IF life[r] = "deleting" THEN heard \ {r} ELSE heard
  /\ UNCHANGED <<stored, usages, usageCache, controller, secret, disturbances>>

WorkerCrash(r) ==
  /\ wpc[r] # "idle"
  /\ Disturb
  /\ WorkerAt(r, "idle")
  /\ UNCHANGED <<stored, usages, usageCache, resources, controller, secret, heard>>

Worker(r) == Begin(r) \/ Track(r) \/ GetNiFiClient(r) \/ Reconciled(r)

-----------------------------------------------------------------------------
(* The controller of the configuration *)

Unchanged == UNCHANGED <<usages, usageCache, resources, wpc, secret, heard, disturbances>>

ReadConfig ==
  /\ cfgpc = "idle"
  /\ configCache.exists
  /\ copy' = configCache
  /\ fresh' = cacheFresh
  /\ cfgpc' = "list"
  /\ UNCHANGED <<stored, listed>>
  /\ Unchanged

\* (mutant of Counted: the count of the status, of an earlier reconcile, will do)
CountedBefore(seen) == copy.users

\* (mutant of Counted: the count never goes down)
MostCounted(seen) == LET count == Cardinality(seen[UsageKind(Kind)])
                     IN  IF count < copy.users THEN copy.users ELSE count

Counted(seen) == Cardinality(seen[UsageKind(Kind)])

ListUsages ==
  /\ cfgpc = "list"
  /\ listed' = Counted(usageCache)
  /\ cfgpc' = "decide"
  /\ UNCHANGED <<stored, copy, fresh>>
  /\ Unchanged

\* The reconcile ends.
Settled == /\ cfgpc' = "idle"
           /\ copy' = NoConfig
           /\ fresh' = FALSE
           /\ listed' = 0

\* What the controller writes, if its copy is the stored one.
ReleaseDue == copy.deleting /\ listed = 0
FinalizerDue == ~copy.deleting /\ ~copy.finalizer
StatusDue == copy.users # listed /\ ~ReleaseDue /\ ~FinalizerDue

\* Nobody counts on it: the finalizer goes, and the configuration with it.
Release ==
  /\ cfgpc = "decide" /\ ReleaseDue /\ fresh
  /\ config' = NoConfig
  /\ cacheFresh' = FALSE
  /\ Settled
  /\ UNCHANGED configCache
  /\ Unchanged

\* The finalizer is added, and the reconcile goes on.
AddFinalizer ==
  /\ cfgpc = "decide" /\ FinalizerDue /\ fresh
  /\ config' = [copy EXCEPT !.finalizer = TRUE]
  /\ copy' = config'
  /\ cacheFresh' = FALSE
  /\ UNCHANGED <<configCache, fresh, listed, cfgpc>>
  /\ Unchanged

\* (mutant of Reported: a count that went down is not shown)
NeverLess(n) == IF n > copy.users THEN n ELSE copy.users

\* The users that the status shows.
Reported(n) == n

ReportUsers ==
  /\ cfgpc = "decide" /\ StatusDue /\ fresh
  /\ config' = [copy EXCEPT !.users = Reported(listed)]
  /\ cacheFresh' = FALSE
  /\ Settled
  /\ UNCHANGED configCache
  /\ Unchanged

\* There is nothing to write, or the API server refuses it from an old copy.
WriteNothing ==
  /\ cfgpc = "decide"
  /\ (ReleaseDue \/ FinalizerDue \/ StatusDue) => ~fresh
  /\ Settled
  /\ UNCHANGED stored
  /\ Unchanged

ConfigController ==
  ReadConfig \/ ListUsages \/ Release \/ AddFinalizer \/ ReportUsers \/ WriteNothing

ControllerCrash ==
  /\ cfgpc # "idle"
  /\ Disturb
  /\ Settled
  /\ UNCHANGED <<stored, usages, usageCache, resources, wpc, secret, heard>>

-----------------------------------------------------------------------------
(* The API server and the users *)

DeliverConfig ==
  /\ ~cacheFresh
  /\ configCache' = config
  /\ cacheFresh' = TRUE
  /\ UNCHANGED <<config, controller>>
  /\ Unchanged

DeliverUsages ==
  /\ usageCache # usages
  /\ usageCache' = usages
  /\ UNCHANGED <<stored, usages, resources, wpc, controller, secret, heard, disturbances>>

\* The usage of a resource that is gone goes after it.
Collect(r) ==
  /\ life[r] = "gone"
  /\ \E k \in UsageKinds : r \in usages[k]
  /\ usages' = [k \in UsageKinds |-> usages[k] \ {r}]
  /\ UNCHANGED <<stored, usageCache, resources, wpc, controller, secret, heard, disturbances>>

DeleteResource(r) ==
  /\ life[r] = "live"
  /\ life' = [life EXCEPT ![r] = IF finalizer[r] THEN "deleting" ELSE "gone"]
  /\ UNCHANGED <<stored, usages, usageCache, finalizer, wpc, controller, secret, heard, disturbances>>

\* A resource with a finalizer may have a component to remove, and needs the
\* configuration for it.  The controller will look for its usage only where the
\* configuration has a finalizer, and find it only in its informer's cache: a
\* usage that is recorded, but still on its way there, may come too late.
DeleteConfig ==
  /\ config.exists /\ ~config.deleting
  /\ StoreConfig(IF config.finalizer THEN [config EXCEPT !.deleting = TRUE] ELSE NoConfig)
  /\ heard' = { r \in Users : config.finalizer /\ finalizer[r]
                                /\ r \in usageCache[TrackedKind] }
  /\ UNCHANGED <<configCache, usages, usageCache, resources, wpc, copy, listed, cfgpc,
                 secret, disturbances>>

CreateConfig ==
  /\ ~config.exists
  /\ Disturb
  /\ StoreConfig(NewConfig)
  /\ heard' = {}
  /\ UNCHANGED <<configCache, usages, usageCache, resources, wpc, copy, listed, cfgpc, secret>>

WriteSecret ==
  /\ Disturb
  /\ secret' \in Secrets \ {secret}
  /\ UNCHANGED <<stored, usages, usageCache, resources, wpc, controller, heard>>

Next ==
  \/ \E r \in Users : Worker(r) \/ WorkerCrash(r) \/ Collect(r)
  \/ ConfigController \/ ControllerCrash
  \/ DeliverConfig \/ DeliverUsages
  \/ \E r \in Users : DeleteResource(r)
  \/ DeleteConfig \/ CreateConfig \/ WriteSecret

Spec == Init /\ [][Next]_cfgvars

\* The workers, the informers and the garbage collector keep going.
FairSpec == /\ Spec
            /\ \A r \in Users : WF_cfgvars(Worker(r)) /\ WF_cfgvars(Collect(r))
            /\ WF_cfgvars(ConfigController)
            /\ WF_cfgvars(DeliverConfig) /\ WF_cfgvars(DeliverUsages)

-----------------------------------------------------------------------------

\* A configuration that has its finalizer when it is deleted stays until the
\* resources are gone whose usages had reached its controller by then, however
\* the deletion falls between the controller's steps.  A resource whose usage
\* was recorded but had not reached the controller is not protected: the
\* configuration may go although that resource has a component to remove.
UsersKeepConfig == config.exists \/ heard = {}

\* A configuration that is deleted goes, unless resources use it again and again.
ConfigGoes ==
  []<>(~(config.exists /\ config.deleting) \/ usages[TrackedKind] # {})

\* A resource that is deleted goes, unless the configuration is away, or the
\* secret insufficient, again and again.
ResourceGoes ==
  \A r \in Users : []<>(life[r] # "deleting" \/ ~config.exists \/ ~Sufficient(secret))

\* In the end the status shows how many resources use the configuration.
UsersReported == <>[](config.exists => config.users = Cardinality(usages[UsageKind(Kind)]))

-----------------------------------------------------------------------------
(* Why it holds: the parts of the inductive invariant *)

\* A copy taken for the stored configuration is the stored configuration.
CopiesTrue == /\ cacheFresh => configCache = config
              /\ fresh => copy = config

\* A usage is recorded before there can be anything to remove from NiFi.
TrackedFirst ==
  \A r \in Users : finalizer[r] \/ (wpc[r] \in {"get", "connected"} /\ life[r] # "gone")
                    => life[r] # "gone" /\ r \in usages[TrackedKind]

\* The controller has heard of who may count on the configuration,
HeardSeen == \A r \in heard : finalizer[r] /\ r \in usageCache[TrackedKind]

\* and counts them after it has read that the configuration is deleted.
HeardCounted == cfgpc = "decide" /\ listed = 0 /\ fresh => heard = {}

\* All of it together is preserved by every step, whatever the users.
ConfigInv == /\ ConfigTypeOK
             /\ CopiesTrue
             /\ TrackedFirst
             /\ HeardSeen
             /\ HeardCounted
             /\ UsersKeepConfig
=============================================================================
