----------------------------- MODULE IceConfig -----------------------------
(***************************************************************************)
(* How the ICE servers reach the sessions of the KVS peer connection       *)
(* client: app_webrtc_trigger_progressive_ice() (app_webrtc.c) asks the    *)
(* signaling for the first server just before a session is created, the    *)
(* signaling schedules a task on the work queue that fetches or re-applies *)
(* the full set, and kvs_pc_set_ice_servers() (kvs_webrtc.c) installs a    *)
(* set in the client and pushes its TURN servers to the sessions in        *)
(* activeSessions.  Two tasks do this at once: the one that handles        *)
(* messages ("msg") and the work queue's ("work").                         *)
(*                                                                         *)
(* A set of servers is a number: 0 is the STUN server alone, g > 0 the     *)
(* STUN server and the TURN servers of the g-th fetch; NoList is a NULL    *)
(* list.  A fetch takes its network time in one step, and the work queue   *)
(* has room for every task (WorkQueue models a full one).                  *)
(***************************************************************************)
EXTENDS Integers, Sequences, SequencesExt

CONSTANTS IceSessions,   \* session objects the run can create
          IceFamilies,   \* signaling implementations: "kvs", "bridge", "apprtc"
          IceUseTurn,    \* client->config.use_turn
          IceMaxFetches, \* bound: answers of the service
          IceMaxTriggers,\* bound: calls of trigger_progressive_ice()
          IceMaxFaults   \* bound: failed allocations and failed fetches

ASSUME IceAssumption ==
  /\ IceFamilies \subseteq {"kvs", "bridge", "apprtc"}
  /\ IceUseTurn \in BOOLEAN
  /\ {IceMaxFetches, IceMaxTriggers, IceMaxFaults} \subseteq Nat

VARIABLES family,    \* which signaling interface is installed
          cached,    \* the signaling client's iceConfigs
          expired,   \* the time is past iceConfigExpiration
          limited,   \* an attempt lies less than 30 s back
          list,      \* client->config.ice_servers
          cleared,   \* client->ice_servers_cleared
          scratch,   \* the static persistent_ice_cfg
          jobs,      \* the work queue: "refresh" and "apply" tasks
          pc,        \* where each task is
          building,  \* the session the message task creates
          servers,   \* servers the peer connection of a session works with
          iceLive,      \* client->activeSessions
          iceTorn,      \* the list was freed while a session was copying it
          alone,     \* the message task slept since the worker's install
          crossed,   \* the worker's last push overlapped the message task
          fetches, triggers, iceFaults

iceVars == <<family, cached, expired, limited, list, cleared, scratch, jobs,
             pc, building, servers, iceLive, iceTorn, alone, crossed,
             fetches, triggers, iceFaults>>

NoList == -1
Unmade == -2
Sets == 0..IceMaxFetches
MsgPlaces == {"idle", "checking", "reading", "installing", "fallback",
              "applying", "creating", "copying", "connecting"}
WorkPlaces == {"idle", "counting", "reading", "installing", "applying"}

IceTypeOK ==
  /\ family \in IceFamilies
  /\ cached \in Sets /\ scratch \in Sets
  /\ expired \in BOOLEAN /\ limited \in BOOLEAN /\ cleared \in BOOLEAN
  /\ {iceTorn, alone, crossed} \subseteq BOOLEAN
  /\ list \in Sets \cup {NoList}
  /\ jobs \in Seq({"refresh", "apply"})
  /\ pc \in [msg : MsgPlaces, work : WorkPlaces]
  /\ building \in IceSessions \cup {Unmade}
  /\ servers \in [IceSessions -> Sets \cup {NoList, Unmade}]
  /\ iceLive \subseteq IceSessions

IceInit ==
  /\ family \in IceFamilies
  /\ cached = 0 /\ expired = FALSE /\ limited = FALSE
  /\ list = NoList /\ cleared = FALSE /\ scratch = 0
  /\ jobs = <<>>
  /\ pc = [msg |-> "idle", work |-> "idle"]
  /\ building = Unmade
  /\ servers = [s \in IceSessions |-> Unmade]
  /\ iceLive = {}
  /\ iceTorn = FALSE /\ alone = FALSE /\ crossed = FALSE
  /\ fetches = 0 /\ triggers = 0 /\ iceFaults = 0

cacheVars == <<cached, expired, limited, fetches>>
clientVars == <<list, cleared, iceTorn>>
sessionVars == <<building, servers, iceLive>>
overlap == <<alone, crossed>>

----------------------------------------------------------------------------
(* The signaling client's cache *)

\* signaling_has_valid_ice_config()
HasValidIceConfig == cached > 0 /\ ~expired

\* signaling_is_ice_config_refresh_needed(): no more than one attempt in 30 s.
IsIceRefreshNeeded == ~limited /\ ~HasValidIceConfig

\* refresh_ice_configuration(): an unexpired set is kept, anything else is
\* fetched.  ok is the status the caller sees.
RefreshIceConfiguration(ok) ==
  IF HasValidIceConfig THEN ok /\ UNCHANGED <<cacheVars, iceFaults>>
  ELSE /\ limited' = TRUE
       /\ IF ok THEN /\ fetches < IceMaxFetches
                     /\ fetches' = fetches + 1
                     /\ cached' = fetches + 1 /\ expired' = FALSE
                     /\ UNCHANGED iceFaults
                ELSE /\ iceFaults < IceMaxFaults
                     /\ iceFaults' = iceFaults + 1
                     /\ UNCHANGED <<cached, expired, fetches>>

\* Time passes: the set runs out, or the 30 s do.
CacheExpires ==
  /\ HasValidIceConfig
  /\ expired' = TRUE
  /\ UNCHANGED <<cached, limited, fetches, family, clientVars, scratch, jobs,
                 pc, sessionVars, overlap, triggers, iceFaults>>

LimitEnds ==
  /\ limited
  /\ limited' = FALSE
  /\ UNCHANGED <<cached, expired, fetches, family, clientVars, scratch, jobs,
                 pc, sessionVars, overlap, triggers, iceFaults>>

----------------------------------------------------------------------------
(* app_webrtc_trigger_progressive_ice() *)

\* kvsSignalingQueryServerGetByIdx(0): returns the STUN server, says that more
\* will follow and schedules one of the two tasks.
QueryFirstServer ==
  jobs' = Append(jobs, IF IsIceRefreshNeeded THEN "refresh" ELSE "apply")

\* The KVS signaling is asked by index; the bridge has no such call: the default
\* STUN server is installed and a refresh, which drops the cache, scheduled;
\* AppRTC offers neither.
TriggerProgressiveIce(s) ==
  /\ pc.msg = "idle" /\ triggers < IceMaxTriggers
  /\ s \in IceSessions => servers[s] = Unmade
  /\ triggers' = triggers + 1
  /\ building' = s
  /\ alone' = FALSE
  /\ \/ /\ family = "kvs"
        /\ QueryFirstServer
        /\ pc' = [pc EXCEPT !.msg = "checking"]
        /\ UNCHANGED cacheVars
     \/ /\ family = "bridge"
        /\ jobs' = Append(jobs, "refresh")
        /\ cached' = 0
        /\ pc' = [pc EXCEPT !.msg = "fallback"]
        /\ UNCHANGED <<expired, limited, fetches>>
     \/ /\ family = "apprtc"
        /\ pc' = [pc EXCEPT !.msg = "fallback"]
        /\ UNCHANGED <<jobs, cacheVars>>
  /\ UNCHANGED <<family, clientVars, scratch, servers, iceLive, crossed, iceFaults>>

\* has_valid_ice_config(): a usable cache is applied at once, otherwise the
\* immediate STUN server is.
ChecksCache ==
  /\ pc.msg = "checking"
  /\ pc' = [pc EXCEPT !.msg = IF HasValidIceConfig THEN "reading" ELSE "fallback"]
  /\ UNCHANGED <<family, cacheVars, clientVars, scratch, jobs, sessionVars,
                 overlap, triggers, iceFaults>>

\* getKvsSignalingIceServers() through kvsGetIceServersWrapper(): counting the
\* servers may fetch them; a failed fetch leaves the STUN server alone.
GetIceServers(t) ==
  /\ pc[t] = "reading"
  /\ \E ok \in BOOLEAN :
       /\ RefreshIceConfiguration(ok)
       /\ scratch' = IF ok THEN cached' ELSE 0
  /\ pc' = [pc EXCEPT ![t] = "installing"]
  /\ UNCHANGED <<family, clientVars, jobs, sessionVars, overlap, triggers>>

\* The step of kvs_pc_set_ice_servers() outside any lock: the old list is freed
\* and a copy of the new one stored.
Install(set) ==
  /\ list' = set
  /\ cleared' = (set = NoList)
  /\ iceTorn' = (iceTorn \/ pc.msg = "copying")

InstallFails ==
  /\ iceFaults < IceMaxFaults
  /\ iceFaults' = iceFaults + 1
  /\ list' = NoList /\ UNCHANGED cleared
  /\ iceTorn' = (iceTorn \/ pc.msg = "copying")

\* app_webrtc_update_ice_servers() installs what the static buffer holds now.
\* When that fails the message task falls back to the STUN server; the worker
\* only logs it.
InstallsCached(t) ==
  /\ pc[t] = "installing"
  /\ alone' = IF t = "work" THEN pc.msg = "idle" ELSE alone
  /\ \/ /\ Install(scratch)
        /\ pc' = [pc EXCEPT ![t] = "applying"]
        /\ UNCHANGED iceFaults
     \/ /\ InstallFails
        /\ pc' = [pc EXCEPT ![t] = IF t = "msg" THEN "fallback" ELSE "idle"]
  /\ UNCHANGED <<family, cacheVars, scratch, jobs, sessionVars, crossed, triggers>>

\* app_webrtc_apply_immediate_ice_server(), and the default STUN server of the
\* bridge and AppRTC; a failure is not looked at.
InstallsImmediate ==
  /\ pc.msg = "fallback"
  /\ \/ /\ Install(0)
        /\ pc' = [pc EXCEPT !.msg = "applying"]
        /\ UNCHANGED iceFaults
     \/ /\ InstallFails
        /\ pc' = [pc EXCEPT !.msg = "creating"]
  /\ UNCHANGED <<family, cacheVars, scratch, jobs, sessionVars, overlap, triggers>>

\* Mutant: a session that already has TURN servers is passed over.
PushTurnOnce ==
  [s \in IceSessions |-> IF s \in iceLive /\ list > 0 /\ servers[s] = 0 THEN list
                         ELSE servers[s]]

\* kvs_applyNewIceServersCallback(): only TURN servers are pushed.
PushTurn ==
  IF list > 0 THEN [s \in IceSessions |-> IF s \in iceLive THEN list ELSE servers[s]]
  ELSE servers

\* The rest of kvs_pc_set_ice_servers(), under statsLock.
AppliesToSessions(t) ==
  /\ pc[t] = "applying"
  /\ servers' = PushTurn
  /\ crossed' = IF t = "work" THEN ~(alone /\ pc.msg = "idle") ELSE crossed
  /\ pc' = [pc EXCEPT ![t] = IF t = "msg" THEN "creating" ELSE "idle"]
  /\ UNCHANGED <<family, cacheVars, clientVars, scratch, jobs, building, iceLive,
                 alone, triggers, iceFaults>>

----------------------------------------------------------------------------
(* kvs_pc_create_session() *)

\* Nothing to create when the trigger came from an answer.
CreateBegins ==
  /\ pc.msg = "creating"
  /\ pc' = [pc EXCEPT !.msg = IF building = Unmade THEN "idle" ELSE "copying"]
  /\ iceTorn' = FALSE
  /\ UNCHANGED <<family, cacheVars, list, cleared, scratch, jobs, sessionVars,
                 overlap, triggers, iceFaults>>

\* What kvs_initializePeerConnection() copies: the list without the TURN servers
\* use_turn forbids, nothing after a clear, the default STUN server otherwise.
Configured(set) ==
  IF set = NoList THEN (IF cleared THEN NoList ELSE 0)
  ELSE IF IceUseTurn THEN set ELSE 0

\* A list freed under the copy leaves whatever the memory holds.
CopiesServers ==
  /\ pc.msg = "copying"
  /\ \E set \in IF iceTorn THEN Sets ELSE {list} :
       servers' = [servers EXCEPT ![building] = Configured(set)]
  /\ pc' = [pc EXCEPT !.msg = "connecting"]
  /\ UNCHANGED <<family, cacheVars, clientVars, scratch, jobs, building, iceLive,
                 overlap, triggers, iceFaults>>

\* The certificate is made and the peer connection built, which takes its time;
\* then the session is put into activeSessions, under statsLock.
RegistersSession ==
  /\ pc.msg = "connecting"
  /\ iceLive' = iceLive \cup {building}
  /\ building' = Unmade
  /\ pc' = [pc EXCEPT !.msg = "idle"]
  /\ UNCHANGED <<family, cacheVars, clientVars, scratch, jobs, servers,
                 overlap, triggers, iceFaults>>

\* createPeerConnection() failed: the session is freed.
CreateFails ==
  /\ pc.msg = "connecting"
  /\ building' = Unmade
  /\ pc' = [pc EXCEPT !.msg = "idle"]
  /\ UNCHANGED <<family, cacheVars, clientVars, scratch, jobs, servers, iceLive,
                 overlap, triggers, iceFaults>>

\* kvs_pc_destroy_session() takes it out of the table, under statsLock.
SessionEnds(s) ==
  /\ s \in iceLive
  /\ iceLive' = iceLive \ {s}
  /\ UNCHANGED <<family, cacheVars, clientVars, scratch, jobs, pc, building,
                 servers, overlap, triggers, iceFaults>>

----------------------------------------------------------------------------
(* The work queue *)

\* kvs_refresh_ice_task() and kvs_apply_cached_ice_task(): both count the
\* servers, which refreshes an expired set, and go on only when there are some.
WorkTakes ==
  /\ pc.work = "idle" /\ jobs # <<>>
  /\ jobs' = Tail(jobs)
  /\ pc' = [pc EXCEPT !.work = "counting"]
  /\ UNCHANGED <<family, cacheVars, clientVars, scratch, sessionVars, overlap,
                 triggers, iceFaults>>

\* app_webrtc_on_ice_servers_updated() is called for a count above zero.
WorkCounts ==
  /\ pc.work = "counting"
  /\ \E ok \in BOOLEAN :
       /\ RefreshIceConfiguration(ok)
       /\ pc' = [pc EXCEPT !.work = IF ok /\ cached' > 0 THEN "reading" ELSE "idle"]
  /\ UNCHANGED <<family, clientVars, scratch, jobs, sessionVars, overlap, triggers>>

----------------------------------------------------------------------------
IceMsgSteps ==
  \/ ChecksCache \/ GetIceServers("msg") \/ InstallsCached("msg")
  \/ InstallsImmediate \/ AppliesToSessions("msg")
  \/ CreateBegins \/ CopiesServers \/ RegistersSession \/ CreateFails

IceWorkSteps ==
  \/ WorkTakes \/ WorkCounts \/ GetIceServers("work")
  \/ InstallsCached("work") \/ AppliesToSessions("work")

IceNext ==
  \/ \E s \in IceSessions \cup {Unmade} : TriggerProgressiveIce(s)
  \/ IceMsgSteps \/ IceWorkSteps
  \/ \E s \in IceSessions : SessionEnds(s)
  \/ CacheExpires \/ LimitEnds

IceSpec == IceInit /\ [][IceNext]_iceVars

----------------------------------------------------------------------------
Settled == pc = [msg |-> "idle", work |-> "idle"] /\ jobs = <<>>

\* Once the tasks are done and the cache holds an unexpired set, every session
\* works with that very set, whichever of the two paths (synchronous before the
\* session was created, or the push of the work queue) brought it, unless the
\* worker's last push overlapped the creation of a session.
TurnReaches ==
  Settled /\ HasValidIceConfig /\ IceUseTurn /\ iceFaults = 0 /\ ~crossed
    => \A s \in iceLive : servers[s] = cached

=============================================================================
