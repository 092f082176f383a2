------------------------------- MODULE PeerNode -------------------------------
(***************************************************************************)
(* The life of the node process and what it remembers of its peers:          *)
(* config/index.ts with config/config-manager.ts (config.json, written with  *)
(* writeFileSync), services/p2p.service.ts with the peer cache, and the      *)
(* graceful shutdown of server.ts.  libp2p connects and discovers peers as   *)
(* it likes.                                                                 *)
(***************************************************************************)
EXTENDS PeerCache

CONSTANTS
  PeerIds, EnvPeers,  \* P2P_BOOTSTRAP_PEERS
  Settings,           \* the values the environment may hold of any other setting
  MaxMet,             \* bound on connections
  MaxMishaps          \* bound on crashes and failing writes

\* What the two files hold when they can be read.
Confs == [boot : SUBSET PeerIds, setting : Settings \cup {"unset"}]
CachedPeers == [peer : PeerIds, times : Nat]

ASSUME PeerAssumption ==
  /\ EnvPeers \subseteq PeerIds /\ "unset" \notin Settings /\ MaxCached \in Nat
  /\ \A f \in {Absent, Empty, Garbled} : f \notin Confs /\ f \notin Seq(CachedPeers)

VARIABLES
  proc,        \* down, starting, up (started), or half: p2pService.start threw
  configFile,  \* config.json
  conf,        \* the ConfigManager's copy
  stops,       \* the handlers of SIGTERM and SIGINT: idle, flushing, closing
  met, mishaps,
  firstSetting,  \* history: the setting of the first start
  directs,       \* history: peers that were connected directly
  configTorn,    \* history: a write of config.json failed or was cut by a crash
  lastEnd        \* history: how the process ended; clean when one signal stopped a
                 \* started node, nothing changed or failed meanwhile and no
                 \* write of the timer was under way at the end

peerVars == <<proc, configFile, conf, stops, met, mishaps, firstSetting, directs,
              configTorn, lastEnd, cacheVars>>

Signals == {"SIGTERM", "SIGINT"}
NoConf == [boot |-> {}, setting |-> "unset"]

PeerInit ==
  /\ proc = "down" /\ configFile = Absent /\ conf = NoConf
  /\ stops = [s \in Signals |-> "idle"] /\ met = 0 /\ mishaps = 0
  /\ firstSetting = "unset" /\ directs = {} /\ configTorn = FALSE /\ lastEnd = "none"
  /\ CacheInit

\* saveConfig: written whole and at once, or what it throws is logged.
WriteConfig(text) ==
  \/ configFile' = text /\ UNCHANGED <<configTorn, mishaps>>
  \/ /\ mishaps < MaxMishaps /\ mishaps' = mishaps + 1
     /\ configFile' \in {configFile, Empty} /\ configTorn' = TRUE

\* loadConfigFile: the defaults when there is no file or it cannot be parsed.
LoadedConf == IF configFile \in {Absent, Empty} THEN NoConf ELSE configFile

ConfFromEnv(file, env) ==
  [boot |-> IF file.boot # {} THEN file.boot ELSE EnvPeers, setting |-> env]
\* What the file says is taken before what the environment says.
ConfFrom(file, env) ==
  [boot |-> IF file.boot # {} THEN file.boot ELSE EnvPeers,
   setting |-> IF file.setting # "unset" THEN file.setting ELSE env]
StartConf(env) == ConfFrom(LoadedConf, env)

\* The configuration is read, completed and written back when it is imported;
\* then p2pService.start up to the node being created.
StartPeer(env, expired) ==
  /\ proc = "down" /\ proc' = "starting"
  /\ conf' = StartConf(env) /\ WriteConfig(conf')
  /\ firstSetting' = IF firstSetting = "unset" THEN conf'.setting ELSE firstSetting
  /\ LoadCache(expired)
  /\ UNCHANGED <<stops, met, directs, lastEnd>>

\* The rest of start. When it throws the node that was created stays connected.
Started ==
  /\ proc = "starting" /\ proc' \in {"up", "half"}
  /\ UNCHANGED <<configFile, conf, stops, met, mishaps, firstSetting, directs,
                 configTorn, lastEnd, cacheVars>>

Stopping == \E s \in Signals : stops[s] # "idle"

\* addBootstrapPeer
AddBootstrapSaving(p, text) ==
  IF p \in conf.boot THEN UNCHANGED <<conf, configFile, configTorn, mishaps>>
  ELSE conf' = [conf EXCEPT !.boot = @ \cup {p}] /\ WriteConfig(text)
AddBootstrapLate(p) == AddBootstrapSaving(p, conf)
AddBootstrap(p) == AddBootstrapSaving(p, conf')

\* peer:connect, from the moment the node is created until the process ends. Of the
\* addresses only those that are not through a relay go to config.json.
PeerConnect(p, direct) ==
  /\ proc # "down" /\ met < MaxMet /\ met' = met + 1
  /\ AddPeer(p)
  /\ IF direct THEN AddBootstrap(p) /\ directs' = directs \cup {p}
     ELSE UNCHANGED <<conf, configFile, configTorn, mishaps, directs>>
  /\ lastEnd' = IF Stopping THEN "disturbed" ELSE lastEnd
  /\ UNCHANGED <<proc, stops, firstSetting>>

CacheTimer ==
  /\ TimerFires
  /\ UNCHANGED <<proc, configFile, conf, stops, met, mishaps, firstSetting, directs,
                 configTorn, lastEnd>>
CacheGoes ==
  /\ \E i \in DOMAIN cacheWrites : CacheOpens(i) \/ CacheLands(i)
  /\ UNCHANGED <<proc, configFile, conf, stops, met, mishaps, firstSetting, directs,
                 configTorn, lastEnd>>
CacheThrows ==
  /\ mishaps < MaxMishaps /\ mishaps' = mishaps + 1
  /\ \E i \in DOMAIN cacheWrites : CacheFails(i)
  /\ lastEnd' = IF Stopping THEN "disturbed" ELSE lastEnd
  /\ UNCHANGED <<proc, configFile, conf, stops, met, firstSetting, directs, configTorn>>

\* The process ends. What it has in memory stays in the variables until the next start.
End(how) ==
  /\ proc' = "down" /\ lastEnd' = how /\ StopCache
  /\ stops' = [s \in Signals |-> "idle"]
  /\ UNCHANGED <<configFile, conf, met, firstSetting, directs, configTorn>>

\* shutdown up to its first await. A second signal runs it again. Without a started
\* P2P service it exits at once.
SignalComes(s) ==
  /\ proc \in {"up", "half"} /\ stops[s] = "idle"
  /\ IF proc = "half" THEN /\ End("half") /\ UNCHANGED mishaps
     ELSE /\ stops' = [stops EXCEPT ![s] = "flushing"]
          /\ FlushCache(s)
          /\ lastEnd' = IF Stopping THEN "disturbed" ELSE "stopping"
          /\ UNCHANGED <<proc, configFile, conf, met, mishaps, firstSetting,
                         directs, configTorn>>

\* stop after the flush: the announcements end, the node is being stopped.
FlushEnds(s) ==
  /\ stops[s] = "flushing" /\ Flushed(s)
  /\ stops' = [stops EXCEPT ![s] = "closing"]
  /\ UNCHANGED <<proc, configFile, conf, met, mishaps, firstSetting, directs,
                 configTorn, lastEnd, cacheVars>>

Exit(s) ==
  /\ stops[s] = "closing"
  /\ End(IF lastEnd = "stopping" /\ \A i \in DOMAIN cacheWrites : cacheWrites[i].by # Timer
         THEN "clean" ELSE "disturbed")
  /\ UNCHANGED mishaps

\* A crash, or a signal before the handlers are set.
PeerCrash ==
  /\ proc # "down" /\ mishaps < MaxMishaps /\ mishaps' = mishaps + 1
  /\ End("crash")

PeerNext ==
  \/ \E env \in Settings, expired \in SUBSET PeerIds : StartPeer(env, expired)
  \/ Started
  \/ \E p \in PeerIds, direct \in BOOLEAN : PeerConnect(p, direct)
  \/ CacheTimer \/ CacheGoes \/ CacheThrows
  \/ \E s \in Signals : SignalComes(s) \/ FlushEnds(s) \/ Exit(s)
  \/ PeerCrash

\* Timers fire and calls of the file system return; nothing makes a node start,
\* connect or be stopped.
PeerFairness == WF_peerVars(CacheTimer) /\ WF_peerVars(CacheGoes)

PeerSpec == PeerInit /\ [][PeerNext]_peerVars /\ PeerFairness

-----------------------------------------------------------------------------
\* config.json takes precedence over the environment from the first start on, and
\* has every peer that was connected directly: through restarts, changes of the
\* environment and the write back at each start, unless a write was cut.
ConfigKept ==
  ~configTorn /\ configFile # Absent =>
    configFile.setting = firstSetting /\ directs \subseteq configFile.boot

\* A node that one signal stopped leaves every peer it knew in the file, whatever the
\* timer was writing when the signal came. Two losses the code has are excepted: an
\* earlier write overtook the last change (its landing takes the mark off a peer added
\* meanwhile, and the stop finds nothing to flush), and a write of the timer, which
\* flush does not wait for, was cut by the exit.
CleanStopSaves == proc = "down" /\ lastEnd = "clean" /\ ~overtaken => Saved

\* When the connections pause what is dirty gets into the file: the timer of the last
\* change fires and its write lands, unless it fails, the process ends or a write begun
\* before that change takes the mark off.
QuietGetsSaved ==
  (dirty /\ ~saveFailed) ~> (Saved \/ overtaken \/ saveFailed \/ proc = "down")

===============================================================================
