----------------------------- MODULE MCServices ------------------------------
(***************************************************************************)
(* Small instances of the parts around the agent. They share no state, so   *)
(* that a behaviour is one of one part; the variables of the others are     *)
(* Unused, and those of AuthStorage, which is extended, as they were first. *)
(***************************************************************************)
EXTENDS AuthStorage, Sequences, TLC

CONSTANTS
  Parts,                                    \* the parts to check
  c1, c2, EarlyReturn, MaxConns, MaxInputs, \* the socket of a session
  p1, p2,                                   \* the processes of a user
  f1, f2, MaxSets, MaxReloads, Happens,     \* settings
  a, b, MaxLines, ClearOnShrink, Termux, Interface, \* the screen of the terminal
  MaxPressed, Pauses,                       \* its keyboard
  MaxViewers, LateBodies, OneContext,       \* the sessions of the gateway
  MaxEntries, LongFirstTurns,               \* what compactions summarize
  MaxSaid, MaxAgain, Channel,               \* a Slack channel
  MaxTasks, Planning                        \* the plans of the orchestrator

VARIABLES
  part,
  clients, conns, heard, lines,
  settings, managers, sets, stored, latest, reloads,
  content, overlays, term, ui, sched, resizes,
  pressed, arrived, stdin,
  sessions, viewers, inputs,
  path,
  status, said, startup, since, log, context, answered, queue, run, events,
  plan, next, completed, failed, phase, saved, before

Socket == INSTANCE SocketServer WITH
  Client <- {c1, c2}, ReadOnly <- {c2}, MaxClients <- 2, MaxLines <- MaxInputs
\* A server that takes one client only, so that the others are refused.
Narrow == INSTANCE SocketServer WITH
  Client <- {c1, c2}, ReadOnly <- {}, MaxClients <- 1, MaxLines <- MaxInputs
Settings == INSTANCE SettingsManager WITH Field <- {f1, f2}
\* One process by itself, whose file does not exist yet.
First == INSTANCE SettingsManager WITH
  Process <- {p1}, Field <- {f1, f2}, Happens <- {"burst", "missing"}
Tui == INSTANCE TuiScreen WITH
  Line <- {a, b}, Heights <- {1, 2}, Resizes <- 1, Uses <- Interface
Keyboard == INSTANCE StdinBuffer WITH MaxKeys <- MaxPressed, keys <- pressed
Gateway == INSTANCE GatewaySessions WITH
  MaxSessions <- 1, MaxChunks <- 3, MaxBufferLines <- 2
Compacting == INSTANCE Compaction WITH Sizes <- {1}, KeepRecentTokens <- 2
Mom == INSTANCE MomChannel WITH
  MaxMessages <- MaxSaid, MaxBackfill <- 1, MaxRepeats <- MaxAgain,
  MaxEvents <- 2, QueueLimit <- 1, Environment <- Channel
Planner == INSTANCE Orchestrator WITH Ids <- 1..MaxTasks, Environment <- Planning

ASSUME Assumptions ==
  /\ Socket!SocketAssumption /\ Narrow!SocketAssumption /\ AuthAssumption
  /\ Settings!SettingsAssumption /\ First!SettingsAssumption /\ Tui!TuiAssumption
  /\ Keyboard!StdinAssumption /\ Gateway!GatewayAssumption
  /\ Compacting!CompactionAssumption /\ Mom!ChannelAssumption
  /\ Planner!OrchestratorAssumption

Lines == Permutations({a, b})

Unused == "unused"
socketVars == <<clients, conns, heard, lines>>
settingsVars == <<settings, managers, sets, stored, latest, reloads>>
tuiVars == <<content, overlays, term, ui, sched, resizes>>
keyVars == <<pressed, arrived, stdin>>
gatewayVars == <<sessions, viewers, inputs>>
momVars == <<status, said, startup, since, log, context, answered, queue, run, events>>
planVars == <<plan, next, completed, failed, phase, saved, before>>
servicesVars == <<part, socketVars, vars, settingsVars, tuiVars,
          keyVars, gatewayVars, path, momVars, planVars>>

SocketOff == clients = Unused /\ conns = Unused /\ heard = Unused /\ lines = Unused
SettingsOff ==
  /\ settings = Unused /\ managers = Unused /\ sets = Unused
  /\ stored = Unused /\ latest = Unused /\ reloads = Unused
TuiOff ==
  /\ content = Unused /\ overlays = Unused /\ term = Unused
  /\ ui = Unused /\ sched = Unused /\ resizes = Unused
KeysOff == pressed = Unused /\ arrived = Unused /\ stdin = Unused
GatewayOff == sessions = Unused /\ viewers = Unused /\ inputs = Unused
PathOff == path = Unused
MomOff ==
  /\ status = Unused /\ said = Unused /\ startup = Unused /\ since = Unused
  /\ log = Unused /\ context = Unused
  /\ answered = Unused /\ queue = Unused /\ run = Unused /\ events = Unused
PlanOff ==
  /\ plan = Unused /\ next = Unused /\ completed = Unused /\ failed = Unused
  /\ phase = Unused /\ saved = Unused /\ before = Unused

ServicesInit ==
  /\ part \in Parts /\ Init
  /\ IF part = "socket" THEN Socket!Init ELSE IF part = "narrow" THEN Narrow!Init ELSE SocketOff
  /\ IF part = "settings" THEN Settings!Init ELSE IF part = "first" THEN First!Init ELSE SettingsOff
  /\ IF part = "tui" THEN Tui!Init ELSE TuiOff
  /\ IF part = "keys" THEN Keyboard!Init ELSE KeysOff
  /\ IF part = "gateway" THEN Gateway!Init ELSE GatewayOff
  /\ IF part = "compaction" THEN Compacting!Init ELSE PathOff
  /\ IF part = "mom" THEN Mom!Init ELSE MomOff
  /\ IF part = "plan" THEN Planner!Init ELSE PlanOff

OthersRest == UNCHANGED <<part, keyVars, gatewayVars, path, momVars, planVars>>
CoreRests == UNCHANGED <<part, socketVars, vars, settingsVars, tuiVars>>

SocketMoves ==
  /\ \/ part = "socket" /\ Socket!Next
     \/ part = "narrow" /\ Narrow!Next
  /\ UNCHANGED <<vars, settingsVars, tuiVars>> /\ OthersRest
AuthMoves ==
  /\ part = "auth" /\ Next
  /\ UNCHANGED <<socketVars, settingsVars, tuiVars>> /\ OthersRest
SettingsMove ==
  /\ \/ part = "settings" /\ Settings!Next
     \/ part = "first" /\ First!Next
  /\ UNCHANGED <<socketVars, vars, tuiVars>> /\ OthersRest
TuiMoves ==
  /\ part = "tui" /\ Tui!Next
  /\ UNCHANGED <<socketVars, vars, settingsVars>> /\ OthersRest
KeysMove ==
  /\ part = "keys" /\ Keyboard!Next
  /\ CoreRests /\ UNCHANGED <<gatewayVars, path, momVars, planVars>>
GatewayMoves ==
  /\ part = "gateway" /\ Gateway!Next
  /\ CoreRests /\ UNCHANGED <<keyVars, path, momVars, planVars>>
PathMoves ==
  /\ part = "compaction" /\ Compacting!Next
  /\ CoreRests /\ UNCHANGED <<keyVars, gatewayVars, momVars, planVars>>
MomMoves ==
  /\ part = "mom" /\ Mom!Next
  /\ CoreRests /\ UNCHANGED <<keyVars, gatewayVars, path, planVars>>
PlanMoves ==
  /\ part = "plan" /\ Planner!Next
  /\ CoreRests /\ UNCHANGED <<keyVars, gatewayVars, path, momVars>>

ServicesNext ==
  \/ SocketMoves \/ AuthMoves \/ SettingsMove \/ TuiMoves \/ KeysMove
  \/ GatewayMoves \/ PathMoves \/ MomMoves \/ PlanMoves

ServicesSpec == ServicesInit /\ [][ServicesNext]_servicesVars

-----------------------------------------------------------------------------
\* Clients of a socket server agree on who is there and on what was said
\* (#broadcast, #handleClientDisconnect in socket-server.ts).
ClientsAgree ==
  /\ part = "socket" => Socket!ClientsAgree
  /\ part = "narrow" => Narrow!ClientsAgree

\* Several managers and the user's editor lose no setting
\* (persistScopedSettings, enqueueWrite in settings-manager.ts).
SettingsSurvive ==
  /\ part = "settings" => Settings!SettingsSurvive
  /\ part = "first" => First!SettingsSurvive

\* A screen at rest shows what the components render (doRender and
\* requestRender in tui.ts), and keys and pastes arrive as they were made
\* (process in stdin-buffer.ts).
TerminalIsFollowed ==
  /\ part = "tui" => Tui!RestingScreenShowsContent
  /\ part = "keys" => Keyboard!KeysArriveWhole

\* Sockets and streams show the output of their session's process, and no
\* process outlives its session (session-process.ts, ws.ts, session-manager.ts).
ViewersFollowSessions == part = "gateway" => Gateway!ViewersFollowSessions

\* Compactions forget nothing and keep what is recent (findCutPoint,
\* prepareCompaction and compact in compaction.ts).
CompactionsKeepHistory == part = "compaction" => Compacting!CompactionsKeepHistory

\* The agent of a Slack channel knows what was said in it (syncLogToSessionManager
\* in context.ts, backfillChannel in slack.ts).
ContextFollowsChannel == part = "mom" => Mom!ContextFollowsChannel

\* Subtasks are executed once and in the order of what they need, and a plan
\* that stopped can be resumed (topologicalSort and execute in engine.ts).
PlanIsFollowed == part = "plan" => Planner!PlanIsFollowed

\* A resumed plan executes nothing again (execute in engine.ts; it does).
ResumeRepeatsNothing == part = "plan" => Planner!ResumeRepeatsNothing
===============================================================================
