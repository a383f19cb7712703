------------------------------ MODULE MC_Readers ------------------------------
(***************************************************************************)
(* The readers of the analytics in one instance: the mini client, its       *)
(* settings and its signals, the web page, and the queries behind both.     *)
(* They share no variable, so a behaviour moves one of them, and the others *)
(* stay as they were at its start.                                          *)
(***************************************************************************)
EXTENDS MiniClient, MiniSettings, MiniSignals, WebDashboard, MC_UsageQueries

CONSTANTS codex, opencode, hour1, hour2

VARIABLE reader     \* the one that moves

Readers == {"client", "settings", "signals", "page", "queries"}

readersVars == <<reader, clientVars, settingsVars, signalVars, webVars, queryVars>>

\* Those that have more than one initial state start in this one, to rest.
Resting ==
    /\ IF reader = "client" THEN TRUE ELSE server = "outside"
    /\ IF reader = "signals" THEN TRUE ELSE list = NoRows /\ threshold = 0 /\ enabled = TRUE
    /\ IF reader = "page" THEN TRUE ELSE query = NoDashboard.ask
    /\ IF reader = "queries" THEN TRUE ELSE request = Request("codex", FALSE)
    /\ IF reader = "queries" THEN rows \in MCTables ELSE rows = <<>>

ReadersInit ==
    /\ reader \in Readers
    /\ Resting
    /\ ClientInit /\ SettingsInit /\ SignalsInit /\ WebInit /\ QueriesInit

Moves(r, step) == reader = r /\ step /\ UNCHANGED reader

Client(step) ==
    Moves("client", step) /\ UNCHANGED <<settingsVars, signalVars, webVars, queryVars>>

Settings(step) ==
    Moves("settings", step) /\ UNCHANGED <<clientVars, signalVars, webVars, queryVars>>

Signals(step) ==
    Moves("signals", step) /\ UNCHANGED <<clientVars, settingsVars, webVars, queryVars>>

Page(step) ==
    Moves("page", step) /\ UNCHANGED <<clientVars, settingsVars, signalVars, queryVars>>

Queries(step) ==
    Moves("queries", step) /\ UNCHANGED <<clientVars, settingsVars, signalVars, webVars>>

ReadersNext ==
    \/ Client(WorkerStep) \/ Client(RetryWindowPasses) \/ Client(EventLoopStep)
    \/ Client(UserStep) \/ Client(ServerStep)
    \/ Settings(SettingsNext)
    \/ Signals(SignalsNext)
    \/ Page(LoadStep) \/ Page(CheckStep) \/ Page(DetailStep)
    \/ Page(UserActs) \/ Page(AnalyticsChange)
    \/ Queries(QueriesNext)

\* The fairness of ClientSpec and of WebSpec
ReadersSpec ==
    /\ ReadersInit /\ [][ReadersNext]_readersVars
    /\ WF_readersVars(Client(WorkerStep)) /\ WF_readersVars(Client(EventLoopStep))
    /\ WF_readersVars(Client(ChildServes)) /\ WF_readersVars(Client(RetryWindowPasses))
    /\ WF_readersVars(Page(LoadStep)) /\ WF_readersVars(Page(CheckStep))
    /\ WF_readersVars(Page(DetailStep))

TypeOK ==
    /\ reader \in Readers
    /\ ClientTypeOK /\ SettingsTypeOK /\ SignalsTypeOK /\ WebTypeOK /\ QueriesTypeOK

\* ClientCatchesUp and PageCatchesUp, of the reader that moves
ClientReaderCatchesUp == reader = "client" => ClientCatchesUp

PageReaderCatchesUp == reader = "page" => PageCatchesUp

(***************************************************************************)
(* The reader that moves catches up with the analytics in the end, whatever *)
(* is pressed meanwhile and whichever request fails (poll_once and          *)
(* render_rows of the mini client; pollForUpdates and refresh of the page). *)
(***************************************************************************)
ReadersCatchUp == ClientReaderCatchesUp /\ PageReaderCatchesUp
=============================================================================
