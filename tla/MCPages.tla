------------------------------- MODULE MCPages -------------------------------
(***************************************************************************)
(* The components of the page, one at a time: which one is mounted is      *)
(* chosen in the initial state.  The components share no state, so the     *)
(* states of the run are those of each component by itself.                *)
(***************************************************************************)
EXTENDS BackgroundWork

CONSTANTS Units, Critical, Containers, Ports, SshPort, Profiles, Jobs, Sites,
          Cut, Terms, Sessions, Sizes, Fonts, Widths, Docs, Folders, MaxRecent, Servers, Dirs, Home, Names, Paper

Services == INSTANCE ServicePanel WITH MaxActs <- MaxActs - 1
Docker == INSTANCE ContainerPanel WITH MaxActs <- MaxActs - 1, MaxCalls <- MaxCalls - 1
Firewall == INSTANCE FirewallPanel WITH MaxCalls <- MaxCalls - 1
Cron == INSTANCE CronPanel WITH MaxCalls <- MaxCalls - 1
Web == INSTANCE WebsitePanel WITH MaxCalls <- MaxCalls - 1
Logs == INSTANCE Recordings WITH Casts <- Jobs
Output == INSTANCE TerminalOutput WITH MaxActs <- MaxActs + 1, Chunks <- 5, MaxBuffered <- 2, MaxPending <- 3
Budget == INSTANCE TerminalSize WITH Limit <- 3
Input == INSTANCE TerminalOutput WITH Chunks <- 5, MaxBuffered <- 2, MaxPending <- 3
Batch == INSTANCE CommandBatch WITH MaxActs <- MaxActs + 1, Steps <- 2
Size == INSTANCE TerminalSize WITH MaxActs <- MaxActs - 1, Limit <- 3
Prefs == INSTANCE Preferences WITH Entries <- Sessions, Newest <- 2
Doc == INSTANCE Document
Tabs == INSTANCE Document WITH MaxActs <- MaxActs - 1, MaxCalls <- MaxCalls - 1
Files == INSTANCE RemoteFiles WITH MaxActs <- MaxActs - 2, MaxCalls <- MaxCalls - 1
Panes == INSTANCE TransferPanes WITH MaxActs <- MaxActs - 3, MaxCalls <- MaxCalls - 1, Lanes <- 1, Batches <- 1
Ai == INSTANCE AiPanel WITH MaxActs <- MaxActs - 1, MaxCalls <- MaxCalls - 1, Terminals <- Servers, Chats <- 1..2, MaxTools <- 1
Strip == INSTANCE TabStrip
Backups == INSTANCE Backup WITH MaxActs <- MaxActs + 2, MaxCalls <- MaxCalls - 1, MaxImports <- 2
Workspaces == INSTANCE NamedWorkspaces WITH MaxActs <- MaxActs + 2, MaxCalls <- MaxCalls - 1, Terminals <- {Home} \cup Servers, Locked <- Servers,
                ProfileOf <- [k \in {Home} \cup Servers |-> IF k = Home THEN "open" ELSE "locked"], Ids <- Terms, Labels <- Sessions, MaxSaved <- 2
Casts == INSTANCE Recordings WITH MaxActs <- MaxActs - 1, MaxCalls <- MaxCalls - 1, Casts <- Jobs
Badges == INSTANCE Notifications WITH MaxActs <- MaxActs - 1, Terminals <- Servers, Kept <- 1
Notices == INSTANCE Notifications WITH MaxActs <- MaxActs - 1, Terminals <- Servers, Kept <- MaxRecent
Approvals == INSTANCE ApprovalPanel WITH Runtimes <- Sessions, MaxActs <- MaxActs - 1, MaxCalls <- MaxCalls - 1, Reqs <- Jobs, Cards <- Sessions, Kept <- 1
Side == INSTANCE Sidebar WITH MaxActs <- MaxActs + 1, Splits <- Fonts, Values <- Widths, Capacity <- 2
Listing == INSTANCE ServerList WITH MaxActs <- MaxActs - 1, MaxCalls <- MaxCalls - 1, Ids <- {Home} \cup Sessions
System == INSTANCE Preferences WITH MaxActs <- MaxActs - 1, MaxCalls <- MaxCalls - 1, Entries <- Sessions, Newest <- 2
Gate == INSTANCE Overlays WITH Dialogs <- Profiles \cup {"paste"}, Urgent <- {"paste"}, Cards <- Servers, Papers <- Jobs, Hosted <- {"session"}
Questions == INSTANCE ApprovalPanel WITH MaxActs <- MaxActs - 1, MaxCalls <- MaxCalls - 1, Reqs <- Jobs, Cards <- Sessions, Kept <- 1, Runtimes <- Sessions
HostView == INSTANCE Sidebar WITH MaxActs <- MaxActs - 1, MaxCalls <- MaxCalls - 1, Splits <- Fonts, Values <- Widths, Capacity <- 2
Shells == INSTANCE Overlays WITH MaxActs <- MaxActs + 1, Dialogs <- Profiles \cup {"paste"}, Urgent <- {"paste"}, Cards <- Servers, Papers <- Jobs, Hosted <- {"session"}

Init ==
  \/ WorkInit
  \/ shown = "services" /\ Services!Init
  \/ shown = "docker" /\ Docker!Init
  \/ shown = "firewall" /\ Firewall!Init
  \/ shown = "cron" /\ Cron!Init
  \/ shown = "web" /\ Web!Init
  \/ shown = "logs" /\ Logs!LogsInit
  \/ shown = "output" /\ Output!Init
  \/ shown = "budget" /\ Budget!BudgetInit
  \/ shown = "input" /\ Input!InputInit
  \/ shown = "batch" /\ Batch!Init
  \/ shown = "size" /\ Size!Init
  \/ shown = "prefs" /\ Prefs!Init
  \/ shown = "doc" /\ Doc!Init
  \/ shown = "tabs" /\ Tabs!TabsInit
  \/ shown = "files" /\ Files!Init
  \/ shown = "panes" /\ Panes!Init
  \/ shown = "ai" /\ Ai!Init
  \/ shown = "strip" /\ Strip!Init
  \/ shown = "backup" /\ Backups!Init
  \/ shown = "workspaces" /\ Workspaces!Init
  \/ shown = "casts" /\ Casts!Init
  \/ shown = "automation" /\ Badges!BadgeInit
  \/ shown = "notifications" /\ Notices!Init
  \/ shown = "approvals" /\ Approvals!Init
  \/ shown = "sidebar" /\ Side!Init
  \/ shown = "servers" /\ Listing!Init
  \/ shown = "system" /\ System!SystemInit
  \/ shown = "gate" /\ Gate!GateInit
  \/ shown = "overlays" /\ Shells!Init
  \/ shown = "cards" /\ HostView!CardsInit
  \/ shown = "questions" /\ Questions!KiInit

Next ==
  \/ WorkNext
  \/ shown = "services" /\ Services!Next /\ UNCHANGED shown
  \/ shown = "docker" /\ Docker!Next /\ UNCHANGED shown
  \/ shown = "firewall" /\ Firewall!Next /\ UNCHANGED shown
  \/ shown = "cron" /\ Cron!Next /\ UNCHANGED shown
  \/ shown = "web" /\ Web!Next /\ UNCHANGED shown
  \/ shown = "logs" /\ Logs!LogsNext /\ UNCHANGED shown
  \/ shown = "output" /\ Output!Next /\ UNCHANGED shown
  \/ shown = "budget" /\ Budget!BudgetNext /\ UNCHANGED shown
  \/ shown = "input" /\ Input!InputNext /\ UNCHANGED shown
  \/ shown = "batch" /\ Batch!Next /\ UNCHANGED shown
  \/ shown = "size" /\ Size!Next /\ UNCHANGED shown
  \/ shown = "prefs" /\ Prefs!Next /\ UNCHANGED shown
  \/ shown = "doc" /\ Doc!Next /\ UNCHANGED shown
  \/ shown = "tabs" /\ Tabs!TabsNext /\ UNCHANGED shown
  \/ shown = "files" /\ Files!Next /\ UNCHANGED shown
  \/ shown = "panes" /\ Panes!Next /\ UNCHANGED shown
  \/ shown = "ai" /\ Ai!Next /\ UNCHANGED shown
  \/ shown = "strip" /\ Strip!Next /\ UNCHANGED shown
  \/ shown = "backup" /\ Backups!Next /\ UNCHANGED shown
  \/ shown = "workspaces" /\ Workspaces!Next /\ UNCHANGED shown
  \/ shown = "casts" /\ Casts!Next /\ UNCHANGED shown
  \/ shown = "automation" /\ Badges!BadgeNext /\ UNCHANGED shown
  \/ shown = "notifications" /\ Notices!Next /\ UNCHANGED shown
  \/ shown = "approvals" /\ Approvals!Next /\ UNCHANGED shown
  \/ shown = "sidebar" /\ Side!Next /\ UNCHANGED shown
  \/ shown = "servers" /\ Listing!Next /\ UNCHANGED shown
  \/ shown = "system" /\ System!SystemNext /\ UNCHANGED shown
  \/ shown = "gate" /\ Gate!GateNext /\ UNCHANGED shown
  \/ shown = "overlays" /\ Shells!Next /\ UNCHANGED shown
  \/ shown = "cards" /\ HostView!CardsNext /\ UNCHANGED shown
  \/ shown = "questions" /\ Questions!KiNext /\ UNCHANGED shown

Spec == Init /\ [][Next]_<<page, calls, world, acts, shown>>

Symmetry == Permutations(Hosts) \cup Permutations(Rules)

-----------------------------------------------------------------------------
(* What a pane shows is what its heading says: the text of a log is of the *)
(* unit or container named above it, the files of a list are of the chosen *)
(* kind, whatever order the answers came in; the rows of the file panel    *)
(* and of both panes of the transfer window are of the directory and host  *)
(* named above them; a deleted recording or file stays away; an answer of  *)
(* the assistant stands in its own chat; the marks in a risky command      *)
(* leave its text whole; a host's panel tells what happened there only     *)
(* while that host is on screen; and the sample, the curve and the network *)
(* path beside a terminal are of its host.                                 *)
ShownIsOfItsTitle ==
  /\ shown = "services" => Services!LogOfItsUnit
  /\ shown = "docker" => Docker!LogOfItsContainer
  /\ shown = "logs" => Logs!FilesOfItsKind
  /\ shown = "tabs" => Tabs!SiblingsOfItsFolder
  /\ shown = "files" => Files!FilesOfTheirPlace
  /\ shown = "files" => Files!NothingComesBack
  /\ shown = "panes" => Panes!PanesOfTheirSession
  /\ shown = "ai" => Ai!AnswersInPlace
  /\ shown = "casts" => Casts!DeletedStaysAway
  /\ shown = "approvals" => Approvals!RiskTextWhole
  /\ shown = "sidebar" => Side!ToldOfItsHost
  /\ shown = "cards" => HostView!SamplesOfTheHost /\ HostView!PathOfTheHost

(* Nothing on the page is left spinning, and no button left disabled, when *)
(* every call has been answered. What is saved is then what is shown: the  *)
(* widths that were dragged, the list of servers, the settings, the known  *)
(* hosts. A question that is asked holds its close until it is answered,   *)
(* and the keyboard is with the dialog in front, and back afterwards. The  *)
(* questions of a server are up as long as its handshake waits for them.   *)
NothingLeftBusy ==
  /\ shown = "services" => Services!NotBusy
  /\ shown = "docker" => Docker!NotBusy
  /\ shown = "firewall" => Firewall!NotBusy
  /\ shown = "cron" => Cron!NotBusy
  /\ shown = "web" => Web!NotBusy
  /\ shown = "tunnels" => Tunnels!NotBusy
  /\ shown = "logs" => Logs!NotBusy
  /\ shown = "batch" => Batch!BatchNotBusy
  /\ shown = "prefs" => Prefs!WidthIsTheSetting /\ Prefs!SettingsSound
  /\ shown = "doc" => Doc!DocumentNotBusy
  /\ shown = "tabs" => Tabs!SiblingsNotBusy
  /\ shown = "files" => Files!FilesNotBusy
  /\ shown = "panes" => Panes!PanesNotBusy
  /\ shown = "ai" => Ai!ChatsNotBusy
  /\ shown = "workspaces" => Workspaces!WorkspaceNotBusy
  /\ shown = "sidebar" => Side!SplitSaved
  /\ shown = "servers" => Listing!ListNotBusy
  /\ shown = "system" => System!SystemShown
  /\ shown = "gate" => Gate!QuestionsWaitedFor
  /\ shown = "overlays" => Shells!KeysGoInFront
  /\ shown = "cards" => HostView!CardNotBusy
  /\ shown = "questions" => Questions!QuestionsUp


(* A terminal on the page shows what its session sent, none of it lost in  *)
(* between; a tab is marked when something came unseen; the terminals that *)
(* are looked at are the ones that are drawn fast, at the size the remote  *)
(* side knows; each tab stands on the strip, in a pane or by itself, where *)
(* it is told to be, once. A replay writes what was recorded, in its time; *)
(* the recording switch shows what the session does; the badges show which *)
(* sessions are used by a program; and a message is kept back only while   *)
(* it has to be, and stays unread until it is seen.                        *)
TerminalsTellTruth ==
  /\ shown = "output" => Output!OutputComplete /\ Output!UnreadIsUnseen
  /\ shown = "budget" => Budget!ContextsWhereLooked
  /\ shown = "size" => Size!RemoteHasItsSize
  /\ shown = "strip" => Strip!StripSound
  /\ shown = "casts" => Casts!ReplayTruthful /\ Casts!SwitchTellsTruth
  /\ shown = "automation" => Badges!RunningIsShown
  /\ shown = "notifications" => Notices!NothingMissed


(* What was pasted after a question goes where the question said; and a    *)
(* workspace that is ready takes the focus only if the user has not gone   *)
(* elsewhere since it was asked for. A card stays behind a dialog.         *)
GoesWhereShown ==
  [][/\ shown = "input" => Input!PastedWhereAsked
     /\ shown = "workspaces" => Workspaces!WorkspaceAsAsked
     /\ shown = "overlays" => Shells!CardStaysBehind]_<<page, calls, world, acts, shown>>

(* Independent terminals for one saved server can be restored together:    *)
(* the dialog that asks for the secret of each takes it.                   *)
SecretsCanBeGiven == shown = "workspaces" => Workspaces!SecretCanBeGiven

(* Every mutation runs behind the previous one, so a deletion never hits a *)
(* rule that the user has not chosen.                                      *)
OnlyChosenRulesGo == shown = "firewall" => Firewall!OnlyChosenGo

(* A stream that nobody follows does not go on.                            *)
NoStrayStream ==
  /\ shown = "services" => Services!NoStrayStream
  /\ shown = "docker" => Docker!NoStrayStream
=============================================================================
