SPECIFICATION Spec
CONSTANTS
  None = None
  MaxActs = 4
  MaxCalls = 3
  Hosts = {h, k}
  Units = {"ssh", "web"}
  Critical = {"ssh"}
  Containers = {c, d}
  Ports = {"ssh", "web"}
  SshPort = "ssh"
  Profiles = {p, q}
  Jobs = {"i", "j"}
  Sites = {"x"}
  Rules = {r, s}
  Cut = Cut
  Terms = {t1, t2, t3, t4}
  Sessions = {a, b}
  Sizes = {"wide", "small"}
  Fonts = {12, 14}
  Widths = {200, 300}
  Paper = paper
  Servers = {m, n}
  Dirs = {"home", "sub"}
  Home = "home"
  Names = {f, g}
  Docs = {"a1", "a2", "b1"}
  Folders = {{"a1", "a2"}, {"b1"}}
  MaxRecent = 2
  HistoryKept = 1
  Fence = 2
  MaxJobs = 2
SYMMETRY Symmetry
INVARIANTS ShownIsOfItsTitle NothingLeftBusy  TerminalsTellTruth TransfersTellTruth ForwardsKept
PROPERTIES  GoesWhereShown
CHECK_DEADLOCK FALSE
