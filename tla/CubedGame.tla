------------------------------ MODULE CubedGame ------------------------------
(***************************************************************************)
(* CubedGame: starts the game, keeps the list of its processes, and asks   *)
(* the installed game for its version by running it with -V.  The answer   *)
(* comes from a process of its own, some time after the directory was set. *)
(***************************************************************************)
CONSTANTS
  Dirs,        \* directories the user may choose
  DefaultDir,  \* the one taken while none is set
  Versions,    \* what a game may print with -V
  None,        \* an empty string; no game in a directory
  Queries,     \* identities of check_version() processes
  Procs        \* identities of game processes

VARIABLES
  game,              \* game[d]: the version of the program in d, or None
  game_install_dir,  \* m_game_install_dir
  version,           \* m_version
  installed,         \* m_installed
  query,             \* query[q]: the directory whose program it runs, or None
  processes,         \* m_processes
  live               \* live[p]: the directory it was started from, or None

vars == <<game, game_install_dir, version, installed, query, processes, live>>

TypeOK ==
  /\ game \in [Dirs -> Versions \cup {None}]
  /\ game_install_dir \in Dirs \cup {None}
  /\ version \in Versions \cup {None}
  /\ installed \in BOOLEAN
  /\ query \in [Queries -> Dirs \cup {None}]
  /\ processes \subseteq Procs
  /\ live \in [Procs -> Dirs \cup {None}]

running == processes # {}

default_if_empty(d) == IF d = None THEN DefaultDir ELSE d

\* Without a program in the directory there is an answer at once, which leaves
\* m_version alone; otherwise the program is started with -V.
check_version(dir) ==
  LET d == default_if_empty(dir)
  IN  /\ game_install_dir' = d
      /\ \/ game[d] = None /\ installed' = FALSE /\ UNCHANGED query
         \/ /\ game[d] # None
            /\ \E q \in Queries : query[q] = None /\ query' = [query EXCEPT ![q] = d]
            /\ UNCHANGED installed
      /\ UNCHANGED <<version, processes, live>>

\* The first page asks when it is completed; a finished download asks again.
CheckVersion == check_version(game_install_dir) /\ UNCHANGED game

SetGameDir == \E d \in Dirs : check_version(d) /\ UNCHANGED game

\* GameUpdate has put a game into the current directory.
GameInstalled ==
  /\ game_install_dir # None
  /\ \E v \in Versions : game' = [game EXCEPT ![game_install_dir] = v]
  /\ game[game_install_dir] = None  \* bound: updates are left to GameUpdate
  /\ \E q \in Queries : query[q] = None /\ query' = [query EXCEPT ![q] = game_install_dir]
  /\ UNCHANGED <<game_install_dir, version, installed, processes, live>>

\* What the program printed is read: its version, or only white space.
VersionRead ==
  \E q \in Queries :
    /\ query[q] # None
    /\ \/ version' = game[query[q]] /\ installed' = TRUE
       \/ installed' = FALSE /\ UNCHANGED version
    /\ query' = [query EXCEPT ![q] = None]
    /\ UNCHANGED <<game, game_install_dir, processes, live>>

\* The program cannot be started, or ends without a word: that is logged.
QueryFailed ==
  \E q \in Queries :
    /\ query[q] # None
    /\ query' = [query EXCEPT ![q] = None]
    /\ UNCHANGED <<game, game_install_dir, version, installed, processes, live>>

-----------------------------------------------------------------------------
(* The game itself *)

\* The process is listed once it has started; one that does not start is
\* deleted.  The page offers the button while an installed game is not running.
StartCubedGame ==
  LET d == default_if_empty(game_install_dir)
  IN  /\ installed /\ ~running
      /\ game_install_dir' = d
      /\ \/ \E p \in Procs :
              /\ live[p] = None
              /\ live' = [live EXCEPT ![p] = d]
              /\ processes' = processes \cup {p}
         \/ UNCHANGED <<live, processes>>
      /\ UNCHANGED <<game, version, installed, query>>

\* It exits, crashes, or ends by the kill() of kill_all(), which changes
\* nothing until then.
GameFinished ==
  \E p \in Procs :
    /\ live[p] # None
    /\ live' = [live EXCEPT ![p] = None]
    /\ processes' = processes \ {p}
    /\ UNCHANGED <<game, game_install_dir, version, installed, query>>

Init ==
  /\ game \in [Dirs -> Versions \cup {None}]
  /\ game_install_dir = None
  /\ version = None
  /\ installed = FALSE
  /\ query = [q \in Queries |-> None]
  /\ processes = {}
  /\ live = [p \in Procs |-> None]

Next ==
  \/ CheckVersion \/ SetGameDir \/ GameInstalled \/ VersionRead \/ QueryFailed
  \/ StartCubedGame \/ GameFinished

Spec == Init /\ [][Next]_vars

-----------------------------------------------------------------------------

\* "Installed version: %1" (DownloadGame.qml:38) is the version of the game in
\* the directory the page shows, once no program is being asked any more.
VersionIsOfDirectory ==
  installed /\ (\A q \in Queries : query[q] = None) => version = game[game_install_dir]
=============================================================================
