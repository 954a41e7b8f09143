----------------------------- MODULE RemoteState -----------------------------
(***************************************************************************)
(* What the screen shows as playing (remoteState of daemon/player.go and   *)
(* daemon/player_ma.go) and the two backends it can come from: clusters    *)
(* that Spotify pushes, and the poll of a Music Assistant player.  Which   *)
(* of them counts is a setting, which an HTTP goroutine may change at any  *)
(* time; all the rest runs in the player's loop.                           *)
(*                                                                         *)
(* Of a state only its backend and device are told apart.  External: the   *)
(* clusters, the Music Assistant server and its groups of speakers.        *)
(***************************************************************************)
CONSTANTS
    Players,      \* Music Assistant players
    NoPlayer

ASSUME RemoteAssumption == NoPlayer \notin Players

VARIABLES
    settings,         \* playbackSource, and whether the MA config is usable
    activePlayer,     \* maActivePlayerId
    shown,            \* remoteState
    maOwns,           \* maOwnsRemoteState
    run,              \* what the loop is in: it has looked at the settings
    missed            \* history: flips with every poll that is not answered, so
                      \* that such a poll is another step than one that changed
                      \* nothing on show

remoteVars == <<settings, activePlayer, shown, maOwns, run, missed>>

Settings == [source : {"spotify", "ma"}, config : BOOLEAN]

Nothing == [by |-> "none", device |-> NoPlayer]
OfSpotify == [by |-> "spotify", device |-> NoPlayer]
OfMa(p) == [by |-> "ma", device |-> p]

MaModeActive == settings.source = "ma" /\ settings.config

\* HTTP: PUT of the settings.
PutSettings ==
    /\ settings' \in Settings
    /\ UNCHANGED <<activePlayer, shown, maOwns, run, missed>>

-----------------------------------------------------------------------------
(* Clusters.                                                               *)

\* Mutant: a cluster is applied whatever the settings say.
HandleAnyCluster ==
    /\ run = "idle"
    /\ run' \in {"clear", "apply"}
    /\ UNCHANGED <<settings, activePlayer, shown, maOwns, missed>>

\* handleCluster up to its look at the settings: nothing is active anywhere,
\* or another device is.  The device itself never plays.
HandleCluster ==
    /\ run = "idle"
    /\ ~MaModeActive
    /\ run' \in {"clear", "apply"}
    /\ UNCHANGED <<settings, activePlayer, shown, maOwns, missed>>

ClearActiveDevice ==
    /\ run = "clear"
    /\ shown' = Nothing
    /\ run' = "idle"
    /\ UNCHANGED <<settings, activePlayer, maOwns, missed>>

UpdateRemoteState ==
    /\ run = "apply"
    /\ shown' = OfSpotify
    /\ maOwns' = FALSE
    /\ run' = "idle"
    /\ UNCHANGED <<settings, activePlayer, missed>>

-----------------------------------------------------------------------------
(* Music Assistant.                                                        *)

\* maSelectPlayer; maControlTarget takes the default player while there is none.
\* Both do nothing when the server does not know the player or does not answer.
SelectPlayer(p) ==
    /\ run = "idle"
    /\ settings.config
    /\ activePlayer' = p
    /\ UNCHANGED <<settings, shown, maOwns, run, missed>>

\* Mutant: only a state that the poll has set is released.
OwnOnly == maOwns

Release == maOwns \/ settings.source = "ma"

\* maPollTick up to its request.
MaPollTick ==
    /\ run = "idle"
    /\ IF MaModeActive /\ activePlayer # NoPlayer
       THEN run' = "poll" /\ UNCHANGED <<shown, maOwns>>
       ELSE /\ Release
            /\ maOwns' = FALSE /\ shown' = Nothing
            /\ UNCHANGED run
    /\ UNCHANGED <<settings, activePlayer, missed>>

PollFails ==
    /\ run = "poll"
    /\ run' = "idle"
    /\ missed' = ~missed
    /\ UNCHANGED <<settings, activePlayer, shown, maOwns>>

\* The player has become a slave: its master is polled from the next tick on.
PollFollows ==
    /\ run = "poll"
    /\ activePlayer' \in Players \ {activePlayer}
    /\ run' = "idle"
    /\ UNCHANGED <<settings, shown, maOwns, missed>>

\* applyMaState and applyMaIdleState.
ApplyMaState ==
    /\ run = "poll"
    /\ shown' = OfMa(activePlayer)
    /\ maOwns' = TRUE
    /\ run' = "idle"
    /\ UNCHANGED <<settings, activePlayer, missed>>

-----------------------------------------------------------------------------
\* Whatever settings were stored: PutSettings may be the first step.
RemoteInit ==
    /\ settings = [source |-> "spotify", config |-> FALSE]
    /\ activePlayer = NoPlayer
    /\ shown = Nothing
    /\ maOwns = FALSE
    /\ run = "idle"
    /\ missed = FALSE

RemoteNext ==
    \/ PutSettings
    \/ HandleCluster
    \/ ClearActiveDevice
    \/ UpdateRemoteState
    \/ \E p \in Players : SelectPlayer(p)
    \/ MaPollTick
    \/ PollFails
    \/ PollFollows
    \/ ApplyMaState

RemoteSpec == RemoteInit /\ [][RemoteNext]_remoteVars

\* The loop runs, and its select is fair to the timer whatever clusters come.
RemoteFairness ==
    /\ WF_remoteVars(\/ ClearActiveDevice \/ UpdateRemoteState
                     \/ PollFails \/ PollFollows \/ ApplyMaState)
    /\ SF_remoteVars(MaPollTick)

-----------------------------------------------------------------------------
(* Properties.                                                             *)

\* The types of the settings, the selection and the state shown.
RemoteTypeOK ==
    /\ settings \in Settings
    /\ activePlayer \in Players \cup {NoPlayer}
    /\ shown \in {Nothing, OfSpotify} \cup {OfMa(p) : p \in Players}
    /\ maOwns \in BOOLEAN /\ missed \in BOOLEAN
    /\ run \in {"idle", "clear", "apply", "poll"}

ShowsChosen ==
    IF ~MaModeActive THEN shown.by # "ma"
    ELSE shown = IF activePlayer = NoPlayer THEN Nothing ELSE OfMa(activePlayer)

\* However the settings were changed under a cluster being applied or a poll
\* under way: once nobody changes them or the player any more and polls are
\* answered, the screen comes to show the backend they choose, and stays there.
SourceSettles ==
    <>[][UNCHANGED <<settings, activePlayer, missed>>]_remoteVars => <>[]ShowsChosen
=============================================================================
