--------------------------- MODULE RecoveryWindow ---------------------------
(***************************************************************************)
(* PiRecovery with one more history variable, the unbroken run of ticks    *)
(* that saw one profile's Pi reachable and no internet.  It is what        *)
(* recovery.go says the window of idleTick is.                             *)
(***************************************************************************)
EXTENDS PiRecovery

VARIABLE streak   \* the run's profile and age, Never if there is none

WindowInit == Init /\ streak = Never

\* A tick without a probe breaks the run.
TickSeen ==
    streak' = IF state = "idle" /\ tick'.pc = "rest" THEN Never ELSE streak

\* So does a probe that finds internet, or another profile's Pi.
ProbeSeen ==
    streak' = IF noInternetSince' = Never THEN Never
              ELSE IF streak # Never /\ streak.profile = tick.profile THEN streak
              ELSE [profile |-> tick.profile, age |-> 0]

StreakOlder ==
    streak' = IF streak = Never THEN Never
              ELSE [streak EXCEPT !.age = Older(@, NoInternetFor)]

Unseen ==
    \/ Start \/ Stop \/ saveFlag \/ issueReboot \/ waitTick
    \/ ClearFlagForProfile \/ ClockSync \/ Writeback
    \/ \E p \in Profiles : DeleteKeys(p) \/ InstallKey(p)
    \/ \E p \in Profiles \cup {NoProfile} : SetActive(p)

WindowNext ==
    \/ tickOnce /\ TickSeen
    \/ idleTick /\ ProbeSeen
    \/ Elapse /\ StreakOlder
    \/ (Exit \/ PowerLoss) /\ streak' = Never
    \/ Unseen /\ UNCHANGED streak

WindowSpec == WindowInit /\ [][WindowNext]_<<vars, streak>>

\* recovery.go says of idleTick that the window of no internet is continuous.
ContinuousWindow == tick.pc = "save" => streak.age >= NoInternetFor
=============================================================================
