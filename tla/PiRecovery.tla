----------------------------- MODULE PiRecovery -----------------------------
(***************************************************************************)
(* The reboot orchestration of daemon/recovery.go: a recognized Raspberry  *)
(* Pi that is reachable but gives the Mira no internet is rebooted once,   *)
(* and a flag file written before the reboot makes a restarted daemon wait *)
(* for the Pi instead of rebooting it again.                               *)
(*                                                                         *)
(* Three actors interleave: the recovery loop (one tick is several steps,  *)
(* because its ssh and TCP probes take seconds), the HTTP goroutine that   *)
(* deletes a profile, and the environment (settings changes, time, exit,   *)
(* power loss, restart).  Probe results are chosen freely in every tick.   *)
(*                                                                         *)
(* External: the file system.  Neither the flag file nor its directory is  *)
(* synced: what a power loss leaves of them is an older content, none, or  *)
(* an empty file, until the system has written them back.                  *)
(*                                                                         *)
(* A timestamp is modelled by its age, counted in units of time up to the *)
(* first that ends a wait, and by the clock it was taken from.  A          *)
(* time.Time made in this process compares on the monotonic clock; one     *)
(* parsed from the flag file compares on the wall clock, and the Car Thing *)
(* has no RTC.                                                             *)
(***************************************************************************)
EXTENDS Integers

CONSTANTS
    Profiles,       \* ids of Pi profiles
    NoInternetFor,  \* recoveryNoInternetWindowDefault, in units of time
    Patience,       \* recoveryPatienceDefault, in units of time
    ClockLoss,      \* may a restart come up with the wall clock lost?
    SlowDisk,       \* may a file stay unwritten for a unit of time or more?
    NoProfile, NoFlag, CorruptFlag, Never  \* "nothing" values

ASSUME ConstantsAssumption ==
    /\ NoInternetFor \in Nat
    /\ Patience \in Nat
    /\ ClockLoss \in BOOLEAN
    /\ SlowDisk \in BOOLEAN
    /\ NoProfile \notin Profiles
    /\ NoFlag # CorruptFlag
    /\ Never \notin Nat

VARIABLES
    life,            \* "down", "up", or "stopping" (Stop was called)
    clockSynced,     \* the wall clock has been set since it was last lost
    active,          \* ResolveActiveProfile(settings), NoProfile for nil
    keys,            \* profiles whose device key file exists
    flag,            \* the flag file, as a process sees it
    stored,          \* the flag file, as a power loss would leave it
    state, flagStartedAt, flagProfileID, rebootIssued,
    tethering,       \* sawDown or rebootFailed ("due"), then tetheringFired
    noInternetSince,
    tick,            \* the loop's position in its tick, and the tick's p
    del,             \* the profile deletion in progress, if any
    reboots,         \* history: reboots sent in this lifetime
    open,            \* history: the profile whose Pi was sent a reboot in an
                     \* episode that is not over, or NoProfile
    sinceGood,       \* history: how long noInternetSince was set and no
                     \* probe found internet, or did not find the Pi
    kept,            \* history: in this lifetime the flag file was to be
                     \* removed, that failed, and it is still there
    flagLost         \* history: the power was lost in the open episode before
                     \* its flag file was written back

disk   == <<keys, flag, stored>>
memory == <<state, flagStartedAt, flagProfileID, rebootIssued,
            tethering, noInternetSince>>
episode == <<open, flagLost>>
history == <<reboots, episode, sinceGood, kept>>
vars == <<life, clockSynced, active, disk, memory, tick, del, history>>

-----------------------------------------------------------------------------
(* Ages and timestamps.                                                    *)

Age(bound) == 0 .. bound
Older(age, bound) == IF age < bound THEN age + 1 ELSE age

\* The first age that is more than Patience.
Overdue == Patience + 1

Stamp  == [age : Age(Overdue), clock : {"mono", "synced", "lost"}]
Parsed == {s \in Stamp : s.clock # "mono"}
Flags  == [at : Parsed, profile : Profiles] \cup {NoFlag, CorruptFlag}

ASSUME FlagAssumption ==
    {NoFlag, CorruptFlag} \cap [at : Parsed, profile : Profiles] = {}

\* The clock that a Format / Parse round trip through the flag file leaves.
WallClock == IF clockSynced THEN "synced" ELSE "lost"

\* now.Sub(started) > r.patience.  A clock that was lost reads years before
\* any synced timestamp, and a synced clock years after any lost one.
PatienceOver(at) ==
    CASE at.clock = "mono" \/ at.clock = WallClock -> at.age > Patience
      [] at.clock = "synced" /\ ~clockSynced       -> FALSE
      [] OTHER                                     -> TRUE

IsRecord(f) == f \notin {NoFlag, CorruptFlag}
OlderFlag(f) == IF IsRecord(f) THEN [f EXCEPT !.at.age = Older(@, Overdue)] ELSE f

\* live: when the step began, Stop was not called (and ssh found the key).
Rest == [pc |-> "rest", profile |-> NoProfile, live |-> FALSE]
Goto(pc) == tick' = [tick EXCEPT !.pc = pc]
Idle == [pc |-> "none", profile |-> NoProfile]

EpisodeOver == open' = NoProfile /\ flagLost' = FALSE

-----------------------------------------------------------------------------
(* The removal of the flag file is best effort: an error is logged only.   *)

clearFlag ==
    \/ flag' = NoFlag /\ kept' = FALSE
    \/ flag # NoFlag /\ kept' = TRUE /\ UNCHANGED flag

-----------------------------------------------------------------------------
(* Start: bootCheck, then the loop.  newLife is the memory NewPiRecovery   *)
(* builds, with the fields bootCheck may set as parameters.                *)

NewLife(st, at, profile, issued) ==
    /\ state' = st
    /\ flagStartedAt' = at
    /\ flagProfileID' = profile
    /\ rebootIssued' = issued
    /\ tethering' = "unneeded"
    /\ noInternetSince' = Never

\* A flag file that is absent starts an ordinary lifetime.
BootNoFlag ==
    /\ flag = NoFlag
    /\ NewLife("idle", Never, NoProfile, FALSE)
    /\ UNCHANGED <<flag, episode, kept>>

\* An unparseable file or timestamp is cleared and the episode NOT consumed.
BootCorruptFlag ==
    /\ flag = CorruptFlag
    /\ clearFlag
    /\ UNCHANGED episode
    /\ NewLife("idle", Never, NoProfile, FALSE)

\* Mutant: the stale flag is left on disk.
KeepForeignFlag ==
    /\ IsRecord(flag)
    /\ PatienceOver(flag.at) \/ active # flag.profile
    /\ UNCHANGED <<flag, episode, kept>>
    /\ NewLife("idle", Never, NoProfile, TRUE)

\* A stale flag, or one for another profile, is cleared, the episode consumed.
BootForeignFlag ==
    /\ IsRecord(flag)
    /\ PatienceOver(flag.at) \/ active # flag.profile
    /\ clearFlag
    /\ IF open = flag.profile THEN EpisodeOver ELSE UNCHANGED episode
    /\ NewLife("idle", Never, NoProfile, TRUE)

\* Mutant: a fresh flag does not consume the reboot of this lifetime.
ForgetFreshFlag ==
    /\ IsRecord(flag)
    /\ ~PatienceOver(flag.at)
    /\ active = flag.profile
    /\ NewLife("idle", Never, NoProfile, FALSE)
    /\ UNCHANGED <<flag, episode, kept>>

\* A fresh flag: the previous lifetime sent the reboot, only wait for the Pi.
BootFreshFlag ==
    /\ IsRecord(flag)
    /\ ~PatienceOver(flag.at)
    /\ active = flag.profile
    /\ NewLife("waiting_after_reboot", flag.at, flag.profile, TRUE)
    /\ UNCHANGED <<flag, episode, kept>>

bootCheck == BootNoFlag \/ BootCorruptFlag \/ BootForeignFlag \/ BootFreshFlag

Start ==
    /\ life = "down"
    /\ life' = "up"
    /\ bootCheck
    /\ sinceGood' = 0
    /\ UNCHANGED <<clockSynced, active, keys, stored, tick, del, reboots>>

\* App.Close: the context is cancelled and stopCh closed.
Stop ==
    /\ life = "up"
    /\ life' = "stopping"
    /\ UNCHANGED <<clockSynced, active, disk, memory, tick, del, history>>

-----------------------------------------------------------------------------
(* tickOnce, first step: which tick runs, and idleTick's early returns.    *)
(* After Stop the select of the loop may still take the ticker.            *)

\* idleTick with nothing to watch: no decision left in this lifetime, no
\* active profile, or no device key.  noInternetSince is left as it is.
IdleTickReturns ==
    /\ state = "idle"
    /\ rebootIssued \/ active = NoProfile \/ active \notin keys
    /\ UNCHANGED <<flag, memory, tick, episode, kept>>

\* Mutant: idleTick without its rebootIssued check.
ProbeAgain ==
    /\ state = "idle"
    /\ active \in keys
    /\ tick' = [pc |-> "idleProbe", profile |-> active, live |-> (life = "up")]
    /\ UNCHANGED <<flag, memory, episode, kept>>

IdleTickProbes ==
    /\ state = "idle"
    /\ ~rebootIssued
    /\ active \in keys
    /\ tick' = [pc |-> "idleProbe", profile |-> active, live |-> (life = "up")]
    /\ UNCHANGED <<flag, memory, episode, kept>>

\* state is reset but flagProfileID is kept, as in waitTick.
EndEpisode ==
    /\ clearFlag
    /\ EpisodeOver
    /\ state' = "idle"
    /\ flagStartedAt' = Never
    /\ UNCHANGED <<flagProfileID, rebootIssued, tethering, noInternetSince>>

WaitTickTimesOut ==
    /\ state # "idle"
    /\ PatienceOver(flagStartedAt)
    /\ EndEpisode
    /\ UNCHANGED tick

WaitTickProbes ==
    /\ state # "idle"
    /\ ~PatienceOver(flagStartedAt)
    /\ Goto("waitProbe")
    /\ UNCHANGED <<flag, memory, episode, kept>>

tickOnce ==
    /\ life # "down"
    /\ tick.pc = "rest"
    /\ IdleTickReturns \/ IdleTickProbes \/ WaitTickTimesOut \/ WaitTickProbes
    /\ UNCHANGED <<life, clockSynced, active, keys, stored, del, reboots, sinceGood>>

-----------------------------------------------------------------------------
(* idleTick after its probes.  A cancelled context makes a probe fail.     *)

ProbeResult(live) == IF live THEN BOOLEAN ELSE {FALSE}

\* Mutant: a good probe leaves the window running.
KeepWindow ==
    /\ sinceGood' = 0
    /\ tick' = Rest
    /\ UNCHANGED noInternetSince

\* The Pi did not answer, or there is internet: the window starts over.
IdleProbeResets ==
    /\ noInternetSince' = Never
    /\ sinceGood' = 0
    /\ tick' = Rest

\* Reachable and no internet: the first such tick starts the window, later
\* ones wait for its end, and then the reboot is decided.
IdleProbeCounts ==
    /\ noInternetSince' = IF noInternetSince = Never THEN 0 ELSE noInternetSince
    /\ tick' = IF noInternetSince # Never /\ noInternetSince >= NoInternetFor
                 THEN [tick EXCEPT !.pc = "save"]
                 ELSE Rest
    /\ UNCHANGED sinceGood

idleTick ==
    /\ life # "down"
    /\ tick.pc = "idleProbe"
    /\ \E reachable \in ProbeResult(tick.live), netOK \in ProbeResult(life = "up") :
          \/ (~reachable \/ netOK) /\ IdleProbeResets
          \/ reachable /\ ~netOK /\ IdleProbeCounts
    /\ UNCHANGED <<life, clockSynced, active, disk, state, flagStartedAt,
                   flagProfileID, rebootIssued, tethering, del, reboots, episode,
                   kept>>

-----------------------------------------------------------------------------
(* issueReboot: the flag file, then the ssh reboot, then the waiting phase.*)

\* Mutant: the profile is read from the settings again, after the probes.
SaveFlagForActive ==
    /\ flag' = [at |-> [age |-> 0, clock |-> WallClock], profile |-> active]
    /\ state' = "rebooting"
    /\ kept' = FALSE
    /\ tick' = [tick EXCEPT !.pc = "ssh",
                            !.live = (life = "up" /\ tick.profile \in keys)]

\* saveFlag replaces the file atomically (tmp + rename), and syncs nothing.
SaveFlagOK ==
    /\ flag' = [at |-> [age |-> 0, clock |-> WallClock], profile |-> tick.profile]
    /\ state' = "rebooting"
    /\ kept' = FALSE
    /\ tick' = [tick EXCEPT !.pc = "ssh",
                            !.live = (life = "up" /\ tick.profile \in keys)]

\* Persisting failed: no reboot, the next tick tries again.
SaveFlagFails ==
    /\ tick' = Rest
    /\ UNCHANGED <<flag, state, kept>>

saveFlag ==
    /\ life # "down"
    /\ tick.pc = "save"
    /\ SaveFlagOK \/ SaveFlagFails
    /\ UNCHANGED <<life, clockSynced, active, keys, stored, flagStartedAt,
                   flagProfileID, rebootIssued, tethering, noInternetSince, del,
                   reboots, episode, sinceGood>>

\* The ssh command may be delivered and still return an error (the link drops
\* early).
SshReboot ==
    \E delivered \in BOOLEAN, err \in BOOLEAN :
        /\ delivered \/ err
        /\ delivered => tick.live
        /\ tethering' = IF err THEN "due" ELSE "unneeded"
        /\ reboots' = IF delivered THEN reboots + 1 ELSE reboots
        /\ open' = IF delivered THEN tick.profile ELSE open
        /\ flagLost' = IF delivered THEN FALSE ELSE flagLost

issueReboot ==
    /\ life # "down"
    /\ tick.pc = "ssh"
    /\ SshReboot
    /\ state' = "waiting_after_reboot"
    /\ flagStartedAt' = [age |-> 0, clock |-> "mono"]
    /\ flagProfileID' = tick.profile
    /\ rebootIssued' = TRUE
    /\ noInternetSince' = Never
    /\ tick' = Rest
    /\ sinceGood' = 0
    /\ UNCHANGED <<life, clockSynced, active, disk, del, kept>>

-----------------------------------------------------------------------------
(* waitTick after its probes.                                              *)

WaitProbeOnline ==
    /\ life = "up"
    /\ EndEpisode

\* The tethering script is re-fired once, when the Pi is back from being down
\* or when the reboot command of this lifetime had failed.
WaitProbeOffline ==
    \E reachable \in ProbeResult(life = "up") :
        /\ tethering' = CASE tethering = "unneeded" /\ ~reachable -> "due"
                          [] tethering = "due" /\ reachable       -> "fired"
                          [] OTHER                                -> tethering
        /\ UNCHANGED <<flag, state, flagStartedAt, flagProfileID, rebootIssued,
                       noInternetSince, episode, kept>>

waitTick ==
    /\ life # "down"
    /\ tick.pc = "waitProbe"
    /\ WaitProbeOnline \/ WaitProbeOffline
    /\ tick' = Rest
    /\ UNCHANGED <<life, clockSynced, active, keys, stored, del, reboots, sinceGood>>

-----------------------------------------------------------------------------
(* DeletePiProfile, on an HTTP goroutine: the key files, then the flag     *)
(* file, then the in-memory episode (ClearFlagForProfile).                 *)

DeleteKeys(p) ==
    /\ life = "up"
    /\ del = Idle
    /\ keys' = keys \ {p}
    /\ del' = [pc |-> "flag", profile |-> p]
    /\ UNCHANGED <<life, clockSynced, active, flag, stored, memory, tick, history>>

FlagBelongsTo(p) == IsRecord(flag) /\ flag.profile = p

ClearFlagFile ==
    /\ life # "down"
    /\ del.pc = "flag"
    /\ IF FlagBelongsTo(del.profile)
       THEN /\ clearFlag
            /\ EpisodeOver
            /\ del' = [del EXCEPT !.pc = "memory"]
       ELSE /\ del' = Idle
            /\ UNCHANGED <<flag, episode, kept>>
    /\ UNCHANGED <<life, clockSynced, active, keys, stored, memory, tick, reboots,
                   sinceGood>>

ClearFlagMemory ==
    /\ life # "down"
    /\ del.pc = "memory"
    /\ IF flagProfileID = del.profile
       THEN /\ state' = "idle"
            /\ flagStartedAt' = Never
            /\ flagProfileID' = NoProfile
       ELSE UNCHANGED <<state, flagStartedAt, flagProfileID>>
    /\ del' = Idle
    /\ UNCHANGED <<life, clockSynced, active, disk, rebootIssued, tethering,
                   noInternetSince, tick, history>>

ClearFlagForProfile == ClearFlagFile \/ ClearFlagMemory

-----------------------------------------------------------------------------
(* The environment.                                                        *)

\* PutSettings selects another profile or none; the blob is persisted.
SetActive(p) ==
    /\ life = "up"
    /\ p # active
    /\ active' = p
    /\ UNCHANGED <<life, clockSynced, disk, memory, tick, del, history>>

\* The provisioning wizard installs the device key of a profile.  A profile
\* set up again after its deletion starts without an episode; setting it up
\* takes minutes, a tick that still acts for the old one ends within seconds.
InstallKey(p) ==
    /\ life = "up"
    /\ del.profile # p
    /\ tick.profile # p
    /\ p \notin keys
    /\ keys' = keys \cup {p}
    /\ IF open = p THEN EpisodeOver ELSE UNCHANGED episode
    /\ UNCHANGED <<life, clockSynced, active, flag, stored, memory, tick, del,
                   reboots, sinceGood, kept>>

Elapse ==
    /\ SlowDisk \/ stored = flag
    /\ flag' = OlderFlag(flag)
    /\ stored' = OlderFlag(stored)
    /\ flagStartedAt' = IF flagStartedAt = Never THEN Never
               ELSE [flagStartedAt EXCEPT !.age = Older(@, Overdue)]
    /\ noInternetSince' = IF noInternetSince = Never THEN Never
               ELSE Older(noInternetSince, NoInternetFor)
    /\ sinceGood' = IF noInternetSince = Never THEN sinceGood
                    ELSE Older(sinceGood, NoInternetFor)
    /\ UNCHANGED <<life, clockSynced, active, keys, state, flagProfileID,
                   rebootIssued, tethering, tick, del, reboots, episode, kept>>

\* NTP sets the clock.  Timestamps taken before are compared as they are.
ClockSync ==
    /\ ~clockSynced
    /\ clockSynced' = TRUE
    /\ UNCHANGED <<life, active, disk, memory, tick, del, history>>

\* The system writes the flag file back, or its removal.
Writeback ==
    /\ stored # flag
    /\ stored' = flag
    /\ UNCHANGED <<life, clockSynced, active, keys, flag, memory, tick, del, history>>

\* Nothing of the memory survives the process.
GoesDown ==
    /\ life # "down"
    /\ life' = "down"
    /\ NewLife("idle", Never, NoProfile, FALSE)
    /\ tick' = Rest
    /\ del' = Idle
    /\ reboots' = 0
    /\ kept' = FALSE
    /\ sinceGood' = 0
    /\ UNCHANGED <<active, keys>>

\* The process exits or is killed at any point, and the system runs on.
Exit ==
    /\ GoesDown
    /\ UNCHANGED <<clockSynced, flag, stored, episode>>

\* What the power loss finds on the disk.  The directory may be written before
\* the data of the file, which then is empty.
Remains ==
    {stored} \cup IF stored # flag /\ IsRecord(flag) THEN {CorruptFlag} ELSE {}

\* The power is lost at any point.  Without an RTC the clock may restart from its
\* base, and a flag written on such a clock then looks newly written.  Keys and
\* settings are as they were.
PowerLoss ==
    /\ GoesDown
    /\ clockSynced' \in IF ClockLoss THEN BOOLEAN ELSE {clockSynced}
    /\ \E left \in Remains :
          /\ flag' = IF IsRecord(left) /\ left.at.clock = "lost" /\ ~clockSynced'
                     THEN [left EXCEPT !.at.age = 0] ELSE left
          /\ flagLost' = (flagLost \/ (open # NoProfile /\ left # flag))
    /\ stored' = flag'
    /\ UNCHANGED open

-----------------------------------------------------------------------------
Init ==
    /\ life = "down"
    /\ clockSynced \in IF ClockLoss THEN BOOLEAN ELSE {TRUE}
    /\ active \in Profiles \cup {NoProfile}
    /\ keys \in SUBSET Profiles
    /\ flag = NoFlag
    /\ stored = NoFlag
    /\ state = "idle"
    /\ flagStartedAt = Never
    /\ flagProfileID = NoProfile
    /\ rebootIssued = FALSE
    /\ tethering = "unneeded"
    /\ noInternetSince = Never
    /\ tick = Rest
    /\ del = Idle
    /\ reboots = 0
    /\ open = NoProfile
    /\ sinceGood = 0
    /\ kept = FALSE
    /\ flagLost = FALSE

Loop == tickOnce \/ idleTick \/ saveFlag \/ issueReboot \/ waitTick

Next ==
    \/ Start
    \/ Stop
    \/ tickOnce
    \/ idleTick
    \/ saveFlag
    \/ issueReboot
    \/ waitTick
    \/ \E p \in Profiles : DeleteKeys(p)
    \/ ClearFlagForProfile
    \/ \E p \in Profiles \cup {NoProfile} : SetActive(p)
    \/ \E p \in Profiles : InstallKey(p)
    \/ Elapse
    \/ ClockSync
    \/ Writeback
    \/ Exit
    \/ PowerLoss

Spec == Init /\ [][Next]_vars

-----------------------------------------------------------------------------
(* Properties.                                                             *)

\* The types of the fields of PiRecovery, of the flag file and of the ghosts.
TypeOK ==
    /\ life \in {"down", "up", "stopping"}
    /\ clockSynced \in BOOLEAN
    /\ active \in Profiles \cup {NoProfile}
    /\ keys \subseteq Profiles
    /\ flag \in Flags
    /\ stored \in Flags
    /\ state \in {"idle", "rebooting", "waiting_after_reboot"}
    /\ flagStartedAt \in Stamp \cup {Never}
    /\ flagProfileID \in Profiles \cup {NoProfile}
    /\ rebootIssued \in BOOLEAN
    /\ tethering \in {"unneeded", "due", "fired"}
    /\ noInternetSince \in Age(NoInternetFor) \cup {Never}
    /\ tick \in [pc : {"rest", "idleProbe", "save", "ssh", "waitProbe"},
                  profile : Profiles \cup {NoProfile}, live : BOOLEAN]
    /\ del \in [pc : {"none", "flag", "memory"},
                 profile : Profiles \cup {NoProfile}]
    /\ reboots \in Nat
    /\ open \in Profiles \cup {NoProfile}
    /\ sinceGood \in Age(NoInternetFor)
    /\ kept \in BOOLEAN
    /\ flagLost \in BOOLEAN

\* issueReboot sends at most one reboot per daemon lifetime, whatever profile
\* switches and deletions interleave with the ticks (rebootIssued).
OncePerLifetime == reboots <= 1

\* Across restarts: a Pi is not rebooted a second time while the episode of its
\* first reboot is open, wherever the daemon was cut off (flag before reboot),
\* unless the power went before the flag file was written back.
OncePerEpisode ==
    [][reboots' > reboots => open # tick.profile \/ flagLost]_vars

\* recovery.go says of the flag file, written before the reboot that almost
\* certainly restarts the Mira too: "the flag must survive that restart or the
\* mira would reboot the rpi a second time".
NeverTwice == [][reboots' > reboots => open # tick.profile]_vars

\* idleTick decides for a reboot only when no probe of the last NoInternetFor
\* units of time, all in this lifetime, found internet or missed the Pi.
QuietWindow == tick.pc = "save" => sinceGood >= NoInternetFor

\* The flag file does not outlive its episode: internet, patience, deletion or
\* the next boot removes it, however often the daemon is restarted, once the
\* wall clock is right for good (a lost clock can put the end off for ever).
\* Only a removal that fails leaves it, until the next boot tries again.
FlagCleared == <>[]clockSynced => []<>(flag = NoFlag \/ kept)
=============================================================================
