-------------------------- MODULE PiRecovery_proofs --------------------------
(***************************************************************************)
(* Proofs about PiRecovery, for any profiles, window and patience, and     *)
(* with or without loss of the wall clock; and RecoveryWindow, which does  *)
(* what PiRecovery does.                                                   *)
(***************************************************************************)
EXTENDS RecoveryWindow, TLAPS

\* What a daemon that is not running has left behind.
DownClean ==
    life = "down" => tick = Rest /\ del = Idle /\ reboots = 0

\* A tick past its early returns acts for a profile.
ProfileKnown == tick.pc \in {"idleProbe", "save", "ssh"} => tick.profile \in Profiles

\* idleTick goes on to its probes and to issueReboot only in a lifetime that
\* has not sent its reboot, and for a profile without an open episode.
Deciding ==
    /\ tick.pc \in {"idleProbe", "save", "ssh"} =>
          /\ ~rebootIssued
          /\ open # tick.profile \/ flagLost
    /\ ~rebootIssued => reboots = 0

\* The flag file is written before the reboot is sent and stays while the
\* episode is open, unless the profile's keys were deleted or the power was lost
\* before it was written back.
FlagFirst ==
    /\ tick.pc = "ssh" => FlagBelongsTo(tick.profile) \/ tick.profile \notin keys
    /\ open # NoProfile => FlagBelongsTo(open) \/ open \notin keys \/ flagLost

\* DeletePiProfile removes the key files before the flag file.
KeysFirst == del.pc # "none" => del.profile \notin keys

\* A lifetime that may still decide knows of no open episode it could repeat.
BootSaw == life # "down" /\ ~rebootIssued => open \notin keys \/ flagLost

EpisodeInv ==
    DownClean /\ Deciding /\ FlagFirst /\ KeysFirst /\ BootSaw /\ OncePerLifetime

\* The no-internet window began after the last good probe.
WindowInv ==
    /\ noInternetSince # Never => sinceGood >= noInternetSince
    /\ life = "down" => tick = Rest
    /\ QuietWindow

-----------------------------------------------------------------------------
\* Ages stay within their bound.
LEMMA OlderType ==
    ASSUME NEW bound \in Nat, NEW age \in Age(bound)
    PROVE  Older(age, bound) \in Age(bound)
BY DEF Age, Older

\* The stamp and the profile of a flag file that could be read.
LEMMA FlagFields ==
    ASSUME NEW f \in Flags, IsRecord(f)
    PROVE  f \in [at : Parsed, profile : Profiles] /\ f.at \in Stamp
BY DEF Flags, Parsed, IsRecord

\* Ageing a flag file keeps the profile it is for.
LEMMA FlagAges ==
    ASSUME NEW f \in Flags, IsRecord(f), NEW age \in Age(Overdue),
           NEW g, g = [f EXCEPT !.at.age = age]
    PROVE  g \in Flags /\ IsRecord(g) /\ g.profile = f.profile
<1>1. f \in [at : Parsed, profile : Profiles]
  BY FlagFields
<1>2. g = [at |-> [age |-> age, clock |-> f.at.clock], profile |-> f.profile]
  BY <1>1 DEF Parsed, Stamp
<1>3. g \in [at : Parsed, profile : Profiles]
  BY <1>1, <1>2 DEF Parsed, Stamp
<1> QED
  BY <1>2, <1>3, FlagAssumption DEF Flags, IsRecord

\* Time passes for a flag file that can be read, and only for that.
LEMMA FlagOlder ==
    ASSUME NEW f \in Flags
    PROVE  /\ OlderFlag(f) \in Flags
           /\ IsRecord(f) => IsRecord(OlderFlag(f)) /\ OlderFlag(f).profile = f.profile
<1>1. CASE IsRecord(f)
  <2>1. f.at.age \in Age(Overdue)
    BY <1>1, FlagFields DEF Stamp
  <2>2. Older(f.at.age, Overdue) \in Age(Overdue)
    BY <2>1, OlderType, ConstantsAssumption DEF Overdue
  <2>3. OlderFlag(f) = [f EXCEPT !.at.age = Older(f.at.age, Overdue)]
    BY <1>1 DEF OlderFlag
  <2> QED BY <1>1, <2>2, <2>3, FlagAges
<1>2. CASE ~IsRecord(f)
  BY <1>2 DEF OlderFlag
<1> QED BY <1>1, <1>2

\* The file a power loss leaves: the one of this life, or another and that is noted.
LEMMA FlagLeft ==
    ASSUME flag \in Flags, stored \in Flags, PowerLoss
    PROVE  /\ flag' \in Flags
           /\ \/ IsRecord(flag) => IsRecord(flag') /\ flag'.profile = flag.profile
              \/ open # NoProfile => flagLost'
           /\ flagLost => flagLost'
<1>1. PICK left \in Remains :
          /\ flag' = IF IsRecord(left) /\ left.at.clock = "lost" /\ ~clockSynced'
                     THEN [left EXCEPT !.at.age = 0] ELSE left
          /\ flagLost' = (flagLost \/ (open # NoProfile /\ left # flag))
  BY DEF PowerLoss
<1>2. left \in Flags
  BY DEF Remains, Flags
<1>3. 0 \in Age(Overdue)
  BY ConstantsAssumption DEF Age, Overdue
<1>4. flag' \in Flags /\ (IsRecord(left) => IsRecord(flag') /\ flag'.profile = left.profile)
  <2>1. CASE flag' = left
    BY <1>2, <2>1
  <2>2. CASE IsRecord(left) /\ flag' = [left EXCEPT !.at.age = 0]
    BY <1>2, <1>3, <2>2, FlagAges
  <2> QED BY <1>1, <2>1, <2>2
<1> QED BY <1>1, <1>4

\* The best-effort removal, and the end of an episode.
LEMMA ClearType ==
    ASSUME flag \in Flags, clearFlag
    PROVE  flag' \in Flags /\ kept' \in BOOLEAN
BY DEF clearFlag, Flags

LEMMA OverType ==
    ASSUME EpisodeOver
    PROVE  open' \in Profiles \cup {NoProfile} /\ flagLost' \in BOOLEAN
BY DEF EpisodeOver

LEMMA EndType ==
    ASSUME flag \in Flags, EndEpisode
    PROVE  /\ flag' \in Flags /\ kept' \in BOOLEAN
           /\ open' \in Profiles \cup {NoProfile} /\ flagLost' \in BOOLEAN
           /\ state' = "idle" /\ flagStartedAt' = Never
           /\ UNCHANGED <<flagProfileID, rebootIssued, tethering, noInternetSince>>
BY ClearType, OverType DEF EndEpisode

TypeInv == TypeOK /\ ProfileKnown

\* The memory of a lifetime that begins is well-typed when what it takes over is.
LEMMA NewLifeType ==
    ASSUME NEW st \in {"idle", "waiting_after_reboot"}, NEW at \in Stamp \cup {Never},
           NEW p \in Profiles \cup {NoProfile}, NEW issued \in BOOLEAN, NewLife(st, at, p, issued)
    PROVE  /\ state' \in {"idle", "rebooting", "waiting_after_reboot"}
           /\ flagStartedAt' \in Stamp \cup {Never}
           /\ flagProfileID' \in Profiles \cup {NoProfile}
           /\ rebootIssued' \in BOOLEAN
           /\ tethering' \in {"unneeded", "due", "fired"}
           /\ noInternetSince' \in Age(NoInternetFor) \cup {Never}
BY DEF NewLife

LEMMA TypeStep == TypeInv /\ [Next]_vars => TypeInv'
<1> SUFFICES ASSUME TypeInv, [Next]_vars PROVE TypeInv'
    OBVIOUS
<1> USE ConstantsAssumption DEF TypeInv, TypeOK, ProfileKnown
<1>n. NoFlag \in Flags /\ CorruptFlag \in Flags
    BY DEF Flags
<1>z. ASSUME NEW b \in Nat PROVE 0 \in Age(b)
    BY DEF Age
<1>r. /\ Rest \in [pc : {"rest", "idleProbe", "save", "ssh", "waitProbe"},
                   profile : Profiles \cup {NoProfile}, live : BOOLEAN]
      /\ Rest.pc = "rest"
    BY DEF Rest
<1>i. Idle \in [pc : {"none", "flag", "memory"}, profile : Profiles \cup {NoProfile}]
    BY DEF Idle
<1>1. CASE Start
  <2>0. /\ life' = "up" /\ sinceGood' \in Age(NoInternetFor)
        /\ UNCHANGED <<clockSynced, active, keys, stored, tick, del, reboots>>
    BY <1>1, <1>z DEF Start
  <2>1. CASE BootNoFlag \/ BootCorruptFlag \/ BootForeignFlag
    <3>1. /\ flag' \in Flags /\ kept' \in BOOLEAN
          /\ open' \in Profiles \cup {NoProfile} /\ flagLost' \in BOOLEAN
      BY <2>1, <1>n DEF BootNoFlag, BootCorruptFlag, BootForeignFlag, clearFlag, episode, EpisodeOver
    <3>2. \E issued \in BOOLEAN : NewLife("idle", Never, NoProfile, issued)
      BY <2>1 DEF BootNoFlag, BootCorruptFlag, BootForeignFlag
    <3> QED
      BY <2>0, <3>1, <3>2, NewLifeType
  <2>2. CASE BootFreshFlag
    <3>1. /\ UNCHANGED <<flag, open, flagLost, kept>>
          /\ NewLife("waiting_after_reboot", flag.at, flag.profile, TRUE)
      BY <2>2 DEF BootFreshFlag, episode
    <3>2. flag.at \in Stamp /\ flag.profile \in Profiles
      BY <2>2, FlagFields DEF BootFreshFlag
    <3>3. /\ state' \in {"idle", "rebooting", "waiting_after_reboot"}
          /\ flagStartedAt' \in Stamp \cup {Never}
          /\ flagProfileID' \in Profiles \cup {NoProfile}
          /\ rebootIssued' \in BOOLEAN
          /\ tethering' \in {"unneeded", "due", "fired"}
          /\ noInternetSince' \in Age(NoInternetFor) \cup {Never}
      BY <3>1, <3>2, NewLifeType
    <3> QED
      BY <2>0, <3>1, <3>3
  <2> QED
    BY <1>1, <2>1, <2>2 DEF Start, bootCheck
<1>2. CASE Stop
    BY <1>2 DEF Stop, disk, memory, history, episode
<1>3. CASE tickOnce
  <2>1. CASE IdleTickReturns
    BY <1>3, <2>1 DEF tickOnce, IdleTickReturns, memory, episode
  <2>2. CASE IdleTickProbes
    <3>1. active \in Profiles
      BY <2>2 DEF IdleTickProbes
    <3>2. tick' = [pc |-> "idleProbe", profile |-> active, live |-> (life = "up")]
      BY <2>2 DEF IdleTickProbes
    <3>3. tick' \in [pc : {"rest", "idleProbe", "save", "ssh", "waitProbe"},
                     profile : Profiles \cup {NoProfile}, live : BOOLEAN]
          /\ tick'.profile \in Profiles
      BY <3>1, <3>2
    <3> QED
      BY <1>3, <2>2, <3>3 DEF tickOnce, IdleTickProbes, memory, episode
  <2>3. CASE WaitTickTimesOut
    BY <1>3, <2>3, EndType DEF tickOnce, WaitTickTimesOut
  <2>4. CASE WaitTickProbes
    BY <1>3, <2>4 DEF tickOnce, WaitTickProbes, Goto, memory, episode
  <2> QED
    BY <1>3, <2>1, <2>2, <2>3, <2>4 DEF tickOnce
<1>4. CASE idleTick
  <2>1. CASE IdleProbeResets
    BY <1>4, <2>1, <1>r, <1>z DEF idleTick, IdleProbeResets, disk, episode
  <2>2. CASE IdleProbeCounts
    <3>1. tick.profile \in Profiles
      BY <1>4 DEF idleTick
    <3>3. noInternetSince' \in Age(NoInternetFor) \cup {Never}
      BY <2>2, <1>z DEF IdleProbeCounts
    <3>4. tick' \in [pc : {"rest", "idleProbe", "save", "ssh", "waitProbe"},
                     profile : Profiles \cup {NoProfile}, live : BOOLEAN]
          /\ ProfileKnown'
      BY <2>2, <3>1, <1>r DEF IdleProbeCounts
    <3> QED
      BY <1>4, <2>2, <3>3, <3>4 DEF idleTick, IdleProbeCounts, disk, episode
  <2> QED
    BY <1>4, <2>1, <2>2 DEF idleTick
<1>5. CASE saveFlag
  <2>1. CASE SaveFlagOK
    <3>1. flag' \in Flags
      BY <1>5, <2>1, <1>z DEF saveFlag, SaveFlagOK, Flags, Parsed, Stamp, WallClock, Overdue
    <3>2. tick' = [tick EXCEPT !.pc = "ssh", !.live = tick'.live]
          /\ tick'.live \in BOOLEAN
      BY <2>1 DEF SaveFlagOK
    <3>3. tick' \in [pc : {"rest", "idleProbe", "save", "ssh", "waitProbe"},
                     profile : Profiles \cup {NoProfile}, live : BOOLEAN]
          /\ tick'.profile = tick.profile
      BY <3>2
    <3>4. kept' \in BOOLEAN /\ state' = "rebooting" /\ UNCHANGED <<open, flagLost>>
      BY <1>5, <2>1 DEF saveFlag, SaveFlagOK, episode
    <3>5. tick'.profile \in Profiles
      BY <1>5, <3>3 DEF saveFlag
    <3> QED
      BY <1>5, <3>1, <3>3, <3>4, <3>5 DEF saveFlag
  <2>2. CASE SaveFlagFails
    BY <1>5, <2>2, <1>r DEF saveFlag, SaveFlagFails, history, episode
  <2> QED
    BY <1>5, <2>1, <2>2 DEF saveFlag
<1>6. CASE issueReboot
  <2>1. tethering' \in {"unneeded", "due", "fired"} /\ reboots' \in Nat
    BY <1>6 DEF issueReboot, SshReboot
  <2>2. flagStartedAt' \in Stamp
    BY <1>6, <1>z DEF issueReboot, Stamp, Overdue
  <2>3. open' \in Profiles \cup {NoProfile} /\ flagLost' \in BOOLEAN
    BY <1>6 DEF issueReboot, SshReboot
  <2> QED
    BY <1>6, <2>1, <2>2, <2>3, <1>r, <1>z DEF issueReboot, disk
<1>7. CASE waitTick
  <2>1. CASE WaitProbeOnline
    BY <1>7, <2>1, <1>r, EndType DEF waitTick, WaitProbeOnline
  <2>2. CASE WaitProbeOffline
    <3>1. tethering' \in {"unneeded", "due", "fired"}
      BY <2>2 DEF WaitProbeOffline
    <3> QED
      BY <1>7, <2>2, <3>1, <1>r DEF waitTick, WaitProbeOffline, episode
  <2> QED
    BY <1>7, <2>1, <2>2 DEF waitTick
<1>8. ASSUME NEW p \in Profiles, DeleteKeys(p) PROVE TypeInv'
    BY <1>8 DEF DeleteKeys, memory, history, episode
<1>9. CASE ClearFlagForProfile
  <2>1. CASE ClearFlagFile
    <3>1. flag' \in Flags /\ kept' \in BOOLEAN
      BY <2>1, ClearType DEF ClearFlagFile
    <3>2. open' \in Profiles \cup {NoProfile} /\ flagLost' \in BOOLEAN
      BY <2>1, OverType DEF ClearFlagFile, episode
    <3>3. del' \in [pc : {"none", "flag", "memory"}, profile : Profiles \cup {NoProfile}]
      BY <2>1, <1>i DEF ClearFlagFile
    <3> QED
      BY <2>1, <3>1, <3>2, <3>3 DEF ClearFlagFile, memory
  <2>2. CASE ClearFlagMemory
    BY <1>9, <2>2, <1>i DEF ClearFlagMemory, disk, history, episode
  <2> QED
    BY <1>9, <2>1, <2>2 DEF ClearFlagForProfile
<1>10. ASSUME NEW p \in Profiles \cup {NoProfile}, SetActive(p) PROVE TypeInv'
    BY <1>10 DEF SetActive, disk, memory, history, episode
<1>11. ASSUME NEW p \in Profiles, InstallKey(p) PROVE TypeInv'
  <2>1. open' \in Profiles \cup {NoProfile} /\ flagLost' \in BOOLEAN
    BY <1>11, OverType DEF InstallKey, episode
  <2> QED
    BY <1>11, <2>1 DEF InstallKey, memory
<1>12. CASE Elapse
  <2>1. flag' \in Flags /\ stored' \in Flags
    BY <1>12, FlagOlder DEF Elapse
  <2>2. flagStartedAt' \in Stamp \cup {Never}
    BY <1>12, OlderType DEF Elapse, Stamp, Overdue
  <2>3. noInternetSince' \in Age(NoInternetFor) \cup {Never}
    BY <1>12, OlderType DEF Elapse
  <2>4. sinceGood' \in Age(NoInternetFor)
    BY <1>12, OlderType DEF Elapse
  <2> QED
    BY <1>12, <2>1, <2>2, <2>3, <2>4 DEF Elapse, episode
<1>13. CASE ClockSync
    BY <1>13 DEF ClockSync, disk, memory, history, episode
<1>14. CASE Exit \/ PowerLoss
  <2>1. /\ GoesDown /\ stored' \in Flags
        /\ flag' \in Flags /\ clockSynced' \in BOOLEAN /\ flagLost' \in BOOLEAN
    <3>1. CASE Exit
      BY <3>1 DEF Exit, episode
    <3>2. CASE PowerLoss
      <4>1. flag' \in Flags
        BY <3>2, FlagLeft
      <4> QED BY <3>2, <4>1 DEF PowerLoss
    <3> QED BY <1>14, <3>1, <3>2
  <2>2. open' = open
    BY <1>14 DEF Exit, PowerLoss, episode
  <2> QED
    BY <2>1, <2>2, <1>r, <1>i, <1>z DEF GoesDown, NewLife
<1>15. CASE Writeback
    BY <1>15 DEF Writeback, memory, history, episode
<1>16. CASE UNCHANGED vars
    BY <1>16 DEF vars, disk, memory, history, episode
<1> QED
    BY <1>1, <1>2, <1>3, <1>4, <1>5, <1>6, <1>7, <1>8, <1>9, <1>10, <1>11, <1>12,
       <1>13, <1>14, <1>15, <1>16 DEF Next

LEMMA TypeInit == Init => TypeInv
<1> SUFFICES ASSUME Init PROVE TypeInv
    OBVIOUS
<1> USE ConstantsAssumption DEF Init
<1>1. tick \in [pc : {"rest", "idleProbe", "save", "ssh", "waitProbe"},
                profile : Profiles \cup {NoProfile}, live : BOOLEAN]
      /\ ProfileKnown
    BY DEF Rest, ProfileKnown
<1>2. del \in [pc : {"none", "flag", "memory"}, profile : Profiles \cup {NoProfile}]
    BY DEF Idle
<1>3. flag \in Flags /\ stored \in Flags /\ sinceGood \in Age(NoInternetFor)
    BY DEF Flags, Age
<1> QED
    BY <1>1, <1>2, <1>3 DEF TypeInv, TypeOK

\* The fields of PiRecovery and the flag file keep their types: in particular a
\* flag is only ever written for a profile, whatever the settings become
\* during a tick.
THEOREM TypeCorrect == Spec => []TypeOK
<1>1. TypeInv => TypeOK
    BY DEF TypeInv
<1> QED
    BY <1>1, TypeInit, TypeStep, PTL DEF Spec

-----------------------------------------------------------------------------
\* Each conjunct of EpisodeInv is kept by every step.
LEMMA EpisodeStep == TypeInv /\ EpisodeInv /\ [Next]_vars => EpisodeInv'
<1> SUFFICES ASSUME TypeInv, EpisodeInv, [Next]_vars PROVE EpisodeInv'
    OBVIOUS
<1> USE ConstantsAssumption DEF TypeInv, TypeOK, ProfileKnown, EpisodeInv, DownClean,
        Deciding, FlagFirst, KeysFirst, BootSaw, OncePerLifetime, FlagBelongsTo
<1>r. Rest.pc = "rest" /\ Idle.pc = "none"
    BY DEF Rest, Idle
\* Steps that do not touch the episode or the tick.
<1>s. ASSUME UNCHANGED <<life, keys, flag, rebootIssued, tick, del, reboots, open, flagLost>>
      PROVE EpisodeInv'
    BY <1>s
<1>1. CASE Start
  <2> USE <1>1 DEF Start, NewLife
  <2>1. tick' = Rest /\ del' = Idle /\ reboots' = 0 /\ keys' = keys /\ life' = "up"
    OBVIOUS
  <2>2. CASE BootNoFlag \/ BootCorruptFlag
    BY <2>1, <2>2, <1>r DEF BootNoFlag, BootCorruptFlag, clearFlag, episode, IsRecord
  <2>3. CASE BootForeignFlag
    BY <2>1, <2>3, <1>r DEF BootForeignFlag, clearFlag, episode, EpisodeOver
  <2>4. CASE BootFreshFlag
    BY <2>1, <2>4, <1>r DEF BootFreshFlag, episode
  <2> QED
    BY <2>2, <2>3, <2>4 DEF bootCheck
<1>2. CASE Stop
    BY <1>2 DEF Stop, disk, memory, history, episode
<1>3. CASE tickOnce
  <2>1. CASE IdleTickReturns
    BY <1>3, <2>1, <1>s DEF tickOnce, IdleTickReturns, memory, episode
  <2>2. CASE IdleTickProbes
    <3>1. tick'.pc = "idleProbe" /\ tick'.profile = active
      BY <2>2 DEF IdleTickProbes
    <3>2. /\ active \in keys /\ ~rebootIssued /\ life # "down"
          /\ UNCHANGED <<life, keys, flag, rebootIssued, del, reboots, open, flagLost>>
      BY <1>3, <2>2 DEF tickOnce, IdleTickProbes, memory, episode
    <3> QED
      BY <3>1, <3>2
  <2>3. CASE WaitTickTimesOut
    BY <1>3, <2>3 DEF tickOnce, WaitTickTimesOut, EndEpisode, EpisodeOver
  <2>4. CASE WaitTickProbes
    BY <1>3, <2>4 DEF tickOnce, WaitTickProbes, Goto, memory, episode
  <2> QED
    BY <1>3, <2>1, <2>2, <2>3, <2>4 DEF tickOnce
<1>4. CASE idleTick
  <2>1. tick' = Rest \/ tick' = [tick EXCEPT !.pc = "save"]
    BY <1>4 DEF idleTick, IdleProbeResets, IdleProbeCounts
  <2>2. /\ tick.pc = "idleProbe" /\ life # "down"
        /\ UNCHANGED <<life, keys, flag, rebootIssued, del, reboots, open, flagLost>>
    BY <1>4 DEF idleTick, disk, episode
  <2>3. \/ tick'.pc = "rest"
        \/ tick'.pc = "save" /\ tick'.profile = tick.profile
    BY <2>1, <1>r
  <2> QED
    BY <2>2, <2>3
<1>5. CASE saveFlag
  <2>1. /\ tick.pc = "save" /\ life # "down"
        /\ UNCHANGED <<life, keys, rebootIssued, del, reboots, open, flagLost>>
    BY <1>5 DEF saveFlag, history, episode
  <2>2. CASE SaveFlagOK
    <3>1. tick'.pc = "ssh" /\ tick'.profile = tick.profile
      BY <2>2 DEF SaveFlagOK
    <3>2. FlagBelongsTo(tick.profile)'
      <4>0. tick.profile \in Profiles
        BY <2>1
      <4>1. flag' = [at |-> [age |-> 0, clock |-> WallClock], profile |-> tick.profile]
        BY <2>2 DEF SaveFlagOK
      <4>2. flag' \in [at : Parsed, profile : Profiles]
        BY <4>0, <4>1 DEF Parsed, Stamp, WallClock, Age, Overdue
      <4> QED
        BY <3>1, <4>1, <4>2, FlagAssumption DEF IsRecord
    <3>3. open \notin keys \/ flagLost
      BY <2>1
    <3> QED
      BY <2>1, <3>1, <3>2, <3>3
  <2>3. CASE SaveFlagFails
    BY <2>1, <2>3, <1>r DEF SaveFlagFails
  <2> QED
    BY <1>5, <2>2, <2>3 DEF saveFlag
<1>6. CASE issueReboot
  <2>1. /\ tick.pc = "ssh" /\ life # "down" /\ tick' = Rest /\ rebootIssued'
        /\ UNCHANGED <<life, keys, flag, del>>
    BY <1>6 DEF issueReboot, disk
  <2>2. \/ reboots' = reboots /\ UNCHANGED <<open, flagLost>>
        \/ reboots' = reboots + 1 /\ open' = tick.profile
    BY <1>6 DEF issueReboot, SshReboot
  <2>3. reboots = 0
    BY <2>1
  <2> QED
    BY <2>1, <2>2, <2>3, <1>r
<1>7. CASE waitTick
  <2>1. tick' = Rest /\ life # "down" /\ UNCHANGED <<life, keys, del, reboots, rebootIssued>>
    BY <1>7 DEF waitTick, WaitProbeOnline, WaitProbeOffline, EndEpisode
  <2>2. \/ UNCHANGED <<flag, open, flagLost>>
        \/ open' = NoProfile
    BY <1>7 DEF waitTick, WaitProbeOnline, WaitProbeOffline, EndEpisode, EpisodeOver, episode
  <2> QED
    BY <2>1, <2>2, <1>r
<1>8. ASSUME NEW p \in Profiles, DeleteKeys(p) PROVE EpisodeInv'
    BY <1>8 DEF DeleteKeys, memory, history, episode
<1>9. CASE ClearFlagForProfile
  <2>1. CASE ClearFlagFile
    <3>1. /\ del.profile \notin keys /\ life # "down" /\ del.pc = "flag"
          /\ UNCHANGED <<life, keys, tick, reboots, rebootIssued>>
      BY <2>1 DEF ClearFlagFile, memory
    <3>2. CASE FlagBelongsTo(del.profile)
      BY <2>1, <3>1, <3>2 DEF ClearFlagFile, clearFlag, EpisodeOver
    <3>3. CASE ~FlagBelongsTo(del.profile)
      BY <2>1, <3>1, <3>3, <1>r DEF ClearFlagFile, episode
    <3> QED
      BY <3>2, <3>3
  <2>2. CASE ClearFlagMemory
    BY <2>2, <1>r DEF ClearFlagMemory, disk, history, episode
  <2> QED
    BY <1>9, <2>1, <2>2 DEF ClearFlagForProfile
<1>10. ASSUME NEW p \in Profiles \cup {NoProfile}, SetActive(p) PROVE EpisodeInv'
    BY <1>10, <1>s DEF SetActive, disk, memory, history, episode
<1>11. ASSUME NEW p \in Profiles, InstallKey(p) PROVE EpisodeInv'
    BY <1>11 DEF InstallKey, memory, EpisodeOver, episode
<1>12. CASE Elapse
  <2>1. UNCHANGED <<life, keys, rebootIssued, tick, del, reboots, open, flagLost>>
    BY <1>12 DEF Elapse, episode
  <2>2. \A p : FlagBelongsTo(p) => FlagBelongsTo(p)'
    BY <1>12, FlagOlder DEF Elapse
  <2> HIDE DEF FlagBelongsTo
  <2> QED
    BY <2>1, <2>2
<1>13. CASE ClockSync
    BY <1>13, <1>s DEF ClockSync, disk, memory, history, episode
<1>14. CASE Exit \/ PowerLoss
  <2>1. /\ life' = "down" /\ tick' = Rest /\ del' = Idle /\ reboots' = 0
        /\ UNCHANGED <<keys, open>>
    BY <1>14 DEF Exit, PowerLoss, GoesDown, episode
  <2>2. \/ \A p : FlagBelongsTo(p) => FlagBelongsTo(p)'
        \/ open # NoProfile => flagLost'
    <3>1. CASE Exit
      BY <3>1 DEF Exit
    <3>2. CASE PowerLoss
      BY <3>2, FlagLeft
    <3> QED BY <1>14, <3>1, <3>2
  <2>3. flagLost => flagLost'
    BY <1>14, FlagLeft DEF Exit, episode
  <2> HIDE DEF FlagBelongsTo
  <2> QED
    BY <2>1, <2>2, <2>3, <1>r
<1>15. CASE Writeback
    BY <1>15, <1>s DEF Writeback, memory, history, episode
<1>16. CASE UNCHANGED vars
    BY <1>16, <1>s DEF vars, disk, memory, history, episode
<1> QED
    BY <1>1, <1>2, <1>3, <1>4, <1>5, <1>6, <1>7, <1>8, <1>9, <1>10, <1>11, <1>12,
       <1>13, <1>14, <1>15, <1>16 DEF Next

LEMMA EpisodeInit == Init => EpisodeInv
BY ConstantsAssumption DEF Init, EpisodeInv, DownClean, Deciding, FlagFirst, KeysFirst,
   BootSaw, OncePerLifetime, Rest, Idle

\* issueReboot sends at most one reboot in a lifetime of the daemon, whatever
\* profile switches and deletions come between the steps of its ticks.
THEOREM OncePerLifetimeHolds == Spec => []OncePerLifetime
<1>1. EpisodeInv => OncePerLifetime
    BY DEF EpisodeInv
<1> QED
    BY <1>1, TypeInit, TypeStep, EpisodeInit, EpisodeStep, PTL DEF Spec

\* Across exits, power losses and restarts at any point, a Pi is not sent a second
\* reboot while the episode of its first is open (the flag file is written first),
\* unless the power went before that flag file was written back.
THEOREM OncePerEpisodeHolds == Spec => OncePerEpisode
<1>1. TypeInv /\ EpisodeInv /\ [Next]_vars =>
          [reboots' > reboots => open # tick.profile \/ flagLost]_vars
  <2> SUFFICES ASSUME TypeInv, EpisodeInv, Next, reboots' > reboots
               PROVE open # tick.profile \/ flagLost
    OBVIOUS
  <2>1. CASE issueReboot
    BY <2>1 DEF issueReboot, EpisodeInv, Deciding
  <2>2. CASE ~issueReboot
    <3>1. reboots' = reboots \/ reboots' = 0
      BY <2>2 DEF Next, Start, Stop, tickOnce, idleTick, saveFlag, waitTick, DeleteKeys,
         ClearFlagForProfile, ClearFlagFile, ClearFlagMemory, SetActive, InstallKey,
         Elapse, ClockSync, Writeback, Exit, PowerLoss, GoesDown, history
    <3>2. reboots \in Nat
      BY DEF TypeInv, TypeOK
    <3> QED
      BY <3>1, <3>2
  <2> QED
    BY <2>1, <2>2
<1> QED
    BY <1>1, TypeInit, TypeStep, EpisodeInit, EpisodeStep, PTL DEF Spec, OncePerEpisode

-----------------------------------------------------------------------------
\* The window and the last good probe age together.
LEMMA WindowStep == TypeInv /\ WindowInv /\ [Next]_vars => WindowInv'
<1> SUFFICES ASSUME TypeInv, WindowInv, [Next]_vars PROVE WindowInv'
    OBVIOUS
<1> USE ConstantsAssumption DEF TypeInv, TypeOK, WindowInv, QuietWindow
<1>r. Rest.pc = "rest"
    BY DEF Rest
<1>a. /\ sinceGood \in Nat
      /\ noInternetSince # Never => noInternetSince \in Nat
    BY DEF Age
\* Steps that leave the clocks alone and the tick alone or at rest.
<1>s. ASSUME UNCHANGED <<noInternetSince, sinceGood>>,
             tick' = Rest \/ UNCHANGED <<life, tick>>
      PROVE WindowInv'
    BY <1>s, <1>r
<1>1. CASE Start
    BY <1>1, <1>r DEF Start, NewLife, bootCheck, BootNoFlag, BootCorruptFlag,
       BootForeignFlag, BootFreshFlag
<1>2. CASE Stop
    BY <1>2 DEF Stop, disk, memory, history, episode
<1>3. CASE tickOnce
  <2>1. life' # "down" /\ UNCHANGED <<noInternetSince, sinceGood>>
    BY <1>3 DEF tickOnce, IdleTickReturns, IdleTickProbes, WaitTickTimesOut,
       WaitTickProbes, EndEpisode, memory
  <2>2. tick'.pc # "save"
    BY <1>3 DEF tickOnce, IdleTickReturns, IdleTickProbes, WaitTickTimesOut,
       WaitTickProbes, Goto, Rest
  <2> QED
    BY <2>1, <2>2
<1>4. CASE idleTick
  <2>1. CASE IdleProbeResets
    BY <2>1, <1>r DEF IdleProbeResets
  <2>2. CASE IdleProbeCounts
    <3>1. life' # "down" /\ sinceGood' = sinceGood
      BY <1>4, <2>2 DEF idleTick, IdleProbeCounts
    <3>2. noInternetSince' = 0 \/ noInternetSince' = noInternetSince
      BY <2>2 DEF IdleProbeCounts
    <3>3. tick'.pc = "save" => noInternetSince # Never /\ noInternetSince >= NoInternetFor
      BY <2>2, <1>r DEF IdleProbeCounts
    <3> QED
      BY <3>1, <3>2, <3>3, <1>a
  <2> QED
    BY <1>4, <2>1, <2>2 DEF idleTick
<1>5. CASE saveFlag
  <2>1. life' # "down" /\ UNCHANGED <<noInternetSince, sinceGood>>
    BY <1>5 DEF saveFlag, history, episode
  <2>2. tick'.pc # "save"
    BY <1>5, <1>r DEF saveFlag, SaveFlagOK, SaveFlagFails
  <2> QED
    BY <2>1, <2>2
<1>6. CASE issueReboot
    BY <1>6, <1>r DEF issueReboot
<1>7. CASE waitTick
    BY <1>7, <1>s DEF waitTick, WaitProbeOnline, WaitProbeOffline, EndEpisode
<1>8. ASSUME NEW p \in Profiles, DeleteKeys(p) PROVE WindowInv'
    BY <1>8, <1>s DEF DeleteKeys, memory, history, episode
<1>9. CASE ClearFlagForProfile
    BY <1>9, <1>s DEF ClearFlagForProfile, ClearFlagFile, ClearFlagMemory, memory, history, episode
<1>10. ASSUME NEW p \in Profiles \cup {NoProfile}, SetActive(p) PROVE WindowInv'
    BY <1>10, <1>s DEF SetActive, memory, history, episode
<1>11. ASSUME NEW p \in Profiles, InstallKey(p) PROVE WindowInv'
    BY <1>11, <1>s DEF InstallKey, memory
<1>12. CASE Elapse
  <2>1. /\ sinceGood' = IF noInternetSince = Never THEN sinceGood
                        ELSE Older(sinceGood, NoInternetFor)
        /\ UNCHANGED <<life, tick>>
    BY <1>12 DEF Elapse
  <2>2. noInternetSince' = IF noInternetSince = Never THEN Never
                           ELSE Older(noInternetSince, NoInternetFor)
    BY <1>12 DEF Elapse
  <2> QED
    BY <2>1, <2>2, <1>a DEF Older
<1>13. CASE ClockSync
    BY <1>13, <1>s DEF ClockSync, memory, history, episode
<1>14. CASE Exit \/ PowerLoss
    BY <1>14, <1>r DEF Exit, PowerLoss, GoesDown, NewLife
<1>15. CASE Writeback
    BY <1>15, <1>s DEF Writeback, memory, history
<1>16. CASE UNCHANGED vars
    BY <1>16, <1>s DEF vars, memory, history, episode
<1> QED
    BY <1>1, <1>2, <1>3, <1>4, <1>5, <1>6, <1>7, <1>8, <1>9, <1>10, <1>11, <1>12,
       <1>13, <1>14, <1>15, <1>16 DEF Next

\* idleTick decides for a reboot only when no probe of the last NoInternetFor
\* units of time found internet or missed the Pi.
THEOREM QuietWindowHolds == Spec => []QuietWindow
<1>1. Init => WindowInv
    BY ConstantsAssumption DEF Init, WindowInv, QuietWindow, Rest
<1>2. WindowInv => QuietWindow
    BY DEF WindowInv
<1> QED
    BY <1>1, <1>2, TypeInit, TypeStep, WindowStep, PTL DEF Spec

\* The unbroken run of ticks is only written down: what RecoveryWindow does to the
\* daemon, PiRecovery does, so all of the above holds while it is.  What it is
\* compared with, the window of idleTick, is therefore the code's.
THEOREM StreakOnlyRecords == WindowSpec => Spec
<1>1. WindowInit => Init
  BY DEF WindowInit
<1>2. ASSUME [WindowNext]_<<vars, streak>> PROVE [Next]_vars
  <2>1. CASE WindowNext
    BY <2>1 DEF WindowNext, Unseen, Next
  <2>2. CASE UNCHANGED <<vars, streak>>
    BY <2>2
  <2> QED BY <1>2, <2>1, <2>2
<1> QED BY <1>1, <1>2, PTL DEF WindowSpec, Spec
=============================================================================
