------------------------- MODULE GameSessionProofs -------------------------
(***************************************************************************)
(* For any set of emulated systems: the front end and the library agree on *)
(* the disc, the ring, the recorders and netplay, whatever sequence of     *)
(* games, commands and settings has gone before.                           *)
(***************************************************************************)
EXTENDS GameSession, TLAPS

\* What the front end believes is loaded is what the library has loaded, and
\* the parts of the invariant each action can disturb.
LoadedGame == IsLoaded <=> MDFNGameInfo # NoGame

SessionInv ==
    /\ TypeOK /\ LoadedGame
    /\ DiscOfThisGame /\ RingOfThisGame /\ SettingApplied
    /\ RecordersKnown /\ NetplayAgreed

USE SessionAssumption

\* Nothing is on before the first game.
LEMMA InitSession == Init => SessionInv
<1> SUFFICES ASSUME Init PROVE SessionInv
  OBVIOUS
<1> USE DEF Init
<1>1. TypeOK
  <2>1. discs \in 0 .. MaxDiscs /\ unrecognised \in 0 .. MaxDiscs
    BY SMT
  <2> QED
    BY <2>1, Zenon DEF TypeOK
<1>2. LoadedGame /\ DiscOfThisGame /\ RingOfThisGame
  BY DEF LoadedGame, DiscOfThisGame, RingOfThisGame
<1>3. SettingApplied /\ RecordersKnown /\ NetplayAgreed
  BY DEF SettingApplied, RecordersKnown, NetplayAgreed
<1> QED
  BY <1>1, <1>2, <1>3 DEF SessionInv

\* Changing a setting gives a function of settings again.
LEMMA SettingsType ==
    ASSUME settings \in [Modules -> BOOLEAN], NEW module \in Modules
    PROVE  [settings EXCEPT ![module] = ~@] \in [Modules -> BOOLEAN]
  OBVIOUS

\* Every call keeps the types: the disc counter stays within its bound because
\* what is open is what was loaded.
LEMMA NextTypeOK == SessionInv /\ Next => TypeOK'
<1> SUFFICES ASSUME SessionInv, Next PROVE TypeOK'
  OBVIOUS
<1> USE DEF TypeOK
<1>1. CASE CloseGame
  <2>1. discs' \in 0 .. MaxDiscs
    BY <1>1 DEF CloseGame, SessionInv, DiscOfThisGame
  <2>2. bcs' \in {"none", "live", "freed"} /\ qtrecorder' \in BOOLEAN /\ wavrecorder' \in BOOLEAN
    BY <1>1 DEF CloseGame, SessionInv, AfterEvilEnd, Stopped
  <2> QED
    BY <1>1, <2>1, <2>2, Zenon DEF CloseGame, SessionInv, settingVars
<1>2. CASE LoadCDRejected
  BY <1>2 DEF LoadCDRejected, SessionInv, Reclosed, rewindVars, settingVars, recordVars, netVars
<1>3. CASE LoadCDUnrecognised
  BY <1>3 DEF LoadCDUnrecognised, SessionInv, DiscOfThisGame, rewindVars, settingVars, recordVars, netVars
<1>4. ASSUME NEW module \in Modules, LoadGame(module) PROVE TypeOK'
  <2>1. module.cd \in BOOLEAN /\ settings[module] \in BOOLEAN
    BY DEF SessionInv
  <2>2. discs' \in 0 .. MaxDiscs
    BY <1>4, <2>1 DEF LoadGame, SessionInv
  <2>3. bcs' \in {"none", "live", "freed"} /\ OldRewindSetting' \in BOOLEAN
    BY <1>4, <2>1 DEF LoadGame, SessionInv, EvilBegin, OldOnLoad
  <2>4. CDInUse' \in BOOLEAN /\ MDFNnetplay' \in BOOLEAN
    BY <1>4, <2>1 DEF LoadGame, SessionInv
  <2> QED
    BY <1>4, <2>1, <2>2, <2>3, <2>4, Zenon DEF LoadGame, SessionInv, Disconnected
<1>5. ASSUME NEW module \in Modules, ChangeSetting(module) PROVE TypeOK'
  <2>1. settings' \in [Modules -> BOOLEAN]
    BY <1>5, SettingsType DEF ChangeSetting, SessionInv
  <2>2. RewindSetting' \in BOOLEAN
    BY <1>5, <2>1 DEF ChangeSetting, SessionInv, LoadedGame
  <2> QED
    BY <1>5, <2>1, <2>2 DEF ChangeSetting, SessionInv, discVars, rewindVars, recordVars, netVars
<1>6. ASSUME NEW videoFails \in BOOLEAN, NEW soundFails \in BOOLEAN, Frame(videoFails, soundFails)
      PROVE  TypeOK'
  BY <1>6 DEF Frame, SessionInv, LoadedGame, EvilAfterSwitch, BcsAfterSwitch, Switches, EvilBegin,
              AfterEvilEnd, discVars, netVars
<1>7. CASE FrameCrashes
  <2>1. alive' \in BOOLEAN
    BY <1>7 DEF FrameCrashes
  <2>2. UNCHANGED <<IsLoaded, MDFNGameInfo, discVars, rewindVars, settingVars, recordVars, netVars>>
    BY <1>7 DEF FrameCrashes
  <2> QED
    BY <2>1, <2>2 DEF SessionInv, discVars, rewindVars, settingVars, recordVars, netVars
<1>8. CASE FrameConnectionLost
  <2>1. alive' \in BOOLEAN
    BY <1>8 DEF FrameConnectionLost
  <2>2. UNCHANGED <<IsLoaded, MDFNGameInfo, discVars, rewindVars, settingVars, recordVars, netVars>>
    BY <1>8 DEF FrameConnectionLost
  <2> QED
    BY <2>1, <2>2 DEF SessionInv, discVars, rewindVars, settingVars, recordVars, netVars
<1>9. ASSUME NEW starts \in BOOLEAN, ToggleRecordVideo(starts) PROVE TypeOK'
  BY <1>9 DEF ToggleRecordVideo, SessionInv, discVars, rewindVars, settingVars, netVars
<1>10. ASSUME NEW starts \in BOOLEAN, ToggleRecordWave(starts) PROVE TypeOK'
  BY <1>10 DEF ToggleRecordWave, SessionInv, discVars, rewindVars, settingVars, netVars
<1>11. ASSUME NEW connected \in BOOLEAN, NEW loggedIn \in BOOLEAN, NetStart(connected, loggedIn)
       PROVE  TypeOK'
  BY <1>11 DEF NetStart, SessionInv, discVars, rewindVars, settingVars, recordVars
<1>12. CASE NetworkClose
  BY <1>12 DEF NetworkClose, SessionInv, discVars, rewindVars, settingVars, recordVars
<1>13. CASE Exit
  <2>1. alive' \in BOOLEAN
    BY <1>13 DEF Exit
  <2>2. UNCHANGED <<IsLoaded, MDFNGameInfo, discVars, rewindVars, settingVars, recordVars, netVars>>
    BY <1>13 DEF Exit
  <2> QED
    BY <2>1, <2>2 DEF SessionInv, discVars, rewindVars, settingVars, recordVars, netVars
<1> QED
  BY <1>1, <1>2, <1>3, <1>4, <1>5, <1>6, <1>7, <1>8, <1>9, <1>10, <1>11, <1>12, <1>13 DEF Next

\* Every call keeps the front end and the library in agreement.
LEMMA NextAgree ==
    SessionInv /\ Next
        => LoadedGame' /\ DiscOfThisGame' /\ RingOfThisGame' /\ SettingApplied' /\ RecordersKnown'
           /\ NetplayAgreed'
<1> DEFINE Agree == LoadedGame /\ DiscOfThisGame /\ RingOfThisGame /\ SettingApplied
                    /\ RecordersKnown /\ NetplayAgreed
<1> SUFFICES ASSUME SessionInv, Next PROVE Agree'
  OBVIOUS
<1> USE DEF SessionInv, TypeOK, LoadedGame, DiscOfThisGame, RingOfThisGame, SettingApplied,
            RecordersKnown, NetplayAgreed
<1>1. CASE CloseGame
  BY <1>1 DEF CloseGame, AfterEvilEnd, Stopped, settingVars
<1>2. CASE LoadCDRejected
  BY <1>2 DEF LoadCDRejected, Reclosed, rewindVars, settingVars, recordVars, netVars
<1>3. CASE LoadCDUnrecognised
  BY <1>3 DEF LoadCDUnrecognised, rewindVars, settingVars, recordVars, netVars
<1>4. ASSUME NEW module \in Modules, LoadGame(module) PROVE Agree'
  <2>1. module.cd \in BOOLEAN /\ settings[module] \in BOOLEAN /\ module # NoGame
    OBVIOUS
  <2> QED
    BY <1>4, <2>1 DEF LoadGame, EvilBegin, OldOnLoad, Disconnected
<1>5. ASSUME NEW module \in Modules, ChangeSetting(module) PROVE Agree'
  BY <1>5 DEF ChangeSetting, discVars, rewindVars, recordVars, netVars
<1>6. ASSUME NEW videoFails \in BOOLEAN, NEW soundFails \in BOOLEAN, Frame(videoFails, soundFails)
      PROVE  Agree'
  BY <1>6 DEF Frame, EvilAfterSwitch, BcsAfterSwitch, Switches, EvilBegin, AfterEvilEnd, discVars, netVars
<1>7. CASE FrameCrashes
  BY <1>7 DEF FrameCrashes, discVars, rewindVars, settingVars, recordVars, netVars
<1>8. CASE FrameConnectionLost
  BY <1>8 DEF FrameConnectionLost, discVars, rewindVars, settingVars, recordVars, netVars
<1>9. ASSUME NEW starts \in BOOLEAN, ToggleRecordVideo(starts) PROVE Agree'
  BY <1>9 DEF ToggleRecordVideo, discVars, rewindVars, settingVars, netVars
<1>10. ASSUME NEW starts \in BOOLEAN, ToggleRecordWave(starts) PROVE Agree'
  BY <1>10 DEF ToggleRecordWave, discVars, rewindVars, settingVars, netVars
<1>11. ASSUME NEW connected \in BOOLEAN, NEW loggedIn \in BOOLEAN, NetStart(connected, loggedIn)
       PROVE  Agree'
  BY <1>11 DEF NetStart, discVars, rewindVars, settingVars, recordVars
<1>12. CASE NetworkClose
  BY <1>12 DEF NetworkClose, discVars, rewindVars, settingVars, recordVars
<1>13. CASE Exit
  BY <1>13 DEF Exit, discVars, rewindVars, settingVars, recordVars, netVars
<1> QED
  BY <1>1, <1>2, <1>3, <1>4, <1>5, <1>6, <1>7, <1>8, <1>9, <1>10, <1>11, <1>12, <1>13 DEF Next

\* The whole invariant holds in every session (mednafen_help.cpp:192-307).
THEOREM SessionInvariant == Spec => []SessionInv
<1>1. Init => SessionInv
  BY InitSession
<1>2. SessionInv /\ [Next]_vars => SessionInv'
  <2>1. CASE Next
    BY <2>1, NextTypeOK, NextAgree DEF SessionInv
  <2>2. CASE UNCHANGED vars
    BY <2>2 DEF vars, discVars, rewindVars, settingVars, recordVars, netVars, SessionInv, TypeOK,
                LoadedGame, DiscOfThisGame, RingOfThisGame, SettingApplied, RecordersKnown,
                NetplayAgreed
  <2> QED
    BY <2>1, <2>2
<1> QED
  BY <1>1, <1>2, PTL DEF Spec

\* mednafen.cpp:281 and 495: in every session the discs open are this game's
\* and those that no module recognised.
THEOREM DiscsAccountedFor == Spec => []DiscOfThisGame
<1>1. SessionInv => DiscOfThisGame
  BY DEF SessionInv
<1> QED
  BY <1>1, SessionInvariant, PTL

\* state.cpp:1041 and 1078: in every session the ring is there exactly while it
\* can be used.
THEOREM RingFollowsGame == Spec => []RingOfThisGame
<1>1. SessionInv => RingOfThisGame
  BY DEF SessionInv
<1> QED
  BY <1>1, SessionInvariant, PTL

\* mednafen_help.cpp:314: in every session a game runs with its own system's
\* rewind setting, if the system has save states.
THEOREM SettingReachesGame == Spec => []SettingApplied
<1>1. SessionInv => SettingApplied
  BY DEF SessionInv
<1> QED
  BY <1>1, SessionInvariant, PTL

\* mednafen_help.cpp:276: in every session no recorder outlives its game.
THEOREM RecordersStop == Spec => []RecordersKnown
<1>1. SessionInv => RecordersKnown
  BY DEF SessionInv
<1> QED
  BY <1>1, SessionInvariant, PTL

\* mednafen_implement.cpp:47: in every session both sides agree on netplay.
THEOREM NetplayAgreement == Spec => []NetplayAgreed
<1>1. SessionInv => NetplayAgreed
  BY DEF SessionInv
<1> QED
  BY <1>1, SessionInvariant, PTL

\* The types hold in every session.
THEOREM SessionTypes == Spec => []TypeOK
<1>1. SessionInv => TypeOK
  BY DEF SessionInv
<1> QED
  BY <1>1, SessionInvariant, PTL
=============================================================================
