---------------------------- MODULE GameSession ----------------------------
(***************************************************************************)
(* The life of a game: the front end (mednafen_help.cpp, main.cpp,         *)
(* mednafen_implement.cpp) opens and closes games of any system in one     *)
(* process, through the library (mednafen/mednafen.cpp, state.cpp,         *)
(* netplay.cpp).  Each side keeps its own record of what is on: the disc,  *)
(* the rewind ring, the recorders, netplay.  Everything here runs in one   *)
(* thread; an action is one whole call of the front end.                   *)
(***************************************************************************)
EXTENDS Naturals

CONSTANTS Modules,  \* emulated systems: cd (plays discs), states (has a
                    \* StateAction)
          NoGame,   \* MDFNGameInfo is NULL
          MaxDiscs  \* bound: discs open at a time, leaked ones included

ASSUME SessionAssumption ==
    /\ Modules \subseteq [name : STRING, cd : BOOLEAN, states : BOOLEAN]
    /\ NoGame \notin Modules
    /\ MaxDiscs \in Nat \ {0}

VARIABLES
    alive,            \* the process has neither left nor died
    IsLoaded,         \* front end: a game is loaded
    MDFNGameInfo,     \* library: the module of the game
    CDInUse,          \* library: the game is on a disc
    discs,            \* open CD interfaces: reader thread, image and buffers
    unrecognised,     \* how many of them are of discs no module recognised
    EvilEnabled,      \* library: rewinding is on
    bcs,              \* its ring: never allocated, allocated, or freed
    settings,         \* the user's rewind setting of each module
    RewindSetting,    \* front end: that of this game's module
    OldRewindSetting, \* front end: the one it last acted on
    RecordingVideo,   \* front end: a video is being recorded
    RecordingWave,    \* front end: sound is being recorded
    qtrecorder,       \* library: there is a video recorder
    wavrecorder,      \* library: there is a sound recorder
    NetplayOn,        \* front end: netplay is on
    MDFNnetplay,      \* library: netplay is on
    slocket           \* front end: there is a socket

discVars == <<CDInUse, discs, unrecognised>>
rewindVars == <<EvilEnabled, bcs>>
settingVars == <<settings, RewindSetting, OldRewindSetting>>
recordVars == <<RecordingVideo, RecordingWave, qtrecorder, wavrecorder>>
netVars == <<NetplayOn, MDFNnetplay, slocket>>
vars == <<alive, IsLoaded, MDFNGameInfo, discVars, rewindVars, settingVars, recordVars, netVars>>

Init ==
    /\ alive = TRUE
    /\ IsLoaded = FALSE
    /\ MDFNGameInfo = NoGame
    /\ CDInUse = FALSE /\ discs = 0 /\ unrecognised = 0
    /\ EvilEnabled = FALSE /\ bcs = "none"
    /\ settings \in [Modules -> BOOLEAN]
    /\ RewindSetting = FALSE /\ OldRewindSetting = FALSE
    /\ RecordingVideo = FALSE /\ RecordingWave = FALSE
    /\ qtrecorder = FALSE /\ wavrecorder = FALSE
    /\ NetplayOn = FALSE /\ MDFNnetplay = FALSE /\ slocket = FALSE

-----------------------------------------------------------------------------
\* MDFN_StateEvilEnd frees the ring and keeps the pointer; MDFN_StateEvilBegin
\* allocates one.
AfterEvilEnd == IF EvilEnabled THEN "freed" ELSE bcs

\* (mutant: a loaded game does not begin rewinding)
NoEvilBegin(enabled, ring) == ring

EvilBegin(enabled, ring) == IF enabled THEN "live" ELSE ring

\* (mutant: the recorder is left to the next game)
RecorderKept(recorder, flag) == recorder

\* MDFNI_StopAVRecord or MDFNI_StopWAVRecord, if the front end believes that
\* it records.
Stopped(recorder, flag) == recorder /\ ~flag

\* (mutant: what the last game used is taken for what this one uses)
OldKept(setting) == OldRewindSetting

\* ReadSettings(true) makes the first frame act on the setting.
OldOnLoad(setting) == ~setting

\* (mutant: the disc is not closed when its module rejects it)
LeftOpen(open) == open + 1

\* CDIF_Open succeeded, the module's LoadCD did not, CDIF_Close.
Reclosed(open) == open

\* (mutant: a game that is loaded leaves netplay's flag on)
FlagKept == NetplayOn

\* MDFND_NetworkClose.
Disconnected == FALSE

-----------------------------------------------------------------------------
\* MednafenEmu::CloseGame, with MDFNI_CloseGame.  The front end's own flags
\* of recording and of netplay stay as they are.
CloseGame ==
    /\ alive /\ IsLoaded
    /\ IsLoaded' = FALSE
    /\ MDFNGameInfo' = NoGame
    /\ qtrecorder' = Stopped(qtrecorder, RecordingVideo)
    /\ wavrecorder' = Stopped(wavrecorder, RecordingWave)
    /\ MDFNnetplay' = FALSE
    /\ bcs' = AfterEvilEnd
    /\ CDInUse' = FALSE
    /\ discs' = IF CDInUse THEN discs - 1 ELSE discs
    /\ UNCHANGED <<alive, unrecognised, EvilEnabled, settingVars, RecordingVideo, RecordingWave,
                   NetplayOn, slocket>>

\* MednafenEmu::LoadGame with a disc that its module does not load.  (A failure
\* to load a file, or to open the image of a disc, changes nothing at all.)
LoadCDRejected ==
    /\ alive /\ ~IsLoaded
    /\ discs' = Reclosed(discs)
    /\ UNCHANGED <<alive, IsLoaded, MDFNGameInfo, CDInUse, unrecognised, rewindVars, settingVars,
                   recordVars, netVars>>

\* With a disc that no module recognises (cdplay wants an audio track, and any
\* module can be disabled): MDFNI_LoadCD returns without closing the CD
\* interface it has opened.
LoadCDUnrecognised ==
    /\ alive /\ ~IsLoaded
    /\ discs < MaxDiscs
    /\ discs' = discs + 1
    /\ unrecognised' = unrecognised + 1
    /\ UNCHANGED <<alive, IsLoaded, MDFNGameInfo, CDInUse, rewindVars, settingVars, recordVars, netVars>>

\* MednafenEmu::LoadGame when MDFNI_LoadGame or MDFNI_LoadCD succeeds.
LoadGame(module) ==
    /\ alive /\ ~IsLoaded
    /\ module.cd => discs < MaxDiscs
    /\ IsLoaded' = TRUE
    /\ MDFNGameInfo' = module
    /\ CDInUse' = (CDInUse \/ module.cd)
    /\ discs' = IF module.cd THEN discs + 1 ELSE discs
    /\ bcs' = EvilBegin(EvilEnabled, bcs)
    /\ NetplayOn' = Disconnected
    /\ MDFNnetplay' = IF NetplayOn THEN FALSE ELSE MDFNnetplay
    /\ slocket' = FALSE
    /\ RecordingVideo' = FALSE /\ RecordingWave' = FALSE
    /\ RewindSetting' = settings[module]
    /\ OldRewindSetting' = OldOnLoad(settings[module])
    /\ UNCHANGED <<alive, unrecognised, EvilEnabled, settings, qtrecorder, wavrecorder>>

-----------------------------------------------------------------------------
\* MDFNI_EnableStateRewind, if Frame finds that the setting has changed: it
\* does nothing for a module without save states.
Switches == OldRewindSetting # RewindSetting /\ MDFNGameInfo.states
EvilAfterSwitch == IF Switches THEN RewindSetting ELSE EvilEnabled
BcsAfterSwitch == IF Switches THEN EvilBegin(RewindSetting, AfterEvilEnd) ELSE bcs

\* MednafenEmu::Frame.  MDFNI_Emulate saves the state of the game if rewinding
\* is on, and calls the module's StateAction without looking whether it has
\* one.  The library drops a recorder that cannot write its video frame or its
\* sound; the front end does not learn of it.
Frame(videoFails, soundFails) ==
    /\ alive /\ IsLoaded
    /\ OldRewindSetting' = RewindSetting
    /\ EvilEnabled' = EvilAfterSwitch
    /\ bcs' = BcsAfterSwitch
    /\ EvilAfterSwitch => MDFNGameInfo.states
    /\ videoFails => qtrecorder
    /\ qtrecorder' = (qtrecorder /\ ~videoFails)
    /\ soundFails => wavrecorder
    /\ wavrecorder' = (wavrecorder /\ ~soundFails)
    /\ UNCHANGED <<alive, IsLoaded, MDFNGameInfo, discVars, settings, RewindSetting,
                   RecordingVideo, RecordingWave, netVars>>

FrameCrashes ==
    /\ alive /\ IsLoaded
    /\ EvilAfterSwitch /\ ~MDFNGameInfo.states
    /\ alive' = FALSE
    /\ UNCHANGED <<IsLoaded, MDFNGameInfo, discVars, rewindVars, settingVars, recordVars, netVars>>

\* The connection fails in a frame of netplay: MDFND_SendData and
\* MDFND_RecvData throw, and nobody catches.
FrameConnectionLost ==
    /\ alive /\ IsLoaded /\ MDFNnetplay
    /\ alive' = FALSE
    /\ UNCHANGED <<IsLoaded, MDFNGameInfo, discVars, rewindVars, settingVars, recordVars, netVars>>

\* DoToggleRecordVideo, DoToggleRecordWave; starting may fail.
ToggleRecordVideo(starts) ==
    /\ alive /\ IsLoaded /\ ~RecordingWave
    /\ RecordingVideo' = (~RecordingVideo /\ starts)
    /\ qtrecorder' = IF RecordingVideo THEN FALSE ELSE (starts \/ qtrecorder)
    /\ UNCHANGED <<alive, IsLoaded, MDFNGameInfo, discVars, rewindVars, settingVars,
                   RecordingWave, wavrecorder, netVars>>

ToggleRecordWave(starts) ==
    /\ alive /\ IsLoaded /\ ~RecordingVideo
    /\ RecordingWave' = (~RecordingWave /\ starts)
    /\ wavrecorder' = IF RecordingWave THEN FALSE ELSE (starts \/ wavrecorder)
    /\ UNCHANGED <<alive, IsLoaded, MDFNGameInfo, discVars, rewindVars, settingVars,
                   RecordingVideo, qtrecorder, netVars>>

\* MDFND_NetStart, with MDFND_NetworkClose first: connected and logged in,
\* connected only, or not connected.
NetStart(connected, loggedIn) ==
    /\ alive /\ IsLoaded
    /\ loggedIn => connected
    /\ NetplayOn' = loggedIn
    /\ MDFNnetplay' = (loggedIn \/ (MDFNnetplay /\ ~NetplayOn))
    /\ slocket' = connected
    /\ UNCHANGED <<alive, IsLoaded, MDFNGameInfo, discVars, rewindVars, settingVars, recordVars>>

\* MDFND_NetworkClose, when the player leaves netplay or NetError gives it up in a
\* frame.
NetworkClose ==
    /\ alive /\ IsLoaded /\ NetplayOn
    /\ NetplayOn' = FALSE
    /\ MDFNnetplay' = FALSE
    /\ slocket' = FALSE
    /\ UNCHANGED <<alive, IsLoaded, MDFNGameInfo, discVars, rewindVars, settingVars, recordVars>>

\* A visit to the settings menu, with ReadSettings(false): from the file
\* browser, or after a frame (which has taken note of the last change).
ChangeSetting(module) ==
    /\ alive
    /\ IsLoaded => OldRewindSetting = RewindSetting
    /\ settings' = [settings EXCEPT ![module] = ~@]
    /\ RewindSetting' = IF IsLoaded THEN settings'[MDFNGameInfo] ELSE RewindSetting
    /\ UNCHANGED <<alive, IsLoaded, MDFNGameInfo, discVars, rewindVars, OldRewindSetting,
                   recordVars, netVars>>

\* Exit with no game: MednafenEmu::Quit has nothing left to close.
Exit ==
    /\ alive /\ ~IsLoaded
    /\ alive' = FALSE
    /\ UNCHANGED <<IsLoaded, MDFNGameInfo, discVars, rewindVars, settingVars, recordVars, netVars>>

Next ==
    \/ CloseGame
    \/ LoadCDRejected \/ LoadCDUnrecognised
    \/ \E module \in Modules : LoadGame(module) \/ ChangeSetting(module)
    \/ \E videoFails, soundFails \in BOOLEAN : Frame(videoFails, soundFails)
    \/ FrameCrashes \/ FrameConnectionLost
    \/ \E starts \in BOOLEAN : ToggleRecordVideo(starts) \/ ToggleRecordWave(starts)
    \/ \E connected, loggedIn \in BOOLEAN : NetStart(connected, loggedIn)
    \/ NetworkClose
    \/ Exit

Spec == Init /\ [][Next]_vars

-----------------------------------------------------------------------------
TypeOK ==
    /\ alive \in BOOLEAN /\ IsLoaded \in BOOLEAN
    /\ MDFNGameInfo \in Modules \cup {NoGame}
    /\ CDInUse \in BOOLEAN /\ discs \in 0 .. MaxDiscs /\ unrecognised \in 0 .. MaxDiscs
    /\ EvilEnabled \in BOOLEAN /\ bcs \in {"none", "live", "freed"}
    /\ settings \in [Modules -> BOOLEAN]
    /\ RewindSetting \in BOOLEAN /\ OldRewindSetting \in BOOLEAN
    /\ RecordingVideo \in BOOLEAN /\ RecordingWave \in BOOLEAN
    /\ qtrecorder \in BOOLEAN /\ wavrecorder \in BOOLEAN
    /\ NetplayOn \in BOOLEAN /\ MDFNnetplay \in BOOLEAN /\ slocket \in BOOLEAN

\* mednafen.cpp:281 and 495: whatever becomes of the discs that are loaded and
\* rejected, the disc of the loaded game is open and no other, but for those
\* that nobody recognised.
DiscOfThisGame ==
    /\ CDInUse <=> MDFNGameInfo # NoGame /\ MDFNGameInfo.cd
    /\ discs = unrecognised + IF CDInUse THEN 1 ELSE 0

\* state.cpp:1041 and 1078: while rewinding is on, which outlives a game, there
\* is a ring exactly while there is a game: it is neither freed twice nor leaked
\* nor used after it has been freed.
RingOfThisGame ==
    bcs = "live" <=> EvilEnabled /\ MDFNGameInfo # NoGame

\* mednafen_help.cpp:314 and 651: once a frame has run, rewinding is on if and
\* only if the setting of this game's system says so, whatever the games and
\* the settings before it.
SettingApplied ==
    IsLoaded =>
        /\ RewindSetting = settings[MDFNGameInfo]
        /\ OldRewindSetting = RewindSetting /\ MDFNGameInfo.states => EvilEnabled = RewindSetting

\* mednafen_help.cpp:236 and 276: a recorder belongs to the game it was started
\* in and the front end knows of it, so it can be stopped; and at most one runs.
\* The front end may also believe in one that the library has dropped
\* (mednafen.cpp:1117 and 1340).
RecordersKnown ==
    /\ ~(qtrecorder /\ wavrecorder)
    /\ ~IsLoaded => ~qtrecorder /\ ~wavrecorder
    /\ IsLoaded => (qtrecorder => RecordingVideo) /\ (wavrecorder => RecordingWave)
    /\ IsLoaded => ~(RecordingVideo /\ RecordingWave)

\* mednafen_implement.cpp:47: while a game is loaded both sides agree on
\* netplay, and there is a socket for it.
NetplayAgreed ==
    /\ IsLoaded => (NetplayOn <=> MDFNnetplay)
    /\ MDFNnetplay => IsLoaded /\ slocket

\* state.cpp:658, "doesn't support save states": whoever calls StateAction first
\* looks whether the module has one (state.cpp:959, 968 and 1259), except the
\* rewinding of MDFN_StateEvil (mednafen.cpp:1306).  So rewinding must not be on
\* for a module without save states.
RewindNeedsStates ==
    IsLoaded /\ EvilEnabled => MDFNGameInfo.states

\* mednafen.cpp:474, "This code path should never be taken": no disc stays open
\* when no game is loaded.
NoDiscLeaked == MDFNGameInfo = NoGame => discs = 0
=============================================================================
