------------------------------- MODULE Versions -------------------------------
(***************************************************************************)
(* The version of a deployment: sync-dd-version.mjs, which every start of  *)
(* the backend and every build of the frontend runs first, and the release *)
(* of the source maps (release:rum of llm-chat/package.json,               *)
(* sourcemap-release.mjs).                                                 *)
(*                                                                         *)
(* A run takes the lock file, compares the fingerprint of the sources with *)
(* the one it finds in the state file, and writes DD_VERSION in .env,      *)
(* VITE_DD_VERSION in .env.local and the state file, one after the other.  *)
(* Several runs, the editor of the sources and a kill at any point         *)
(* interleave; the lock file of a killed run stays until somebody removes  *)
(* it.  A version is its patch number, a fingerprint the sources it is of. *)
(***************************************************************************)
EXTENDS Integers, FiniteSets

CONSTANTS
    Starts,         \* runs of npm start or npm run dev
    Release,        \* the run of npm run release:rum
    NoRun,
    Contents,       \* what the sources may be
    MaxEdits,       \* bound: edits of the sources
    MaxFaults,      \* bound: runs killed, writes that fail
    Attempts        \* how often a run tries to get the lock, 40 in the code

Runs == Starts \cup {Release}

ASSUME VersionsAssumption ==
    /\ Release \notin Starts
    /\ NoRun \notin Runs
    /\ Attempts \in Nat \ {0}

VARIABLES
    source,     \* the sources on disk
    edits,      \* edits so far
    backend,    \* DD_VERSION of llm-chat-back/.env
    frontend,   \* VITE_DD_VERSION of llm-chat/.env.local
    state,      \* .dd-version-state.json
    lock,       \* the run that made .dd-version.lock, or NoRun
    run,        \* the runs
    release,    \* dist, and what the release has done with it
    given,      \* history: the versions runs have ended with, and for what
    faults      \* kills and failed writes so far

files == <<backend, frontend, state>>
versionVars == <<source, edits, files, lock, run, release, given, faults>>

Stages == {"idle", "waiting", "locked", "read", "wroteBackend", "wroteFrontend",
           "wroteState", "done", "failed", "killed"}
Holding == {"locked", "read", "wroteBackend", "wroteFrontend", "wroteState"}
NewRun == [stage |-> "idle", attempts |-> 0, source |-> 0, version |-> 0, epoch |-> 0]
NoRelease == [stage |-> "sync", version |-> 0, source |-> 0, epoch |-> 0, maps |-> FALSE,
              uploadedAs |-> 0]

\* A clean checkout: the state file is of some sources, or of none.
VersionsInit ==
    /\ source \in Contents
    /\ edits = 0
    /\ backend = 1
    /\ frontend = 0
    /\ \E s \in Contents \cup {0} : state = [version |-> 1, source |-> s]
    /\ lock = NoRun
    /\ run = [r \in Runs |-> NewRun]
    /\ release = NoRelease
    /\ given = {}
    /\ faults = 0

-----------------------------------------------------------------------------
Start(r) ==
    /\ run[r].stage = "idle"
    /\ run' = [run EXCEPT ![r].stage = "waiting"]
    /\ UNCHANGED <<source, edits, files, lock, release, given, faults>>

\* Mutant: the lock file is opened without O_EXCL.
LockAnyway(r) ==
    /\ run[r].stage = "waiting"
    /\ lock' = r
    /\ run' = [run EXCEPT ![r].stage = "locked"]
    /\ UNCHANGED <<source, edits, files, release, given, faults>>

\* acquireLock: one attempt, the last of which fails the run.
AcquireLock(r) ==
    /\ run[r].stage = "waiting"
    /\ IF lock = NoRun
       THEN lock' = r /\ run' = [run EXCEPT ![r].stage = "locked"]
       ELSE /\ run' = IF run[r].attempts + 1 = Attempts
                      THEN [run EXCEPT ![r].stage = "failed"]
                      ELSE [run EXCEPT ![r].attempts = @ + 1]
            /\ UNCHANGED lock
    /\ UNCHANGED <<source, edits, files, release, given, faults>>

\* Mutant: every run takes a new version.
AlwaysBump(r) ==
    /\ run[r].stage = "locked"
    /\ run' = [run EXCEPT ![r].stage = "read", ![r].source = source, ![r].epoch = edits,
                          ![r].version = backend + 1]
    /\ UNCHANGED <<source, edits, files, lock, release, given, faults>>

\* The .env, the fingerprint and the state file are read; other sources than
\* those of the state file get the next version.
ReadSources(r) ==
    /\ run[r].stage = "locked"
    /\ run' = [run EXCEPT ![r].stage = "read", ![r].source = source, ![r].epoch = edits,
                          ![r].version = IF state.source # source THEN backend + 1 ELSE backend]
    /\ UNCHANGED <<source, edits, files, lock, release, given, faults>>

WriteBackend(r) ==
    /\ run[r].stage = "read"
    /\ backend' = run[r].version
    /\ run' = [run EXCEPT ![r].stage = "wroteBackend"]
    /\ UNCHANGED <<source, edits, frontend, state, lock, release, given, faults>>

WriteFrontend(r) ==
    /\ run[r].stage = "wroteBackend"
    /\ frontend' = run[r].version
    /\ run' = [run EXCEPT ![r].stage = "wroteFrontend"]
    /\ UNCHANGED <<source, edits, backend, state, lock, release, given, faults>>

WriteState(r) ==
    /\ run[r].stage = "wroteFrontend"
    /\ state' = [version |-> run[r].version, source |-> run[r].source]
    /\ run' = [run EXCEPT ![r].stage = "wroteState"]
    /\ UNCHANGED <<source, edits, backend, frontend, lock, release, given, faults>>

\* The lock file is removed and the run ends.
Unlock(r) ==
    /\ run[r].stage = "wroteState"
    /\ lock' = NoRun
    /\ run' = [run EXCEPT ![r].stage = "done"]
    /\ given' = given \cup {[version |-> run[r].version, source |-> run[r].source,
                             epoch |-> run[r].epoch]}
    /\ UNCHANGED <<source, edits, files, release, faults>>

\* No .env, no version in it, or a write that fails: what was written stays,
\* the lock is given back (finally) and the run fails.
SyncFails(r) ==
    /\ run[r].stage \in Holding \ {"wroteState"}
    /\ faults < MaxFaults
    /\ faults' = faults + 1
    /\ lock' = NoRun
    /\ run' = [run EXCEPT ![r].stage = "failed"]
    /\ UNCHANGED <<source, edits, files, release, given>>

\* The run is killed, and its lock file stays.
Kill(r) ==
    /\ run[r].stage \in Holding
    /\ faults < MaxFaults
    /\ faults' = faults + 1
    /\ run' = [run EXCEPT ![r].stage = "killed"]
    /\ UNCHANGED <<source, edits, files, lock, release, given>>

\* Somebody removes the lock file of a run that is dead.
RemoveStaleLock ==
    /\ lock # NoRun
    /\ run[lock].stage = "killed"
    /\ lock' = NoRun
    /\ UNCHANGED <<source, edits, files, run, release, given, faults>>

Edit(s) ==
    /\ edits < MaxEdits
    /\ s # source
    /\ source' = s
    /\ edits' = edits + 1
    /\ UNCHANGED <<files, lock, run, release, given, faults>>
-----------------------------------------------------------------------------
(***************************************************************************)
(* npm run release:rum: sync, vite build, verify, upload, clean; a command *)
(* that fails stops those after it.  Each loads .env.local for itself.     *)
(***************************************************************************)
\* vite reads .env.local when it starts; runtime-config.js puts the version into
\* the bundle.
LoadBuildEnv ==
    /\ release.stage = "sync"
    /\ run[Release].stage = "done"
    /\ release' = [release EXCEPT !.stage = "building", !.version = frontend]
    /\ UNCHANGED <<source, edits, files, lock, run, given, faults>>

\* The bundle, with hidden source maps beside it.
Build ==
    /\ release.stage = "building"
    /\ release' = [release EXCEPT !.stage = "built", !.source = source, !.epoch = edits,
                                !.maps = TRUE]
    /\ UNCHANGED <<source, edits, files, lock, run, given, faults>>

\* verify, which upload repeats: every bundle has its map.
VerifySourceMaps ==
    /\ release.stage = "built"
    /\ release.maps
    /\ release' = [release EXCEPT !.stage = "verified"]
    /\ UNCHANGED <<source, edits, files, lock, run, given, faults>>

\* upload: under the version that is in .env.local by now.
UploadSourceMaps ==
    /\ release.stage = "verified"
    /\ release.maps
    /\ release' = [release EXCEPT !.stage = "uploaded", !.uploadedAs = frontend]
    /\ UNCHANGED <<source, edits, files, lock, run, given, faults>>

CleanSourceMaps ==
    /\ release.stage = "uploaded"
    /\ release' = [release EXCEPT !.stage = "cleaned", !.maps = FALSE]
    /\ UNCHANGED <<source, edits, files, lock, run, given, faults>>

\* A command of the release fails; what it left in dist stays.
ReleaseFails ==
    /\ release.stage \in {"building", "built", "verified", "uploaded"}
    /\ faults < MaxFaults
    /\ faults' = faults + 1
    /\ release' = [release EXCEPT !.stage = "failed"]
    /\ UNCHANGED <<source, edits, files, lock, run, given>>

RunStep(r) ==
    \/ AcquireLock(r)
    \/ ReadSources(r)
    \/ WriteBackend(r)
    \/ WriteFrontend(r)
    \/ WriteState(r)
    \/ Unlock(r)

VersionsNext ==
    \/ \E r \in Runs : Start(r) \/ RunStep(r) \/ SyncFails(r) \/ Kill(r)
    \/ RemoveStaleLock
    \/ \E s \in Contents : Edit(s)
    \/ LoadBuildEnv
    \/ Build
    \/ VerifySourceMaps
    \/ UploadSourceMaps
    \/ CleanSourceMaps
    \/ ReleaseFails

VersionsSpec == VersionsInit /\ [][VersionsNext]_versionVars
-----------------------------------------------------------------------------
\* Versions tell sources apart: no version is ever given to two states of the
\* sources, and all runs that end since an edit give the same one, however
\* many are killed or fail half-way (README.md:164: the patch is raised once
\* for a change of the sources and is the same on both ends).
VersionsTellSourcesApart ==
    \A g, h \in given :
        /\ g.version = h.version => g.source = h.source
        /\ g.epoch = h.epoch => g.version = h.version

\* Sources edited since the release's sync have had a start of their own, which
\* may have changed the version files under the release.
Overtaken == \E s \in Starts : /\ run[s].epoch > run[Release].epoch
                              /\ run[s].source # run[Release].source

\* The maps are uploaded under the version of their bundle unless a start of
\* edited sources has come in between; and a bundle built of the sources the
\* sync has seen bears a version of these sources alone: whatever other runs
\* start, die or fail half-way, and whatever is edited after the build.
MapsAreFound ==
    release.stage \in {"uploaded", "cleaned"} =>
        /\ release.uploadedAs = release.version \/ Overtaken
        /\ release.epoch = run[Release].epoch =>
              \A g \in given : g.version = release.version => g.source = release.source

\* The version of the upload and of the bundle agree without any condition
\* (docs/toy-chat-operations.txt:21).
UploadMatchesBundle ==
    release.stage \in {"uploaded", "cleaned"} => release.uploadedAs = release.version
=============================================================================
