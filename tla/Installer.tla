----------------------------- MODULE Installer -----------------------------
(***************************************************************************)
(* deploy/install.sh and the unit it installs: installs and upgrades of    *)
(* one machine, one after the other, each of which can be cut off between  *)
(* any two effects on the disk, beside systemd, which restarts the agent   *)
(* from whatever the disk holds at the time.                               *)
(*                                                                         *)
(* Simplifications: the checks before the first effect are left out (they  *)
(* end the script with nothing done); an agent that cannot start is seen   *)
(* to be down after the two seconds the script waits; what is written is   *)
(* durable; the checksum tells every image from every other, so that it is *)
(* modelled by the one image that has it.                                  *)
(***************************************************************************)
EXTENDS Naturals

CONSTANTS
    Images,     \* binaries of releases, the only ones that can be asked for
    Versions,
    VersionOf,  \* what an image prints of itself
    Settings,   \* pairs of endpoint and token
    Bad,        \* an image that is of no release
    None,       \* no image, no line
    MaxRuns, MaxMishaps     \* bounds

ASSUME InstallerAssumption ==
    /\ VersionOf \in [Images -> Versions]
    /\ Bad \notin Images /\ None \notin Images \cup Settings \cup {Bad}
    /\ "cut" \notin Images \cup {Bad, None}
    /\ MaxRuns \in Nat /\ MaxMishaps \in Nat

VARIABLES
    sameFS,     \* is the temporary directory on the file system of /usr/local/bin?
    step,       \* where the script is
    request,    \* what the platform asked for in this run
    install,    \* INSTALL_BINARY
    fetched,    \* the downloaded image
    account, binary, config, unit,  \* the machine; binary may be "cut"
    loaded, enabled, service,       \* systemd
    \* history
    disturbed,  \* something went wrong since the run began
    asked,      \* the checksums that runs have been given so far
    runs, mishaps

disk == <<account, binary, config, unit>>
systemd == <<loaded, enabled, service>>
script == <<request, install, fetched>>
history == <<disturbed, asked, runs, mishaps>>
vars == <<sameFS, step, script, disk, systemd, history>>

\* The checksum asked for is that of a binary of the version asked for.
Requests == {r \in [version : Versions, sum : Images, settings : Settings] :
                VersionOf[r.sum] = r.version}
Ended == {"idle", "ok", "failed"}

Absent == [exists |-> FALSE, private |-> FALSE, endpoint |-> None, token |-> None]
Down(state) == [state |-> state, image |-> None, endpoint |-> None, token |-> None]

Init ==
    /\ sameFS \in BOOLEAN
    /\ step = "idle" /\ request \in Requests /\ install = TRUE /\ fetched = None
    /\ account = FALSE /\ binary = None /\ config = Absent /\ unit = FALSE
    /\ loaded = FALSE /\ enabled = FALSE /\ service = Down("stopped")
    /\ disturbed = FALSE /\ asked = {} /\ runs = 0 /\ mishaps = 0

Goto(from, to) == step = from /\ step' = to

-----------------------------------------------------------------------------
(***************************************************************************)
(* The script.                                                             *)
(***************************************************************************)

Prints(image, v) == image \in Images /\ VersionOf[image] = v

\* Mutant: only a version that is printed and differs is replaced.
UpToDateUnlessOlder(v) == Prints(binary, v) \/ binary = "cut"
\* The binary on disk can be run and prints the version.  Its checksum is not
\* compared with the one asked for.
UpToDate(v) == Prints(binary, v)

Begin(r) ==
    /\ step \in Ended /\ runs < MaxRuns
    /\ step' = "account" /\ request' = r /\ install' = ~UpToDate(r.version)
    /\ fetched' = None /\ disturbed' = FALSE
    /\ asked' = asked \cup {r.sum} /\ runs' = runs + 1
    /\ UNCHANGED <<sameFS, disk, systemd, mishaps>>

CreateAccount ==
    /\ Goto("account", IF install THEN "download" ELSE "touch")
    /\ account' = TRUE
    /\ UNCHANGED <<sameFS, script, binary, config, unit, systemd, history>>

\* What the download yields need not be what was asked for.
Download ==
    /\ Goto("download", "check")
    /\ fetched' \in Images \cup {Bad}
    /\ disturbed' = (disturbed \/ fetched' # request.sum)
    /\ UNCHANGED <<sameFS, request, install, disk, systemd, asked, runs, mishaps>>

\* Mutant: the status of sha256sum is not looked at.
ChecksumIgnored == TRUE
ChecksumMatches == fetched = request.sum

Check ==
    /\ Goto("check", IF ChecksumMatches THEN "move" ELSE "failed")
    /\ UNCHANGED <<sameFS, script, disk, systemd, history>>

\* mv renames, or makes a copy after removing what was there.
Move ==
    /\ Goto("move", IF sameFS THEN "touch" ELSE "copy")
    /\ binary' = IF sameFS THEN fetched ELSE None
    /\ UNCHANGED <<sameFS, script, account, config, unit, systemd, history>>

Copy ==
    /\ Goto("copy", IF binary = None THEN "copy" ELSE "touch")
    /\ binary' = IF binary = None THEN "cut" ELSE fetched
    /\ UNCHANGED <<sameFS, script, account, config, unit, systemd, history>>

\* touch leaves a file that exists as it is.
Touch ==
    /\ Goto("touch", "chmod")
    /\ config' = [config EXCEPT !.exists = TRUE]
    /\ UNCHANGED <<sameFS, script, account, binary, unit, systemd, history>>

\* Mutant: the mode is set only by the run that installs a binary.
RestrictOnce(c) == [c EXCEPT !.private = install \/ @]
Restrict(c) == [c EXCEPT !.private = TRUE]

Chmod ==
    /\ Goto("chmod", "truncate")
    /\ config' = Restrict(config)
    /\ UNCHANGED <<sameFS, script, account, binary, unit, systemd, history>>

Truncate ==
    /\ Goto("truncate", "endpoint")
    /\ config' = [config EXCEPT !.endpoint = None, !.token = None]
    /\ UNCHANGED <<sameFS, script, account, binary, unit, systemd, history>>

PrintEndpoint ==
    /\ Goto("endpoint", "token")
    /\ config' = [config EXCEPT !.endpoint = request.settings]
    /\ UNCHANGED <<sameFS, script, account, binary, unit, systemd, history>>

PrintToken ==
    /\ Goto("token", "unit")
    /\ config' = [config EXCEPT !.token = request.settings]
    /\ UNCHANGED <<sameFS, script, account, binary, unit, systemd, history>>

\* The unit file is truncated, then written.
WriteUnit ==
    /\ \/ Goto("unit", "body") /\ unit' = FALSE
       \/ Goto("body", "reload") /\ unit' = TRUE
    /\ UNCHANGED <<sameFS, script, account, binary, config, systemd, history>>

Reload ==
    /\ Goto("reload", "enable")
    /\ loaded' = unit
    /\ UNCHANGED <<sameFS, script, disk, enabled, service, history>>

\* A failure is ignored.
Enable ==
    /\ Goto("enable", "restart")
    /\ enabled' \in {TRUE, enabled}
    /\ UNCHANGED <<sameFS, script, disk, loaded, service, history>>

\* What comes of starting the agent from the disk; a start that fails is tried
\* again (Restart=always).
Launched(known) ==
    IF ~known THEN Down("stopped")
    ELSE IF /\ account /\ binary \in Images \cup {Bad}
            /\ None \notin {config.endpoint, config.token}
         THEN [state |-> "running", image |-> binary,
               endpoint |-> config.endpoint, token |-> config.token]
         ELSE Down("waiting")

\* Mutant: the agent is restarted only for a new binary.
RestartedIfInstalled == IF install THEN Launched(loaded) ELSE service
Restarted == Launched(loaded)

Restart ==
    /\ Goto("restart", "verify")
    /\ service' = Restarted
    /\ UNCHANGED <<sameFS, script, disk, loaded, enabled, history>>

Verify ==
    /\ Goto("verify", IF service.state = "running" THEN "ok" ELSE "failed")
    /\ UNCHANGED <<sameFS, script, disk, systemd, history>>

Script ==
    \/ CreateAccount \/ Download \/ Check \/ Move \/ Copy
    \/ Touch \/ Chmod \/ Truncate \/ PrintEndpoint \/ PrintToken
    \/ WriteUnit \/ Reload \/ Enable \/ Restart \/ Verify

-----------------------------------------------------------------------------
(***************************************************************************)
(* Around the script.                                                      *)
(***************************************************************************)

\* A command fails, the connection drops, the script is killed.
Abort ==
    /\ step \notin Ended
    /\ step' = "failed" /\ disturbed' = TRUE
    /\ UNCHANGED <<sameFS, script, disk, systemd, asked, runs, mishaps>>

Mishap == mishaps < MaxMishaps /\ mishaps' = mishaps + 1 /\ disturbed' = TRUE

\* The machine starts again: systemd reads the unit and starts what is enabled.
Reboot ==
    /\ Mishap
    /\ step' = IF step \in Ended THEN step ELSE "failed"
    /\ loaded' = unit
    /\ service' = IF enabled THEN Launched(unit) ELSE Down("stopped")
    /\ UNCHANGED <<sameFS, script, disk, enabled, asked, runs>>

\* Mutant: a unit without Restart=always.
ExitedForGood == Down("stopped")
Exited == Down("waiting")

\* The agent exits or is killed.
Exit ==
    /\ Mishap
    /\ service.state = "running" /\ service' = Exited
    /\ UNCHANGED <<sameFS, step, script, disk, loaded, enabled, asked, runs>>

\* RestartSec later.
Relaunch ==
    /\ service.state = "waiting" /\ service' = Launched(loaded)
    /\ UNCHANGED <<sameFS, step, script, disk, loaded, enabled, history>>

Next ==
    \/ \E r \in Requests : Begin(r)
    \/ Script
    \/ Abort \/ Reboot \/ Exit
    \/ Relaunch

Spec == Init /\ [][Next]_vars

\* A script that is not cut off goes on, and systemd does not give up: the
\* unit sets no limit that one start in five seconds could reach.
FairSpec == Spec /\ WF_vars(Script) /\ WF_vars(Relaunch)

-----------------------------------------------------------------------------
(***************************************************************************)
(* Properties.                                                             *)
(***************************************************************************)

\* An image this run asked for: by its checksum if a binary was downloaded, by
\* its version if the one in place was kept.
Wanted(image) ==
    IF install THEN image = request.sum ELSE Prints(image, request.version)

\* What runs is what was asked for.
AsRequested(s) ==
    /\ Wanted(s.image)
    /\ s.endpoint = request.settings /\ s.token = request.settings

\* After a run that reports success the machine holds what this run was asked
\* for, and no agent runs with anything else, whatever earlier runs that were
\* cut off had left behind (the last lines of install.sh).
SuccessMeansInstalled ==
    step = "ok" =>
        /\ account /\ unit /\ loaded /\ Wanted(binary)
        /\ config = [exists |-> TRUE, private |-> TRUE,
                     endpoint |-> request.settings, token |-> request.settings]
        /\ service.state = "running" => AsRequested(service)

\* No image runs whose checksum no run was given; nor is one where it could be
\* run, a copy that was cut short (which is not executable) aside (the comment
\* at the checksum).
OnlyVerified ==
    /\ binary \in asked \cup {None, "cut"}
    /\ service.image \in asked \cup {None}

\* No interruption leaves a part of a binary on the disk (the promise of the
\* comment at mv).
NeverHalfWritten == binary # "cut"

\* The token is never in a file that others can read, whatever the state and
\* the mode of the file that an interrupted run left (the comment at touch).
TokenPrivate == config.token # None => config.private

\* Whatever was left behind, a run in which nothing goes wrong succeeds
\* (the head of install.sh says that it can be run again).
RerunRepairs == step = "account" ~> step = "ok" \/ disturbed

\* After a success the agent runs again after every exit and, if the unit could
\* be enabled, after every reboot (Restart=always, WantedBy).
ServiceReturns ==
    <>[](step = "ok" /\ enabled) => <>[](service.state = "running" /\ AsRequested(service))
=============================================================================
