-------------------------- MODULE InstallerProofs --------------------------
(***************************************************************************)
(* What an install guarantees, proved for every number of runs, images,    *)
(* versions and settings and for interruptions at any point.               *)
(*                                                                         *)
(* The invariant says of every position of the script what this run has    *)
(* achieved by then.  Nothing is said of a run that has ended without      *)
(* success: the next one starts from whatever is there, and Begin needs    *)
(* only that a binary of the right version is a whole one.                 *)
(***************************************************************************)
EXTENDS Installer, TLAPS

Closing == {"verify", "ok"}
Loading == {"enable", "restart"} \cup Closing
Serving == {"reload"} \cup Loading
WithToken == {"unit", "body"} \cup Serving
WithEndpoint == {"token"} \cup WithToken
Restricted == {"truncate", "endpoint"} \cup WithEndpoint
Configuring == {"touch", "chmod"} \cup Restricted
Fetching == {"download", "check", "move", "copy"}
Steps == {"idle", "failed", "account"} \cup Fetching \cup Configuring

Configs == [exists : BOOLEAN, private : BOOLEAN,
            endpoint : Settings \cup {None}, token : Settings \cup {None}]
Services == [state : {"stopped", "waiting", "running"}, image : Images \cup {None},
             endpoint : Settings \cup {None}, token : Settings \cup {None}]

Types ==
    /\ step \in Steps /\ request \in Requests /\ install \in BOOLEAN
    /\ sameFS \in BOOLEAN /\ account \in BOOLEAN /\ unit \in BOOLEAN
    /\ config \in Configs /\ service \in Services
    /\ asked \subseteq Images

\* The binary has a checksum that was asked for, is the first part of such a
\* one, or there is none; past the binary's part of the script it is the one
\* this run wants.
Binary ==
    /\ step # "idle" => request.sum \in asked
    /\ binary \in asked \cup {None, "cut"}
    /\ binary = "cut" \/ step = "copy" => ~sameFS
    /\ step \in Fetching => install
    /\ step \in {"move", "copy"} => fetched = request.sum
    /\ step \in Configuring \/ (step = "account" /\ ~install) => Wanted(binary)

\* The machine beside the binary.
Machine ==
    /\ step \in Fetching \cup Configuring => account
    /\ config.token # None => config.private
    /\ step \in {"chmod"} \cup Restricted => config.exists
    /\ step \in Restricted => config.private
    /\ step = "endpoint" => config.token = None
    /\ step \in WithEndpoint => config.endpoint = request.settings
    /\ step \in WithToken => config.token = request.settings
    /\ step \in Serving => unit
    /\ step \in Loading => loaded

\* The agent that runs.
Service ==
    /\ service.state # "running" => service.image = None
    /\ service.image \in asked \cup {None}
    /\ step \in Closing /\ service.state = "running" => AsRequested(service)

Inv == Types /\ Binary /\ Machine /\ Service

-----------------------------------------------------------------------------
LEMMA InitInv == Init => Inv
<1> SUFFICES ASSUME Init PROVE Inv
    OBVIOUS
<1>1. step = "idle" /\ binary = None /\ config = Absent /\ service = Down("stopped")
    BY DEF Init
<1>2. Absent \in Configs /\ Absent.token = None
    BY DEF Absent, Configs
<1>3. Down("stopped") \in Services /\ Down("stopped").image = None
      /\ Down("stopped").state # "running"
    BY DEF Down, Services
<1>4. step \in Steps /\ step \notin Fetching \cup Configuring \cup {"account"}
    BY <1>1 DEF Steps, Fetching, Configuring, Restricted, WithEndpoint, WithToken, Serving,
                Loading, Closing
<1>5. Types
    BY <1>1, <1>2, <1>3, <1>4 DEF Init, Types
<1>6. Binary
    BY <1>1, <1>4, InstallerAssumption DEF Binary, Fetching
<1>7. Machine
    BY <1>1, <1>2, <1>4
       DEF Machine, Configuring, Restricted, WithEndpoint, WithToken, Serving, Loading
<1>8. Service
    BY <1>1, <1>3 DEF Service, Closing
<1> QED
    BY <1>5, <1>6, <1>7, <1>8 DEF Inv

\* Whatever is launched from the disk has a checksum that was asked for, and is
\* what this run wants once binary and configuration are in place.
LEMMA LaunchFromDisk ==
    ASSUME Types, Binary, NEW known
    PROVE  /\ Launched(known) \in Services
           /\ Launched(known).state # "running" => Launched(known).image = None
           /\ Launched(known).image \in asked \cup {None}
           /\ Wanted(binary) /\ config.endpoint = request.settings
                 /\ config.token = request.settings /\ Launched(known).state = "running"
              => AsRequested(Launched(known))
<1>d. ASSUME NEW state \in {"stopped", "waiting"}
      PROVE  /\ Down(state) \in Services
             /\ Down(state).image = None /\ Down(state).state # "running"
    BY DEF Down, Services
<1>1. CASE Launched(known) = Down("stopped")
    BY <1>1, <1>d
<1>2. CASE Launched(known) = Down("waiting")
    BY <1>2, <1>d
<1>3. CASE /\ known
           /\ account /\ binary \in Images \cup {Bad}
           /\ None \notin {config.endpoint, config.token}
    <2>1. binary \in asked /\ binary \in Images
        BY <1>3, InstallerAssumption DEF Binary, Types
    <2> QED
        BY <1>3, <2>1 DEF Launched, Services, Types, Configs, AsRequested
<1> QED
    BY <1>1, <1>2, <1>3 DEF Launched

LEMMA BinaryStep ==
    ASSUME Inv, Next
    PROVE  Binary'
<1> USE DEF Inv, Types, Binary, Goto, Wanted, Fetching, history
<1>1. ASSUME NEW r \in Requests, Begin(r) PROVE Binary'
    <2>1. /\ step' = "account" /\ request' = r /\ asked' = asked \cup {r.sum}
          /\ install' = ~Prints(binary, r.version) /\ UNCHANGED <<sameFS, binary>>
        BY <1>1 DEF Begin, UpToDate, disk
    <2>2. step' \notin Fetching \cup Configuring
        BY <2>1 DEF Configuring, Restricted, WithEndpoint, WithToken, Serving,
                    Loading, Closing
    <2>3. ~install' => Wanted(binary)'
        BY <2>1
    <2> QED
        BY <2>1, <2>2, <2>3
<1>2. CASE CreateAccount \/ Download \/ Check
    BY <1>2 DEF CreateAccount, Download, Check, ChecksumMatches, script, disk,
                Configuring, Restricted, WithEndpoint, WithToken, Serving, Loading, Closing
<1>3. CASE Move \/ Copy
    BY <1>3, InstallerAssumption
       DEF Move, Copy, script, Requests, Configuring, Restricted, WithEndpoint, WithToken,
           Serving, Loading, Closing
<1>4. CASE Touch \/ Chmod \/ Truncate \/ PrintEndpoint \/ PrintToken \/ WriteUnit
    BY <1>4 DEF Touch, Chmod, Truncate, PrintEndpoint, PrintToken, WriteUnit, script,
                Configuring, Restricted, WithEndpoint, WithToken, Serving, Loading, Closing
<1>5. CASE Reload \/ Enable \/ Restart
    <2>1. /\ step \in Serving /\ step' \in Serving
          /\ UNCHANGED <<sameFS, binary, request, install, asked>>
        BY <1>5 DEF Reload, Enable, Restart, script, disk, Serving, Loading, Closing
    <2> QED
        BY <2>1 DEF Configuring, Restricted, WithEndpoint, WithToken, Serving, Loading, Closing
<1>7. CASE Verify
    <2>1. step' \in {"ok", "failed"} /\ step = "verify"
          /\ UNCHANGED <<sameFS, binary, request, install, asked>>
        BY <1>7 DEF Verify, script, disk
    <2> QED
        BY <2>1 DEF Configuring, Restricted, WithEndpoint, WithToken, Serving, Loading, Closing
<1>6. CASE Abort \/ Reboot \/ Exit \/ Relaunch
    BY <1>6 DEF Abort, Reboot, Exit, Relaunch, Ended, script, disk,
                Configuring, Restricted, WithEndpoint, WithToken, Serving, Loading, Closing
<1> QED
    BY <1>1, <1>2, <1>3, <1>4, <1>5, <1>6, <1>7 DEF Next, Script

LEMMA TypesStep ==
    ASSUME Inv, Next
    PROVE  Types'
<1> USE DEF Inv, Types, Goto, history
<1>s. Steps = {"idle", "failed", "account", "download", "check", "move", "copy", "touch",
               "chmod", "truncate", "endpoint", "token", "unit", "body", "reload", "enable",
               "restart", "verify", "ok"}
    BY DEF Steps, Fetching, Configuring, Restricted, WithEndpoint, WithToken, Serving,
           Loading, Closing
<1>c. /\ [config EXCEPT !.exists = TRUE] \in Configs
      /\ [config EXCEPT !.private = TRUE] \in Configs
      /\ [config EXCEPT !.endpoint = None, !.token = None] \in Configs
      /\ [config EXCEPT !.endpoint = request.settings] \in Configs
      /\ [config EXCEPT !.token = request.settings] \in Configs
    BY DEF Configs, Requests
<1>d. Down("stopped") \in Services /\ Down("waiting") \in Services
    BY DEF Down, Services
<1>1. ASSUME NEW r \in Requests, Begin(r) PROVE Types'
    BY <1>1, <1>s DEF Begin, disk, systemd, UpToDate, Requests
<1>2. CASE CreateAccount \/ Download \/ Check \/ Move \/ Copy
    BY <1>2, <1>s DEF CreateAccount, Download, Check, Move, Copy, script, disk, systemd
<1>3. CASE Touch \/ Chmod \/ Truncate \/ PrintEndpoint \/ PrintToken
    BY <1>3, <1>s, <1>c
       DEF Touch, Chmod, Restrict, Truncate, PrintEndpoint, PrintToken, script, systemd
<1>4. CASE WriteUnit \/ Reload \/ Enable \/ Verify
    BY <1>4, <1>s DEF WriteUnit, Reload, Enable, Verify, script, disk, systemd
<1>5. CASE Restart
    BY <1>5, <1>s, LaunchFromDisk DEF Restart, Restarted, script, disk
<1>6. CASE Abort \/ Exit \/ Relaunch
    BY <1>6, <1>s, <1>d, LaunchFromDisk
       DEF Abort, Exit, Exited, Relaunch, script, disk, systemd
<1>7. CASE Reboot
    BY <1>7, <1>s, <1>d, LaunchFromDisk DEF Reboot, script, disk
<1> QED
    BY <1>1, <1>2, <1>3, <1>4, <1>5, <1>6, <1>7 DEF Next, Script

LEMMA MachineStep ==
    ASSUME Inv, Next
    PROVE  Machine'
<1> USE DEF Inv, Types, Machine, Goto
<1>1. ASSUME NEW r \in Requests, Begin(r) PROVE Machine'
    BY <1>1 DEF Begin, disk, Fetching, Configuring, Restricted, WithEndpoint, WithToken,
                Serving, Loading, Closing
<1>2. CASE CreateAccount \/ Download \/ Check \/ Move \/ Copy
    BY <1>2 DEF CreateAccount, Download, Check, Move, Copy, script, disk, Fetching,
                Configuring, Restricted, WithEndpoint, WithToken, Serving, Loading, Closing
<1>3. CASE Touch \/ Chmod
    BY <1>3 DEF Touch, Chmod, Restrict, Configs, script, Fetching, Configuring, Restricted,
                WithEndpoint, WithToken, Serving, Loading, Closing
<1>4. CASE Truncate
    BY <1>4 DEF Truncate, Configs, script, Fetching, Configuring, Restricted,
                WithEndpoint, WithToken, Serving, Loading, Closing
<1>5. CASE PrintEndpoint \/ PrintToken
    BY <1>5 DEF PrintEndpoint, PrintToken, Configs, script, Fetching, Configuring,
                Restricted, WithEndpoint, WithToken, Serving, Loading, Closing
<1>6. CASE WriteUnit
    BY <1>6 DEF WriteUnit, script, Fetching, Configuring, Restricted, WithEndpoint,
                WithToken, Serving, Loading, Closing
<1>7. CASE Reload \/ Enable \/ Restart
    BY <1>7 DEF Reload, Enable, Restart, script, disk, Fetching, Configuring, Restricted,
                WithEndpoint, WithToken, Serving, Loading, Closing
<1>8. CASE Verify
    BY <1>8 DEF Verify, script, disk, systemd, Fetching, Configuring, Restricted,
                WithEndpoint, WithToken, Serving, Loading, Closing
<1>9. CASE Abort \/ Exit \/ Relaunch \/ Reboot
    BY <1>9 DEF Abort, Exit, Relaunch, Reboot, Ended, script, disk, systemd, Fetching,
                Configuring, Restricted, WithEndpoint, WithToken, Serving, Loading, Closing
<1> QED
    BY <1>1, <1>2, <1>3, <1>4, <1>5, <1>6, <1>7, <1>8, <1>9 DEF Next, Script

LEMMA ServiceStep ==
    ASSUME Inv, Next
    PROVE  Service'
<1> USE DEF Inv, Service, history
<1>c. {"ok", "verify"} \subseteq Closing /\ Closing \subseteq WithToken
      /\ WithToken \subseteq Configuring /\ WithToken \subseteq WithEndpoint
    BY DEF Closing, Configuring, Restricted, WithEndpoint, WithToken, Serving, Loading
<1>d. ASSUME NEW state \in {"stopped", "waiting"}
      PROVE  Down(state).image = None /\ Down(state).state # "running"
    BY DEF Down
<1>l. ASSUME NEW known, service' = Launched(known), UNCHANGED <<request, install, asked>>,
             step' \in Closing => step \in WithToken
      PROVE  Service'
    BY <1>l, <1>c, LaunchFromDisk DEF Binary, Machine, AsRequested, Wanted
<1>1. ASSUME NEW r \in Requests, Begin(r) PROVE Service'
    BY <1>1 DEF Begin, systemd, Closing
<1>2. CASE CreateAccount \/ Download \/ Check \/ Move \/ Copy
    BY <1>2 DEF CreateAccount, Download, Check, Move, Copy, systemd, Closing, Goto
<1>3. CASE Touch \/ Chmod \/ Truncate \/ PrintEndpoint \/ PrintToken
    BY <1>3 DEF Touch, Chmod, Truncate, PrintEndpoint, PrintToken, systemd, Closing, Goto
<1>4. CASE WriteUnit \/ Reload \/ Enable
    BY <1>4 DEF WriteUnit, Reload, Enable, systemd, Closing, Goto
<1>5. CASE Restart
    BY <1>5, <1>l DEF Restart, Restarted, script, WithToken, Serving, Loading, Goto
<1>6. CASE Verify \/ Abort
    BY <1>6 DEF Verify, Abort, script, systemd, Closing, Goto, AsRequested, Wanted
<1>7. CASE Exit
    BY <1>7, <1>d DEF Exit, Exited, script
<1>8. CASE Relaunch
    BY <1>8, <1>c, <1>l DEF Relaunch, script
<1>9. CASE Reboot
    <2>1. UNCHANGED <<request, install, asked>> /\ (step' \in Closing => step \in WithToken)
        BY <1>9, <1>c DEF Reboot, script, Closing
    <2> QED
        BY <1>9, <1>d, <1>l, <2>1 DEF Reboot
<1> QED
    BY <1>1, <1>2, <1>3, <1>4, <1>5, <1>6, <1>7, <1>8, <1>9 DEF Next, Script

LEMMA Invariance == Spec => []Inv
<1>1. ASSUME Inv, UNCHANGED vars PROVE Inv'
    BY <1>1 DEF Inv, Types, Binary, Machine, Service, AsRequested, Wanted, vars, script,
                disk, systemd, history
<1>2. Inv /\ [Next]_vars => Inv'
    BY <1>1, TypesStep, BinaryStep, MachineStep, ServiceStep DEF Inv
<1> QED
    BY <1>2, InitInv, PTL DEF Spec

-----------------------------------------------------------------------------
\* Success means that the machine holds, and the service runs, what this run was
\* asked for, after any number of runs cut off anywhere.
THEOREM SuccessIsTrue == Spec => []SuccessMeansInstalled
<1>1. Inv => SuccessMeansInstalled
    <2> SUFFICES ASSUME Inv, step = "ok" PROVE SuccessMeansInstalled
        BY DEF SuccessMeansInstalled
    <2>1. step \in Closing /\ step \in Loading /\ step \in Serving /\ step \in WithToken
          /\ step \in WithEndpoint /\ step \in Restricted /\ step \in Configuring
        BY DEF Closing, Configuring, Restricted, WithEndpoint, WithToken, Serving, Loading
    <2>2. config = [exists |-> TRUE, private |-> TRUE,
                    endpoint |-> request.settings, token |-> request.settings]
        BY <2>1 DEF Inv, Types, Machine, Configs
    <2> QED
        BY <2>1, <2>2 DEF Inv, Binary, Machine, Service, SuccessMeansInstalled
<1> QED
    BY <1>1, Invariance, PTL

\* No image runs whose checksum no run was given, and none is in place where it
\* could be run, the first part of a copy that is not finished aside: that is not
\* executable, and it never runs.
THEOREM OnlyVerifiedRuns == Spec => []OnlyVerified
<1>1. Inv => OnlyVerified
    BY DEF Inv, Binary, Service, OnlyVerified
<1> QED
    BY <1>1, Invariance, PTL

\* Where mv renames, no interruption leaves a part of a binary on the disk: the
\* promise of install.sh holds there, and only there.
THEOREM RenameKeepsWhole == Spec => [](sameFS => NeverHalfWritten)
<1>1. Inv => (sameFS => NeverHalfWritten)
    BY DEF Inv, Binary, NeverHalfWritten
<1> QED
    BY <1>1, Invariance, PTL

\* The token is never in a file that others can read.
THEOREM TokenStaysPrivate == Spec => []TokenPrivate
<1>1. Inv => TokenPrivate
    BY DEF Inv, Machine, TokenPrivate
<1> QED
    BY <1>1, Invariance, PTL
=============================================================================
