----------------------------- MODULE NodeSetup ------------------------------
(***************************************************************************)
(* medasdigital_setup.sh on one host, together with systemd, Cosmovisor,   *)
(* the network it downloads from and the operator who runs it.             *)
(*                                                                         *)
(* Every command is a straight line of steps.  It dies at the first step   *)
(* that fails (set -Eeuo pipefail) and may be interrupted between any two, *)
(* by a signal or a reboot; what it has written to the disk stays.  A file *)
(* that is being written exists for a while without its contents: a binary *)
(* is then not executable and its checksum is wrong, and a unit starts     *)
(* nothing.                                                                *)
(***************************************************************************)
EXTENDS Naturals, Sequences, FiniteSets

CONSTANTS
    Hosts,          \* which hosts to start from: "fresh", "existing"
    Interrupts,     \* are commands interrupted and hosts rebooted?
    OperatorActs    \* does the operator start and stop nodes by hand?

ASSUME NodeSetupAssumption ==
    /\ Hosts \subseteq {"fresh", "existing"}
    /\ Interrupts \in BOOLEAN /\ OperatorActs \in BOOLEAN

VARIABLES
    disk,     \* the files on the host
    loaded,   \* the unit as systemd has read it
    procs,    \* how the running node processes were started
    cmd, at,  \* the command in execution and its next step
    copying,  \* is that step writing its file right now?
    run,      \* the binary that init has chosen
    net,      \* the version the network runs
    printed   \* has migrate printed its rollback commands?

vars == <<disk, loaded, procs, cmd, at, copying, run, net, printed>>
script == <<cmd, at, copying, run, printed>>

Files == {"lib", "genesis", "v2"}
Versions == {"genesis", "v2"}

\* A unit file: a torn one exists without its contents.
Units == {"none", "torn", "plain", "cosmovisor"}

(***************************************************************************)
(* config: nothing; initialized with the genesis file of the binary's own  *)
(* init; that file removed; the right one, or its beginning, there; all    *)
(* settings done.                                                          *)
(***************************************************************************)
Configs == {"none", "ownGenesis", "noGenesis", "genesisOnly", "done"}

Disk == [cosmovisor : BOOLEAN,
         files      : [Files -> {"absent", "partial", "ok"}],
         current    : {"none"} \cup Versions,       \* the link cosmovisor/current
         cli        : {"absent", "file", "link"},   \* /usr/local/bin/medasdigitald
         cliBackup  : BOOLEAN,                      \* the same with .pre-cosmovisor
         unit       : Units,
         unitBackup : Units,
         config     : Configs]

Program ==
    [install |-> <<"checkInstall", "cosmovisor", "lib", "genesis", "upgrades",
                   "currentIfNone", "mvCli", "lnCli">>,
     init    |-> <<"checkInit", "askNetwork", "setCurrent", "init", "rmGenesis",
                   "fetchGenesis", "configure">>,
     initGenesisSync |-> <<"checkInit", "setCurrent", "init", "rmGenesis",
                           "fetchGenesis", "configure">>,
     service |-> <<"checkService", "writeUnit", "reload">>,
     migrate |-> <<"checkMigrate", "cosmovisor", "copyBinary", "setCurrent", "upgrades",
                   "confirm", "stop", "wait", "backupUnit", "writeUnit", "mvCli", "lnCli",
                   "reload", "checkStopped", "start", "verify">>,
     prepareUpgrade |-> <<"checkPrepare", "v2">>]

Commands == DOMAIN Program

TypeOK ==
    /\ disk \in Disk
    /\ loaded \in Units
    /\ procs \subseteq {"plain", "cosmovisor", "manual"}
    /\ cmd \in Commands \cup {"none"}
    /\ at \in IF cmd = "none" THEN {1} ELSE 1 .. Len(Program[cmd])
    /\ copying \in BOOLEAN
    /\ run \in Versions
    /\ net \in Versions
    /\ printed \in BOOLEAN

FreshDisk == [cosmovisor |-> FALSE, files |-> [f \in Files |-> "absent"],
              current |-> "none", cli |-> "absent", cliBackup |-> FALSE,
              unit |-> "none", unitBackup |-> "none", config |-> "none"]

\* A node of the old style: its unit starts /usr/local/bin/medasdigitald.
ExistingDisk == [FreshDisk EXCEPT !.files["lib"] = "ok", !.cli = "file",
                                  !.unit = "plain", !.config = "done"]

Init ==
    /\ \/ "fresh" \in Hosts /\ disk = FreshDisk /\ loaded = "none" /\ procs = {}
       \/ "existing" \in Hosts /\ disk = ExistingDisk /\ loaded = "plain" /\ procs = {"plain"}
    /\ cmd = "none" /\ at = 1
    /\ copying = FALSE
    /\ run = "genesis"
    /\ net = "genesis"
    /\ printed = FALSE

-----------------------------------------------------------------------------
(* The flow of a command.                                                  *)

Op == IF cmd = "none" THEN "none" ELSE Program[cmd][at]

Advance ==
    IF at < Len(Program[cmd]) THEN cmd' = cmd /\ at' = at + 1
                              ELSE cmd' = "none" /\ at' = 1

Exit == cmd' = "none" /\ at' = 1 /\ copying' = FALSE

Run(c) ==
    /\ cmd = "none"
    /\ cmd' = c
    /\ at' = 1
    /\ run' = "genesis"
    /\ UNCHANGED <<disk, loaded, procs, copying, net, printed>>

\* A step that only writes to the disk.
WriteDisk(new) ==
    /\ disk' = new
    /\ Advance
    /\ UNCHANGED <<loaded, procs, copying, run, net, printed>>

HasGenesisFile == disk.config \in {"ownGenesis", "genesisOnly", "done"}
Executable(f) == disk.files[f] = "ok"

\* has_old_style_service: a unit file without "cosmovisor run" in it.
OldStyle == disk.unit \in {"plain", "torn"}

\* The checks at the beginning of each command.
CanInstall == ~ OldStyle

CanInit == disk.config = "none" /\ Executable("genesis")

CanService ==
    /\ ~ OldStyle
    /\ HasGenesisFile
    /\ disk.cosmovisor /\ disk.current # "none"

\* A torn unit has no ExecStart to migrate from.
CanMigrate ==
    /\ disk.unit = "plain"
    /\ HasGenesisFile
    /\ disk.cli # "absent"
    /\ Cardinality(procs) <= 1
    /\ disk.files["genesis"] # "partial"

CanPrepare == disk.files["genesis"] # "absent"

ChecksOut(op) ==
    CASE op = "checkInstall" -> CanInstall
      [] op = "checkInit"    -> CanInit
      [] op = "checkService" -> CanService
      [] op = "checkMigrate" -> CanMigrate
      [] op = "checkPrepare" -> CanPrepare

Checks == {"checkInstall", "checkInit", "checkService", "checkMigrate", "checkPrepare"}

Check == Op \in Checks /\ ChecksOut(Op) /\ WriteDisk(disk)

\* An error; or migrate finds a unit with "cosmovisor run" and returns.
CheckFails ==
    /\ Op \in Checks
    /\ ~ ChecksOut(Op)
    /\ Exit
    /\ UNCHANGED <<disk, loaded, procs, run, net, printed>>

-----------------------------------------------------------------------------
(* Downloads.                                                              *)

Fetches == [o \in {"lib", "genesis", "v2", "upgrades"} |->
               IF o = "upgrades" THEN "v2" ELSE o]

\* A download that is needed: the file is not there yet.
NeedsNetwork ==
    \/ Op \in DOMAIN Fetches /\ disk.files[Fetches[Op]] = "absent"
    \/ Op = "cosmovisor" /\ ~ disk.cosmovisor
    \/ Op \in {"askNetwork", "fetchGenesis"}

NetworkFails ==
    /\ NeedsNetwork
    /\ Exit
    /\ UNCHANGED <<disk, loaded, procs, run, net, printed>>

\* fetch_verified: present and verified.
AlreadyFetched ==
    /\ Op \in DOMAIN Fetches
    /\ ~ copying
    /\ Executable(Fetches[Op])
    /\ WriteDisk(disk)

\* fetch_verified: a file with another checksum is never overwritten.
FetchRefuses ==
    /\ Op \in DOMAIN Fetches
    /\ ~ copying
    /\ disk.files[Fetches[Op]] = "partial"
    /\ Exit
    /\ UNCHANGED <<disk, loaded, procs, run, net, printed>>

\* A step that writes a file: first the file loses what it held, at the end it
\* has its new contents.
BeginWrite(new) ==
    /\ disk' = new
    /\ copying' = TRUE
    /\ UNCHANGED <<loaded, procs, cmd, at, run, net, printed>>

EndWrite(new) ==
    /\ copying
    /\ disk' = new
    /\ copying' = FALSE
    /\ Advance
    /\ UNCHANGED <<loaded, procs, run, net, printed>>

\* install creates the file it writes; in migrate it replaces an earlier copy.
BeginCopy(f) == ~ copying /\ BeginWrite([disk EXCEPT !.files[f] = "partial"])

EndCopy(f) == EndWrite([disk EXCEPT !.files[f] = "ok"])

Fetch ==
    /\ Op \in DOMAIN Fetches
    /\ \/ disk.files[Fetches[Op]] = "absent" /\ BeginCopy(Fetches[Op])
       \/ EndCopy(Fetches[Op])

\* install_upgrades without a name skips an upgrade that is not published.
SkipUpgrade ==
    /\ Op = "upgrades"
    /\ disk.files["v2"] = "absent"
    /\ WriteDisk(disk)

InstallCosmovisor == Op = "cosmovisor" /\ WriteDisk([disk EXCEPT !.cosmovisor = TRUE])

\* The binary of the old unit becomes Cosmovisor's genesis binary.
CopyBinary == Op = "copyBinary" /\ (BeginCopy("genesis") \/ EndCopy("genesis"))

-----------------------------------------------------------------------------
(* The links.                                                              *)

CurrentIfNone ==
    /\ Op = "currentIfNone"
    /\ WriteDisk(IF disk.current = "none" THEN [disk EXCEPT !.current = "genesis"] ELSE disk)

\* Defect: the link is set without looking for the binary.
SetCurrentUnchecked ==
    Op = "setCurrent" /\ WriteDisk([disk EXCEPT !.current = run])

SetCurrent ==
    Op = "setCurrent" /\ Executable(run) /\ WriteDisk([disk EXCEPT !.current = run])

SetCurrentFails ==
    /\ Op = "setCurrent"
    /\ ~ Executable(run)
    /\ Exit
    /\ UNCHANGED <<disk, loaded, procs, run, net, printed>>

\* Defect: the old binary is deleted.
DeleteCli ==
    /\ Op = "mvCli"
    /\ WriteDisk(IF disk.cli = "file" THEN [disk EXCEPT !.cli = "absent"] ELSE disk)

\* link_cli: first the old binary is moved aside, then the link is made.
MoveCli ==
    /\ Op = "mvCli"
    /\ WriteDisk(IF disk.cli = "file"
                 THEN [disk EXCEPT !.cli = "absent", !.cliBackup = TRUE] ELSE disk)

LinkCli == Op = "lnCli" /\ WriteDisk([disk EXCEPT !.cli = "link"])

-----------------------------------------------------------------------------
(* init                                                                    *)

\* Defect: a version that the script does not know is accepted.
AskNetworkUnknown ==
    /\ Op = "askNetwork"
    /\ run' \in {net, "unknown"}
    /\ Advance
    /\ UNCHANGED <<disk, loaded, procs, copying, net, printed>>

\* statesync_binary: the binary of the version that the network runs.
AskNetwork ==
    /\ Op = "askNetwork"
    /\ run' = net
    /\ Advance
    /\ UNCHANGED <<disk, loaded, procs, copying, net, printed>>

InitNode ==
    \/ Op = "init" /\ WriteDisk([disk EXCEPT !.config = "ownGenesis"])
    \/ Op = "rmGenesis" /\ WriteDisk([disk EXCEPT !.config = "noGenesis"])
    \/ Op = "fetchGenesis" /\ WriteDisk([disk EXCEPT !.config = "genesisOnly"])
    \/ Op = "configure" /\ WriteDisk([disk EXCEPT !.config = "done"])

-----------------------------------------------------------------------------
(* service and migrate                                                     *)

\* service truncates the unit before render_unit fills it; the install of
\* migrate removes the old unit, creates the new one and fills it.
WriteUnit ==
    /\ Op = "writeUnit"
    /\ \/ /\ ~ copying
          /\ BeginWrite([disk EXCEPT !.unit = IF cmd = "migrate" THEN "none" ELSE "torn"])
       \/ /\ copying /\ disk.unit = "none"
          /\ BeginWrite([disk EXCEPT !.unit = "torn"])
       \/ /\ disk.unit = "torn"
          /\ EndWrite([disk EXCEPT !.unit = "cosmovisor"])

\* cp -a
BackupUnit ==
    /\ Op = "backupUnit"
    /\ \/ ~ copying /\ BeginWrite([disk EXCEPT !.unitBackup = "torn"])
       \/ EndWrite([disk EXCEPT !.unitBackup = disk.unit])

\* systemctl daemon-reload
Reload ==
    /\ Op = "reload"
    /\ loaded' = disk.unit
    /\ Advance
    /\ UNCHANGED <<disk, procs, copying, run, net, printed>>

Confirm == Op = "confirm" /\ WriteDisk(disk)

\* The operator does not confirm.
Abort ==
    /\ Op = "confirm"
    /\ Exit
    /\ UNCHANGED <<disk, loaded, procs, run, net, printed>>

Stop ==
    /\ Op = "stop"
    /\ procs' = procs \ {"plain", "cosmovisor"}
    /\ Advance
    /\ UNCHANGED <<disk, loaded, copying, run, net, printed>>

\* Defect: the second look for a running node is missing.
NodeStoppedOnce == Op \in {"wait", "checkStopped"} /\ (Op = "wait" => procs = {}) /\ WriteDisk(disk)

\* wait_for_node_stop, and the last check before the start.
NodeStopped == Op \in {"wait", "checkStopped"} /\ procs = {} /\ WriteDisk(disk)

NodeStillRuns ==
    /\ Op \in {"wait", "checkStopped"}
    /\ procs # {}
    /\ Exit
    /\ UNCHANGED <<disk, loaded, procs, run, net, printed>>

\* Can the unit be started from what is on the disk?
Startable(u) ==
    CASE u \in {"none", "torn"} -> FALSE
      [] u = "plain"      -> \/ disk.cli = "file"
                             \/ /\ disk.cli = "link"
                                /\ disk.current # "none" /\ Executable(disk.current)
      [] u = "cosmovisor" -> disk.cosmovisor /\ disk.current # "none" /\ Executable(disk.current)

Started(u) == IF Startable(u) THEN {u} ELSE {}

Start ==
    /\ Op = "start"
    /\ procs' = procs \cup Started(loaded)
    /\ Advance
    /\ UNCHANGED <<disk, loaded, copying, run, net, printed>>

\* New blocks or not: the rollback commands are printed.
Verify ==
    /\ Op = "verify"
    /\ printed' = TRUE
    /\ Advance
    /\ UNCHANGED <<disk, loaded, procs, copying, run, net>>

-----------------------------------------------------------------------------
(* The world around the script.                                            *)

Interrupt ==
    /\ Interrupts
    /\ cmd # "none"
    /\ Exit
    /\ UNCHANGED <<disk, loaded, procs, run, net, printed>>

Reboot ==
    /\ Interrupts
    /\ Exit
    /\ loaded' = disk.unit
    /\ procs' = Started(disk.unit)
    /\ UNCHANGED <<disk, run, net, printed>>

\* systemctl start and stop; the operator never starts a second node.
SystemctlStart ==
    /\ OperatorActs
    /\ cmd = "none"
    /\ procs = {}
    /\ procs' = Started(loaded)
    /\ UNCHANGED <<disk, loaded, script, net>>

SystemctlStop ==
    /\ OperatorActs
    /\ cmd = "none"
    /\ procs' = procs \ {"plain", "cosmovisor"}
    /\ UNCHANGED <<disk, loaded, script, net>>

\* A node outside systemd; not in the moment between the last check and start.
ManualStart ==
    /\ OperatorActs
    /\ disk.config = "done"
    /\ procs = {}
    /\ Op # "start"
    /\ procs' = {"manual"}
    /\ UNCHANGED <<disk, loaded, script, net>>

ManualStop ==
    /\ "manual" \in procs
    /\ procs' = procs \ {"manual"}
    /\ UNCHANGED <<disk, loaded, script, net>>

\* The chain upgrades to v2.
ChainUpgrades ==
    /\ net = "genesis"
    /\ net' = "v2"
    /\ UNCHANGED <<disk, loaded, procs, script>>

CosmovisorSwitches ==
    /\ "cosmovisor" \in procs
    /\ net = "v2"
    /\ disk.current = "genesis"
    /\ Executable("v2")
    /\ disk' = [disk EXCEPT !.current = "v2"]
    /\ UNCHANGED <<loaded, procs, script, net>>

\* The commands of print_rollback; valid as long as there was no upgrade.
Rollback ==
    /\ cmd = "none"
    /\ printed
    /\ net = "genesis"
    /\ "manual" \notin procs
    /\ disk' = IF disk.cliBackup
               THEN [disk EXCEPT !.unit = disk.unitBackup, !.cli = "file", !.cliBackup = FALSE]
               ELSE [disk EXCEPT !.unit = disk.unitBackup]
    /\ loaded' = disk.unitBackup
    /\ procs' = {disk.unitBackup}
    /\ printed' = FALSE
    /\ UNCHANGED <<cmd, at, copying, run, net>>

-----------------------------------------------------------------------------
ScriptStep ==
    \/ Check \/ CheckFails
    \/ NetworkFails \/ AlreadyFetched \/ FetchRefuses \/ Fetch \/ SkipUpgrade
    \/ InstallCosmovisor \/ CopyBinary
    \/ CurrentIfNone \/ SetCurrent \/ SetCurrentFails \/ MoveCli \/ LinkCli
    \/ AskNetwork \/ InitNode
    \/ WriteUnit \/ BackupUnit \/ Reload \/ Confirm \/ Abort
    \/ Stop \/ NodeStopped \/ NodeStillRuns \/ Start \/ Verify

World ==
    \/ Interrupt \/ Reboot
    \/ SystemctlStart \/ SystemctlStop \/ ManualStart \/ ManualStop
    \/ ChainUpgrades \/ CosmovisorSwitches \/ Rollback

Next == (\E c \in Commands : Run(c)) \/ ScriptStep \/ World

Spec == Init /\ [][Next]_vars

-----------------------------------------------------------------------------
(* Properties.                                                             *)

\* A host with a node of the old style still has the binary of it.
HasOldBinary == disk.cli = "file" \/ disk.cliBackup

(***************************************************************************)
(* At every moment a whole unit on the disk can be started from what is on *)
(* the disk: a reboot in the middle of any command, or after any sequence  *)
(* of failed, repeated and rolled back ones, brings the node back (the     *)
(* order of the steps of cmd_migrate and link_cli, the checks of           *)
(* cmd_service and set_current, the refusal of fetch_verified to replace a *)
(* file).  The one moment it does not is when the unit itself is written,  *)
(* at lines 420 and 488: an interruption leaves an empty unit or none, and *)
(* nothing starts.  Then all that the new unit needs is in place, and the  *)
(* old unit, if there was one, is whole in its backup.                     *)
(***************************************************************************)
UnitStartable ==
    IF disk.unit \in {"plain", "cosmovisor"} THEN Startable(disk.unit)
    ELSE disk.unit = "torn" \/ disk.unitBackup # "none" =>
            Startable("cosmovisor") /\ (HasOldBinary => disk.unitBackup = "plain")

(***************************************************************************)
(* There are never two node processes (cmd_migrate: "Not starting a second *)
(* one"): two would sign with the same key.                                *)
(***************************************************************************)
OneNode == Cardinality(procs) <= 1

(***************************************************************************)
(* When migrate has printed the rollback commands they restore the old     *)
(* service and the old binary: both are still there and whole, also if an  *)
(* earlier migrate was interrupted or rolled back, or a later service was  *)
(* interrupted.                                                            *)
(***************************************************************************)
RollbackRestores == printed => disk.unitBackup = "plain" /\ disk.cliBackup

(***************************************************************************)
(* cmd_init: "Collect everything from the network first, so a failure      *)
(* leaves nothing half-done."                                              *)
(***************************************************************************)
NothingHalfDone == cmd = "none" => disk.config \in {"none", "done"}
=============================================================================
