-------------------------------- MODULE Host --------------------------------
(* The instance: the data volume, the two packet filters and the Compose stack, *)
(* and the three scripts a person runs there, one at a time:                    *)
(* infra/provision/mount_data_volume.py, configure_firewall.py and deploy.sh.   *)
(* A script may be ended between any two of its commands, any command may fail, *)
(* and the machine may be shut down or lose power.                              *)
(*                                                                              *)
(* What blkid, mkfs, systemd, ufw, iptables and Docker do is taken from what    *)
(* the scripts, the units and docker-compose.yml ask of them.                   *)
EXTENDS Integers, Sequences, FiniteSets

CONSTANTS MaxFilesystems, \* bound: filesystems ever made on a volume
          MaxBoots,       \* bound: boots after the first
          None,           \* nothing that blkid recognises
          Untyped         \* something it recognises that has no TYPE: a partition table

ASSUME HostAssumption == /\ MaxFilesystems \in Nat \ {0} /\ MaxBoots \in Nat
                         /\ None \notin Nat /\ Untyped \notin Nat /\ None # Untyped

VARIABLES volume,   \* what is on the EBS volume: the UUID of its filesystem, None or Untyped
          made,     \* filesystems ever made; a UUID is its number
          attached, \* the volume is attached
          fstab,    \* the UUIDs on the lines of /etc/fstab for /mnt/data, in order
          mounted,  \* the volume is mounted on /mnt/data
          stack,    \* the containers: absent, or where their database lives
          ufw,      \* the host's filter
          chains,   \* DOCKER-USER of iptables and of ip6tables
          docker,   \* Docker's own chains are in the filter table
          script,   \* the script that runs, or the last that ran
          boots

disk == <<volume, made, attached, fstab, mounted>>
filter == <<ufw, chains, docker>>
vars == <<disk, stack, filter, script, boots>>

Uuid == 1..MaxFilesystems
Families == {"iptables", "ip6tables"}
Ended == [name |-> "none", pc |-> "ended", uuid |-> None, chain |-> "iptables"]

Init == /\ volume \in {None, Untyped, 1}
        /\ made = IF volume = 1 THEN 1 ELSE 0
        /\ attached \in BOOLEAN
        /\ fstab \in IF volume = 1 THEN {<< >>, <<1>>} ELSE {<< >>}
        /\ mounted = FALSE /\ stack = "absent"
        /\ ufw = [rules |-> {}, enabled |-> FALSE]
        /\ chains = [f \in Families |-> << >>] /\ docker = TRUE
        /\ script = Ended /\ boots = 0

Begin(name, first) ==
  /\ script.pc \in {"ended", "done"}
  /\ script' = [Ended EXCEPT !.name = name, !.pc = first]
At(name, pc) == script.name = name /\ script.pc = pc
Goto(pc) == script' = [script EXCEPT !.pc = pc]
End == script' = [script EXCEPT !.pc = "ended"]

\* The database starts on /mnt/data as it finds it, and makes a cluster in it
\* if it is empty: on the root disk if nothing is mounted there.
StartedOn(mount) == stack' = IF mount THEN "volume" ELSE "root"

-----------------------------------------------------------------------------
(* mount_data_volume.py *)

\* find_data_volume_device: exactly one device with the serial, or nothing.
StartMount ==
  /\ Begin("mount", IF attached THEN "probe" ELSE "ended")
  /\ UNCHANGED <<disk, stack, filter, boots>>

\* Any exit code of blkid but 0 read as an empty device.
ProbeAnyExit ==
  /\ At("mount", "probe")
  /\ \E exit \in {0, 2, 4} :
       /\ (exit = 0) => volume \in Uuid
       /\ (exit = 2) => volume = None
       /\ Goto(IF exit = 0 THEN "uuid" ELSE "mkfs")
  /\ UNCHANGED <<disk, stack, filter, boots>>

\* probe_filesystem_type: exit 0 names a type; exit 0 that names none, as for a
\* device with a partition table, is read like 2, nothing recognised; others raise.
Probe ==
  /\ At("mount", "probe")
  /\ \/ volume \in Uuid /\ Goto("uuid")
     \/ volume \in {None, Untyped} /\ Goto("mkfs")
     \/ End
  /\ UNCHANGED <<disk, stack, filter, boots>>

\* run_mkfs; the UUID is read after it.
Mkfs ==
  /\ At("mount", "mkfs") /\ made < MaxFilesystems
  /\ made' = made + 1 /\ volume' = made'
  /\ Goto("uuid")
  /\ UNCHANGED <<attached, fstab, mounted, stack, filter, boots>>

\* read_filesystem_uuid, then check_mount_point, which only warns.
ReadUuid ==
  /\ At("mount", "uuid")
  /\ script' = [script EXCEPT !.pc = "fstab", !.uuid = volume]
  /\ UNCHANGED <<disk, stack, filter, boots>>

\* upsert_fstab_entry: every line of the mount point becomes the new line.
Upserted(uuid) ==
  IF fstab = << >> THEN <<uuid>> ELSE [i \in DOMAIN fstab |-> uuid]

\* The file is replaced at once, by os.replace.
UpsertFstab ==
  /\ At("mount", "fstab")
  /\ fstab' = Upserted(script.uuid)
  /\ Goto("verify")
  /\ UNCHANGED <<volume, made, attached, mounted, stack, filter, boots>>

\* findmnt --verify: every line names a filesystem that is there.
VerifyFstab ==
  /\ At("mount", "verify")
  /\ IF \A i \in DOMAIN fstab : attached /\ fstab[i] = volume THEN Goto("mount") ELSE End
  /\ UNCHANGED <<disk, stack, filter, boots>>

\* mount refuses a mount point that is already in use.
Mount ==
  /\ At("mount", "mount")
  /\ IF mounted \/ fstab[1] # volume
     THEN End /\ UNCHANGED mounted
     ELSE Goto("done") /\ mounted' = TRUE
  /\ UNCHANGED <<volume, made, attached, fstab, stack, filter, boots>>

\* An operator puts another volume in the place of this one: a blank one, or
\* one restored from a snapshot, or one that was used elsewhere.  The containers are down and nothing is mounted.
ReplaceVolume ==
  /\ script.pc \in {"ended", "done"} /\ ~mounted /\ stack = "absent"
  /\ made < MaxFilesystems
  /\ \/ volume' \in {None, Untyped} /\ UNCHANGED made
     \/ made' = made + 1 /\ volume' = made'
  /\ UNCHANGED <<attached, fstab, mounted, stack, filter, script, boots>>

-----------------------------------------------------------------------------
(* configure_firewall.py *)

UfwRules == <<"deny incoming", "allow outgoing", "admin to 22", "80", "443">>
\* docker_user_append_rules, in the order they are appended.
DockerUserRules == <<"established", "outbound", "web", "drop">>

\* read_external_interface comes before the first command; --docker-user-only
\* leaves ufw alone.
StartFirewall ==
  /\ \/ \E pc \in {"ufw", "ended"} : Begin("firewall", pc)
     \/ Begin("docker-user", "flush")
  /\ UNCHANGED <<disk, stack, filter, boots>>

\* ufw enabled before its rules are added.
EnableFirst ==
  /\ At("firewall", "ufw")
  /\ ufw' = IF ufw.enabled THEN [ufw EXCEPT !.rules = {UfwRules[i] : i \in DOMAIN UfwRules}]
                           ELSE [ufw EXCEPT !.enabled = TRUE]
  /\ Goto(IF ufw.enabled THEN "restart" ELSE "ufw")
  /\ chains' = [f \in Families |-> << >>] /\ docker' = FALSE
  /\ UNCHANGED <<disk, stack, boots>>

\* apply_ufw adds the rules one by one, and enables the filter when all are
\* there; that restores the filter table without Docker's chains.
ApplyUfw ==
  /\ At("firewall", "ufw")
  /\ LET missing == {i \in DOMAIN UfwRules : UfwRules[i] \notin ufw.rules}
     IN IF missing # {}
        THEN /\ \E i \in missing : /\ \A j \in missing : i <= j
                                   /\ ufw' = [ufw EXCEPT !.rules = @ \cup {UfwRules[i]}]
             /\ UNCHANGED <<script, chains, docker>>
        ELSE /\ ufw' = [ufw EXCEPT !.enabled = TRUE]
             /\ chains' = [f \in Families |-> << >>] /\ docker' = FALSE
             /\ Goto("restart")
  /\ UNCHANGED <<disk, stack, boots>>

\* Docker rebuilds its chains when it is restarted, and starts its containers
\* again, on what /mnt/data is by then.
RestartDocker ==
  /\ At("firewall", "restart")
  /\ docker' = TRUE /\ Goto("flush")
  /\ IF stack = "absent" THEN UNCHANGED stack ELSE StartedOn(mounted)
  /\ UNCHANGED <<disk, ufw, chains, boots>>

\* The iptables chain is Docker's to create, the ip6tables one the script's.
Flush ==
  /\ (script.chain = "iptables" => docker)
  /\ script.name \in {"firewall", "docker-user"} /\ script.pc = "flush"
  /\ chains' = [chains EXCEPT ![script.chain] = << >>]
  /\ Goto("append")
  /\ UNCHANGED <<disk, stack, ufw, docker, boots>>

\* One rule is appended; after the last, ip6tables follows iptables.
AppendRule ==
  /\ script.name \in {"firewall", "docker-user"} /\ script.pc = "append"
  /\ LET c == script.chain
         next == DockerUserRules[(Len(chains[c]) % Len(DockerUserRules)) + 1]
         last == next = DockerUserRules[Len(DockerUserRules)]
     IN /\ chains' = [chains EXCEPT ![c] = Append(@, next)]
        /\ script' = CASE ~last -> script
                       [] last /\ c = "iptables" ->
                            [script EXCEPT !.pc = "flush", !.chain = "ip6tables"]
                       [] OTHER -> [script EXCEPT !.pc = "done"]
  /\ UNCHANGED <<disk, stack, ufw, docker, boots>>

-----------------------------------------------------------------------------
(* deploy.sh and the unit dws-stack.service *)

\* The guards, git pull --ff-only and the build: under set -e the first that
\* fails ends the script, the stack as it was.
StartDeploy ==
  /\ \E pc \in {"up", "ended"} : Begin("deploy", pc)
  /\ UNCHANGED <<disk, stack, filter, boots>>

\* docker compose up -d leaves a database that runs where it is.
DeployUp ==
  /\ At("deploy", "up")
  /\ IF stack = "absent" THEN StartedOn(mounted) ELSE UNCHANGED stack
  /\ Goto("done")
  /\ UNCHANGED <<disk, filter, boots>>

\* A script is interrupted, or a command of it fails.
Interrupt ==
  /\ script.pc \notin {"ended", "done"}
  /\ End
  /\ UNCHANGED <<disk, stack, filter, boots>>

\* dws-stack.service, once enabled: RequiresMountsFor waits for the mount unit
\* that a line of /etc/fstab makes; without a line there is none to wait for.
UnitStarts(enabled, found) == enabled /\ (fstab = << >> \/ found)

\* A boot: nofail mounts what is there, Docker restarts the containers it still
\* has (restart: unless-stopped; ExecStop removed them if the shutdown was
\* orderly), the unit, if it is enabled, starts the stack, and the boot unit of
\* the firewall fills the chains, which do not survive a reboot.
Boot ==
  /\ boots < MaxBoots
  /\ boots' = boots + 1
  /\ \E there, orderly, enabled \in BOOLEAN :
       LET found == there /\ \E i \in DOMAIN fstab : fstab[i] = volume
           restarted == ~orderly /\ stack # "absent"
       IN /\ attached' = there /\ mounted' = found
          /\ IF restarted \/ UnitStarts(enabled, found) THEN StartedOn(found) ELSE stack' = "absent"
  /\ chains' = [f \in Families |-> << >>] /\ docker' = TRUE
  /\ script' = [Ended EXCEPT !.name = "docker-user", !.pc = "flush"]
  /\ UNCHANGED <<volume, made, fstab, ufw>>

Next == \/ StartMount \/ Probe \/ Mkfs \/ ReadUuid \/ UpsertFstab \/ VerifyFstab \/ Mount
        \/ ReplaceVolume
        \/ StartFirewall \/ ApplyUfw \/ RestartDocker \/ Flush \/ AppendRule
        \/ StartDeploy \/ DeployUp
        \/ Interrupt \/ Boot

Spec == Init /\ [][Next]_vars

-----------------------------------------------------------------------------
TypeOK ==
  /\ volume \in Uuid \cup {None, Untyped}
  /\ made \in 0..MaxFilesystems /\ attached \in BOOLEAN
  /\ \A i \in DOMAIN fstab : fstab[i] \in Uuid
  /\ mounted => (attached /\ volume \in Uuid)
  /\ stack \in {"absent", "volume", "root"}
  /\ ufw.enabled \in BOOLEAN /\ \A r \in ufw.rules : \E i \in DOMAIN UfwRules : r = UfwRules[i]
  /\ \A f \in Families : \A i \in DOMAIN chains[f] :
       \E j \in DOMAIN DockerUserRules : chains[f][i] = DockerUserRules[j]
  /\ docker \in BOOLEAN /\ boots \in 0..MaxBoots

\* A filesystem made on the volume, the database's among them, is never
\* formatted over, whatever blkid answered and wherever an earlier run of the
\* script was cut off: only an operator who puts another volume in its place
\* ends what it held.
FilesystemIsKept ==
  [][(volume \in Uuid /\ volume' # volume) => script' = script]_vars

\* A run leaves one line for the mount point, naming the filesystem that is on
\* the volume now: after a reformat or another volume no earlier UUID is left for
\* findmnt to refuse or the next boot to miss, and a run that ends well has
\* mounted that filesystem.
MountedAsNamed ==
  script.name = "mount" =>
    /\ (script.pc \in {"verify", "mount", "done"} => fstab = <<volume>>)
    /\ (script.pc = "done" => mounted)

\* The filter of the host is never on without the rule that lets the operator
\* in and the default that lets the instance out, wherever a run was cut off.
OperatorGetsIn ==
  ufw.enabled => {"admin to 22", "allow outgoing"} \subseteq ufw.rules

\* The reply to a container's own request is returned by the first rule it
\* meets in every state of either chain, half-filled ones included: no moment
\* of a re-run cuts what is open.
RepliesPass ==
  \A f \in Families : \A i \in DOMAIN chains[f] :
    chains[f][i] = "drop" => \E j \in 1..(i - 1) : chains[f][j] = "established"

\* A run that ends well leaves both families with the four rules once each, and
\* Docker's chains in place behind them.
DoneMeansFiltered ==
  /\ (script.name \in {"firewall", "docker-user"} /\ script.pc = "done") =>
       docker /\ \A f \in Families : chains[f] = DockerUserRules
  /\ At("firewall", "done") => ufw.enabled

\* Together: what a run leaves, whole or cut off anywhere.
RunsLeaveItWhole ==
  TypeOK /\ MountedAsNamed /\ OperatorGetsIn /\ RepliesPass /\ DoneMeansFiltered
=============================================================================
