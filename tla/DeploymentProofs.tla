-------------------------- MODULE DeploymentProofs --------------------------
(* The properties of what a deployment goes through: of module Host, for any    *)
(* number of filesystems and boots, that a filesystem is never formatted over,  *)
(* and that a run of a script, whole or cut off anywhere, leaves mount point    *)
(* and filters as they should be; and of module Migrate, for any number of      *)
(* runs, any set of versions, changes, kills and lost replies, that what the    *)
(* table says of the schema is true, the schema is the ordered application of   *)
(* the files, and no run applies a file on top of a disagreement it has read.   *)
EXTENDS Host, Migrate, SequenceTheorems, WellFoundedInduction, TLAPS

Firewall == {"firewall", "docker-user"}
Pcs == {"ended", "done", "probe", "mkfs", "uuid", "fstab", "verify", "mount",
        "ufw", "restart", "flush", "append", "up"}

ScriptOK ==
  script \in [name : {"none", "mount", "deploy"} \cup Firewall, pc : Pcs,
              uuid : Uuid \cup {None, Untyped}, chain : Families]

(* Formatting is decided on a volume without a filesystem, which gets none until *)
(* it is done.                                                                  *)
VolumeInv ==
  /\ volume \in Uuid \cup {None, Untyped} /\ made \in 0..MaxFilesystems
  /\ attached \in BOOLEAN /\ mounted \in BOOLEAN
  /\ mounted => attached /\ volume \in Uuid
  /\ At("mount", "mkfs") => volume \notin Uuid

(* What the script holds names the filesystem of the volume.                    *)
FstabInv ==
  /\ fstab \in {<< >>} \cup {<<u>> : u \in Uuid}
  /\ At("mount", "uuid") => volume \in Uuid
  /\ At("mount", "fstab") => script.uuid = volume /\ volume \in Uuid
  /\ At("mount", "mount") => attached
  /\ MountedAsNamed

RuleNames == {"established", "outbound", "web", "drop"}
Zero == << >>
One == <<"established">>
Two == <<"established", "outbound">>
Three == <<"established", "outbound", "web">>

(* A chain that is being filled holds the first of the rules, in their order.   *)
Prefixes == {Zero, One, Two, Three, DockerUserRules}

Filling(pcs) == script.name \in Firewall /\ script.pc \in pcs

ChainsInv ==
  /\ docker \in BOOLEAN
  /\ chains \in [Families -> Prefixes]
  /\ Filling({"ufw", "restart"}) => script.chain = "iptables"
  /\ Filling({"flush", "append"}) /\ script.chain = "ip6tables" =>
       docker /\ chains["iptables"] = DockerUserRules
  /\ Filling({"append"}) => docker /\ chains[script.chain] # DockerUserRules
  /\ Filling({"done"}) => docker /\ \A f \in Families : chains[f] = DockerUserRules

HostRules == {"deny incoming", "allow outgoing", "admin to 22", "80", "443"}

(* The filter is enabled last.                                                  *)
UfwInv ==
  /\ ufw \in [rules : SUBSET HostRules, enabled : BOOLEAN]
  /\ ufw.enabled => ufw.rules = HostRules
  /\ script.name = "firewall" /\ script.pc \in {"restart", "flush", "append", "done"} => ufw.enabled

StackInv == stack \in {"absent", "volume", "root"} /\ boots \in 0..MaxBoots

HostInv == ScriptOK /\ VolumeInv /\ FstabInv /\ ChainsInv /\ UfwInv /\ StackInv

-----------------------------------------------------------------------------
(* The rules, in their order.                                                   *)

Following(c) == DockerUserRules[(Len(c) % Len(DockerUserRules)) + 1]

LEMMA HostRuleList == DOMAIN UfwRules = 1..5 /\ {UfwRules[i] : i \in 1..5} = HostRules
<1>1. DOMAIN UfwRules = 1..5
  BY DEF UfwRules
<1>2. /\ UfwRules[1] = "deny incoming" /\ UfwRules[2] = "allow outgoing"
      /\ UfwRules[3] = "admin to 22" /\ UfwRules[4] = "80" /\ UfwRules[5] = "443"
  BY DEF UfwRules
<1>3. 1..5 = {1, 2, 3, 4, 5}
  OBVIOUS
<1> QED
  BY <1>1, <1>2, <1>3 DEF HostRules

LEMMA PrefixLengths ==
  /\ Len(Zero) = 0 /\ Len(One) = 1 /\ Len(Two) = 2 /\ Len(Three) = 3
  /\ Len(DockerUserRules) = 4
BY DEF Zero, One, Two, Three, DockerUserRules

LEMMA PrefixesAreSequences ==
  /\ Zero \in Seq(RuleNames) /\ One \in Seq(RuleNames) /\ Two \in Seq(RuleNames)
  /\ Three \in Seq(RuleNames) /\ DockerUserRules \in Seq(RuleNames)
BY DEF Zero, One, Two, Three, DockerUserRules, RuleNames

LEMMA Appended ==
  ASSUME NEW s \in Seq(RuleNames), NEW t \in Seq(RuleNames), Len(t) = Len(s) + 1,
         \A i \in 1..Len(s) : t[i] = s[i]
  PROVE  Append(s, t[Len(t)]) = t
<1>1. Len(s) \in Nat /\ t[Len(t)] \in RuleNames
  BY LenProperties
<1>2. Append(s, t[Len(t)]) \in Seq(RuleNames) /\ Len(Append(s, t[Len(t)])) = Len(t)
  BY <1>1, AppendProperties
<1>3. \A i \in 1..Len(t) : Append(s, t[Len(t)])[i] = t[i]
  BY <1>1, AppendProperties
<1> QED
  BY <1>2, <1>3, SeqEqual

(* The next rule appended keeps the order, and is the last one only when the    *)
(* chain is full by it.                                                         *)
LEMMA OneMoreRule ==
  ASSUME NEW c \in Prefixes, c # DockerUserRules
  PROVE  /\ Append(c, Following(c)) \in Prefixes
         /\ Following(c) = "drop" <=> Append(c, Following(c)) = DockerUserRules
<1>1. /\ Following(Zero) = "established" /\ Following(One) = "outbound"
      /\ Following(Two) = "web" /\ Following(Three) = "drop"
  BY PrefixLengths DEF Following, DockerUserRules
<1>2. Append(Zero, "established") = One
  BY DEF Zero, One
<1>3. Append(One, "outbound") = Two
  <2>1. Two[2] = "outbound" /\ \A i \in 1..1 : Two[i] = One[i]
    BY DEF Two, One
  <2>2. Len(Two) = Len(One) + 1 /\ Two \in Seq(RuleNames) /\ One \in Seq(RuleNames)
    BY PrefixLengths, PrefixesAreSequences
  <2>3. Append(One, Two[Len(Two)]) = Two
    BY <2>1, <2>2, PrefixLengths, Appended
  <2> QED
    BY <2>1, <2>3, PrefixLengths
<1>4. Append(Two, "web") = Three
  <2>1. Three[3] = "web" /\ \A i \in 1..2 : Three[i] = Two[i]
    BY DEF Two, Three
  <2>2. Len(Three) = Len(Two) + 1 /\ Three \in Seq(RuleNames) /\ Two \in Seq(RuleNames)
    BY PrefixLengths, PrefixesAreSequences
  <2>3. Append(Two, Three[Len(Three)]) = Three
    BY <2>1, <2>2, PrefixLengths, Appended
  <2> QED
    BY <2>1, <2>3, PrefixLengths
<1>5. Append(Three, "drop") = DockerUserRules
  <2>1. DockerUserRules[4] = "drop" /\ \A i \in 1..3 : DockerUserRules[i] = Three[i]
    BY DEF DockerUserRules, Three
  <2>2. Len(DockerUserRules) = Len(Three) + 1 /\ DockerUserRules \in Seq(RuleNames) /\ Three \in Seq(RuleNames)
    BY PrefixLengths, PrefixesAreSequences
  <2>3. Append(Three, DockerUserRules[Len(DockerUserRules)]) = DockerUserRules
    BY <2>1, <2>2, PrefixLengths, Appended
  <2> QED
    BY <2>1, <2>3, PrefixLengths
<1>6. One # DockerUserRules
  BY PrefixLengths
<1>7. Two # DockerUserRules
  BY PrefixLengths
<1>8. Three # DockerUserRules
  <2>1. Len(Three) # Len(DockerUserRules)
    BY PrefixLengths
  <2> QED
    BY <2>1
<1> QED
  BY <1>1, <1>2, <1>3, <1>4, <1>5, <1>6, <1>7, <1>8 DEF Prefixes

(* The packet a chain drops has met the rule for replies before.                *)
LEMMA RepliesBeforeDrop ==
  \A c \in Prefixes : \A i \in DOMAIN c :
    /\ c[i] \in RuleNames
    /\ c[i] = "drop" => \E j \in 1..(i - 1) : c[j] = "established"
BY DEF Prefixes, Zero, One, Two, Three, DockerUserRules, RuleNames

(* The invariant says what the runs check.                                      *)
LEMMA HostInvImplies == HostInv => RunsLeaveItWhole
<1> SUFFICES ASSUME HostInv PROVE RunsLeaveItWhole
  OBVIOUS
<1> USE DEF HostInv
<1>1. TypeOK
  <2>1. \A r \in ufw.rules : \E i \in DOMAIN UfwRules : r = UfwRules[i]
    BY HostRuleList DEF UfwInv
  <2>2. \A f \in Families : \A i \in DOMAIN chains[f] :
          \E j \in DOMAIN DockerUserRules : chains[f][i] = DockerUserRules[j]
    <3>1. \A r \in RuleNames : \E j \in DOMAIN DockerUserRules : r = DockerUserRules[j]
      <4>1. /\ DOMAIN DockerUserRules = 1..4
            /\ DockerUserRules[1] = "established" /\ DockerUserRules[2] = "outbound"
            /\ DockerUserRules[3] = "web" /\ DockerUserRules[4] = "drop"
        BY DEF DockerUserRules
      <4> QED
        BY <4>1 DEF RuleNames
    <3> QED
      BY <3>1, RepliesBeforeDrop DEF ChainsInv
  <2>3. \A i \in DOMAIN fstab : fstab[i] \in Uuid
    BY DEF FstabInv
  <2> QED
    BY <2>1, <2>2, <2>3 DEF TypeOK, VolumeInv, ChainsInv, UfwInv, StackInv
<1>2. MountedAsNamed
  BY DEF FstabInv
<1>3. OperatorGetsIn
  BY DEF OperatorGetsIn, UfwInv, HostRules
<1>4. RepliesPass
  BY RepliesBeforeDrop DEF RepliesPass, ChainsInv
<1>5. DoneMeansFiltered
  BY DEF DoneMeansFiltered, ChainsInv, Filling, Firewall, UfwInv, At
<1> QED
  BY <1>1, <1>2, <1>3, <1>4, <1>5 DEF RunsLeaveItWhole

-----------------------------------------------------------------------------
(* Initially.                                                                   *)

LEMMA HostInit == Init => HostInv
<1> SUFFICES ASSUME Init PROVE HostInv
  OBVIOUS
<1> USE HostAssumption DEF Init, Ended
<1>1. ScriptOK
  BY DEF ScriptOK, Firewall, Pcs, Families
<1>2. VolumeInv
  <2>1. volume \in Uuid \cup {None, Untyped}
    BY DEF Uuid
  <2>2. made \in 0..MaxFilesystems
    OBVIOUS
  <2>3. ~At("mount", "mkfs")
    BY DEF At
  <2> QED
    BY <2>1, <2>2, <2>3 DEF VolumeInv
<1>3. FstabInv
  <2>1. fstab = << >> \/ (fstab = <<1>> /\ 1 \in Uuid)
    BY DEF Uuid
  <2> QED
    BY <2>1 DEF FstabInv, At, MountedAsNamed
<1>4. ChainsInv
  BY DEF ChainsInv, Filling, Firewall, Prefixes, Zero
<1>5. UfwInv
  BY DEF UfwInv
<1>6. StackInv
  BY 0 \in 0..MaxBoots DEF StackInv
<1> QED
  BY <1>1, <1>2, <1>3, <1>4, <1>5, <1>6 DEF HostInv

-----------------------------------------------------------------------------
(* The steps, one lemma for each group of variables.                            *)

LEMMA ScriptStep == ScriptOK /\ VolumeInv /\ Next => ScriptOK'
<1> SUFFICES ASSUME ScriptOK, VolumeInv, Next PROVE ScriptOK'
  OBVIOUS
<1> USE DEF ScriptOK, Pcs, Firewall, Families
<1>1. ASSUME NEW name \in {"mount", "deploy"} \cup Firewall, NEW first \in Pcs, Begin(name, first)
      PROVE  ScriptOK'
  BY <1>1 DEF Begin, Ended
<1>2. ASSUME NEW pc \in Pcs, Goto(pc) PROVE ScriptOK'
  BY <1>2 DEF Goto
<1>3. ASSUME End PROVE ScriptOK'
  BY <1>3 DEF End
<1>4. CASE StartMount
  BY <1>1, <1>4 DEF StartMount
<1>5. CASE Probe
  BY <1>2, <1>3, <1>5 DEF Probe
<1>6. CASE Mkfs
  BY <1>2, <1>6 DEF Mkfs
<1>7. CASE ReadUuid
  BY <1>7 DEF ReadUuid, VolumeInv
<1>8. CASE UpsertFstab
  BY <1>2, <1>8 DEF UpsertFstab
<1>9. CASE VerifyFstab
  BY <1>2, <1>3, <1>9 DEF VerifyFstab
<1>10. CASE Mount
  BY <1>2, <1>3, <1>10 DEF Mount
<1>11. CASE ReplaceVolume
  BY <1>11 DEF ReplaceVolume
<1>12. CASE StartFirewall
  BY <1>1, <1>12 DEF StartFirewall
<1>13. CASE ApplyUfw
  BY <1>2, <1>13 DEF ApplyUfw
<1>14. CASE RestartDocker
  BY <1>2, <1>14 DEF RestartDocker
<1>15. CASE Flush
  BY <1>2, <1>15 DEF Flush
<1>16. CASE AppendRule
  BY <1>16 DEF AppendRule
<1>17. CASE StartDeploy
  BY <1>1, <1>17 DEF StartDeploy
<1>18. CASE DeployUp
  BY <1>2, <1>18 DEF DeployUp
<1>19. CASE Interrupt
  BY <1>3, <1>19 DEF Interrupt
<1>20. CASE Boot
  BY <1>20 DEF Boot, Ended
<1> QED
  BY <1>4, <1>5, <1>6, <1>7, <1>8, <1>9, <1>10, <1>11, <1>12, <1>13, <1>14, <1>15, <1>16,
     <1>17, <1>18, <1>19, <1>20 DEF Next

(* A boot mounts what the line names.                                           *)
LEMMA Booted ==
  ASSUME HostInv, Boot
  PROVE  /\ attached' \in BOOLEAN /\ mounted' \in BOOLEAN
         /\ mounted' => attached' /\ volume \in Uuid
         /\ UNCHANGED <<volume, made, fstab>> /\ stack' \in {"absent", "volume", "root"}
<1> DEFINE Found(there) == there /\ \E i \in DOMAIN fstab : fstab[i] = volume
<1>1. PICK there \in BOOLEAN :
        /\ attached' = there /\ mounted' = Found(there)
        /\ stack' = "absent" \/ StartedOn(Found(there))
  BY DEF Boot
<1>2. Found(there) \in BOOLEAN /\ (Found(there) => there /\ volume \in Uuid)
  BY DEF HostInv, FstabInv
<1> HIDE DEF Found
<1>3. stack' \in {"absent", "volume", "root"}
  BY <1>1 DEF StartedOn
<1> QED
  BY <1>1, <1>2, <1>3 DEF Boot

(* Every step that leaves the disk alone and does not decide to format.         *)
LEMMA VolumeKept ==
  ASSUME VolumeInv, UNCHANGED <<volume, made, attached, mounted>>,
         script'.pc = "mkfs" => UNCHANGED script
  PROVE  VolumeInv'
BY DEF VolumeInv, At

LEMMA VolumeStep == HostInv /\ Next => VolumeInv'
<1> SUFFICES ASSUME HostInv, Next PROVE VolumeInv'
  OBVIOUS
<1> USE DEF HostInv
<1>1. CASE StartMount \/ ReadUuid \/ Interrupt
  <2>1. script'.pc # "mkfs"
    BY <1>1 DEF StartMount, ReadUuid, Interrupt, Begin, End, Ended, ScriptOK
  <2> QED
    BY <1>1, <2>1, VolumeKept DEF StartMount, ReadUuid, Interrupt, disk
<1>2. CASE Probe
  <2>1. script'.pc = "mkfs" => volume \notin Uuid
    BY <1>2, HostAssumption DEF Probe, Goto, End, ScriptOK, Uuid
  <2> QED
    BY <1>2, <2>1 DEF Probe, disk, VolumeInv, At
<1>3. CASE Mkfs
  <2>1. script'.pc # "mkfs"
    BY <1>3 DEF Mkfs, Goto, ScriptOK
  <2>2. made + 1 \in Uuid
    BY <1>3, HostAssumption DEF Mkfs, VolumeInv, Uuid
  <2> QED
    BY <1>3, <2>1, <2>2, HostAssumption DEF Mkfs, VolumeInv, Uuid, At
<1>4. CASE UpsertFstab \/ VerifyFstab
  <2>1. script'.pc # "mkfs"
    BY <1>4 DEF UpsertFstab, VerifyFstab, Goto, End, ScriptOK
  <2> QED
    BY <1>4, <2>1, VolumeKept DEF UpsertFstab, VerifyFstab, disk
<1>5. CASE Mount
  <2>1. script'.pc # "mkfs"
    BY <1>5 DEF Mount, Goto, End, ScriptOK
  <2>2. attached /\ fstab = <<volume>>
    BY <1>5 DEF Mount, FstabInv, MountedAsNamed, At
  <2>3. volume \in Uuid
    <3>1. PICK u \in Uuid : fstab = <<u>>
      BY <2>2 DEF FstabInv
    <3> QED
      BY <2>2, <3>1
  <2>4. mounted' \in BOOLEAN
    BY <1>5 DEF Mount, VolumeInv
  <2> QED
    BY <1>5, <2>1, <2>2, <2>3, <2>4 DEF Mount, VolumeInv, At
<1>6. CASE ReplaceVolume
  <2>1. made < MaxFilesystems => made + 1 \in Uuid
    BY HostAssumption DEF VolumeInv, Uuid
  <2>2. volume' \in Uuid \cup {None, Untyped} /\ made' \in 0..MaxFilesystems
    BY <1>6, <2>1, HostAssumption DEF ReplaceVolume, VolumeInv
  <2>3. script'.pc # "mkfs" /\ ~mounted /\ UNCHANGED <<attached, mounted>>
    BY <1>6 DEF ReplaceVolume
  <2> QED
    BY <2>2, <2>3 DEF VolumeInv, At
<1>7. CASE StartFirewall \/ StartDeploy
  <2>1. script'.pc # "mkfs"
    BY <1>7 DEF StartFirewall, StartDeploy, Begin, Ended
  <2> QED
    BY <1>7, <2>1, VolumeKept DEF StartFirewall, StartDeploy, disk
<1>8. CASE ApplyUfw \/ Flush \/ AppendRule
  <2>1. script'.pc = "mkfs" => UNCHANGED script
    BY <1>8 DEF ApplyUfw, Flush, AppendRule, Goto, ScriptOK
  <2> QED
    BY <1>8, <2>1, VolumeKept DEF ApplyUfw, Flush, AppendRule, disk
<1>9. CASE RestartDocker \/ DeployUp
  <2>1. script'.pc # "mkfs"
    BY <1>9 DEF RestartDocker, DeployUp, Goto, ScriptOK
  <2> QED
    BY <1>9, <2>1, VolumeKept DEF RestartDocker, DeployUp, disk
<1>10. CASE Boot
  <2>1. script'.pc # "mkfs" /\ made' = made
    BY <1>10 DEF Boot, Ended
  <2> QED
    BY <1>10, <2>1, Booted DEF VolumeInv, At
<1> QED
  BY <1>1, <1>2, <1>3, <1>4, <1>5, <1>6, <1>7, <1>8, <1>9, <1>10 DEF Next

(* Only an operator who replaces the volume changes what is on it under a        *)
(* filesystem.                                                                  *)
LEMMA FormattingIsSafe ==
  HostInv /\ Next => ((volume \in Uuid /\ volume' # volume) => script' = script)
<1> SUFFICES ASSUME HostInv, Next, volume \in Uuid, volume' # volume PROVE script' = script
  OBVIOUS
<1>1. CASE Mkfs
  BY <1>1 DEF HostInv, Mkfs, VolumeInv
<1>2. CASE ReplaceVolume
  BY <1>2 DEF ReplaceVolume
<1>3. CASE StartMount \/ Probe \/ ReadUuid \/ UpsertFstab \/ VerifyFstab \/ Mount
  BY <1>3 DEF StartMount, Probe, ReadUuid, UpsertFstab, VerifyFstab, Mount, disk
<1>4. CASE StartFirewall \/ ApplyUfw \/ RestartDocker \/ Flush \/ AppendRule
  BY <1>4 DEF StartFirewall, ApplyUfw, RestartDocker, Flush, AppendRule, disk
<1>5. CASE StartDeploy \/ DeployUp \/ Interrupt \/ Boot
  BY <1>5 DEF StartDeploy, DeployUp, Interrupt, Boot, disk
<1> QED
  BY <1>1, <1>2, <1>3, <1>4, <1>5 DEF Next

-----------------------------------------------------------------------------
(* The line of the mount point.                                                 *)

(* A step that keeps volume, attachment, line and mount, and ends the script,   *)
(* starts another one or goes on elsewhere, keeps what the line names.          *)
LEMMA FstabKept ==
  ASSUME FstabInv, UNCHANGED <<volume, fstab>>,
         script'.name = "mount" => script'.pc \in {"ended", "probe", "mkfs"}
  PROVE  FstabInv'
BY DEF FstabInv, At, MountedAsNamed

LEMMA FstabStep == HostInv /\ Next => FstabInv'
<1> SUFFICES ASSUME HostInv, Next PROVE FstabInv'
  OBVIOUS
<1> USE DEF HostInv
<1>1. CASE StartMount
  BY <1>1, FstabKept DEF StartMount, Begin, Ended, disk
<1>2. CASE Probe
  <2>1. CASE End \/ Goto("mkfs")
    BY <1>2, <2>1, FstabKept DEF Probe, End, Goto, ScriptOK, disk
  <2>2. CASE volume \in Uuid /\ Goto("uuid")
    BY <1>2, <2>2 DEF Probe, Goto, ScriptOK, disk, FstabInv, At, MountedAsNamed
  <2> QED
    BY <1>2, <2>1, <2>2 DEF Probe
<1>3. CASE Mkfs
  <2>1. volume' \in Uuid /\ fstab' = fstab
    BY <1>3, HostAssumption DEF Mkfs, VolumeInv, Uuid
  <2>2. script'.name = "mount" /\ script'.pc = "uuid"
    BY <1>3 DEF Mkfs, Goto, At, ScriptOK
  <2> QED
    BY <2>1, <2>2 DEF FstabInv, At, MountedAsNamed
<1>4. CASE ReadUuid
  <2>1. script'.name = "mount" /\ script'.pc = "fstab" /\ script'.uuid = volume
    BY <1>4 DEF ReadUuid, At, ScriptOK
  <2> QED
    BY <1>4, <2>1 DEF ReadUuid, disk, FstabInv, At, MountedAsNamed
<1>5. CASE UpsertFstab
  <2>1. script'.name = "mount" /\ script'.pc = "verify" /\ volume \in Uuid
    BY <1>5 DEF UpsertFstab, Goto, At, ScriptOK, FstabInv, VolumeInv
  <2>2. fstab' = <<volume>>
    <3>1. fstab' = Upserted(volume)
      BY <1>5 DEF UpsertFstab, FstabInv, At
    <3>2. CASE fstab = << >>
      BY <3>1, <3>2 DEF Upserted
    <3>3. CASE \E u \in Uuid : fstab = <<u>>
      <4>1. DOMAIN fstab = {1} /\ fstab # << >>
        BY <3>3
      <4> QED
        BY <3>1, <4>1 DEF Upserted
    <3> QED
      BY <3>2, <3>3 DEF FstabInv
  <2> QED
    BY <1>5, <2>1, <2>2 DEF UpsertFstab, FstabInv, At, MountedAsNamed
<1>6. CASE VerifyFstab
  <2>1. CASE End
    BY <1>6, <2>1, FstabKept DEF VerifyFstab, End, ScriptOK, disk
  <2>2. CASE Goto("mount") /\ \A i \in DOMAIN fstab : attached /\ fstab[i] = volume
    <3>1. fstab = <<volume>>
      BY <1>6 DEF VerifyFstab, FstabInv, MountedAsNamed, At
    <3>2. attached
      BY <2>2, <3>1
    <3> QED
      BY <1>6, <2>2, <3>1, <3>2 DEF VerifyFstab, Goto, At, ScriptOK, disk, FstabInv, MountedAsNamed
  <2> QED
    BY <1>6, <2>1, <2>2 DEF VerifyFstab
<1>7. CASE Mount
  <2>1. CASE End /\ UNCHANGED mounted
    BY <1>7, <2>1, FstabKept DEF Mount, End, ScriptOK
  <2>2. CASE Goto("done") /\ mounted' = TRUE
    BY <1>7, <2>2 DEF Mount, Goto, At, ScriptOK, FstabInv, MountedAsNamed
  <2> QED
    BY <1>7, <2>1, <2>2 DEF Mount
<1>8. CASE ReplaceVolume
  BY <1>8 DEF ReplaceVolume, FstabInv, At, MountedAsNamed
<1>9. CASE StartFirewall \/ StartDeploy
  <2>1. script'.name # "mount"
    BY <1>9 DEF StartFirewall, StartDeploy, Begin, Ended
  <2> QED
    BY <1>9, <2>1, FstabKept DEF StartFirewall, StartDeploy, disk
<1>10. CASE ApplyUfw \/ Flush \/ AppendRule
  <2>1. script'.name # "mount"
    BY <1>10 DEF ApplyUfw, Flush, AppendRule, Goto, At, ScriptOK
  <2> QED
    BY <1>10, <2>1, FstabKept DEF ApplyUfw, Flush, AppendRule, disk
<1>11. CASE RestartDocker \/ DeployUp
  <2>1. script'.name # "mount"
    BY <1>11 DEF RestartDocker, DeployUp, Goto, At, ScriptOK
  <2>2. volume' = volume
    BY <1>11 DEF RestartDocker, DeployUp, disk
  <2> QED
    BY <1>11, <2>1, <2>2, FstabKept DEF RestartDocker, DeployUp, disk
<1>12. CASE Interrupt
  <2>1. script'.pc = "ended"
    BY <1>12 DEF Interrupt, End, ScriptOK
  <2> QED
    BY <1>12, <2>1, FstabKept DEF Interrupt, disk
<1>13. CASE Boot
  <2>1. script'.name # "mount"
    BY <1>13 DEF Boot, Ended
  <2>2. volume' = volume /\ fstab' = fstab
    BY <1>13, Booted DEF Boot
  <2> QED
    BY <2>1, <2>2, FstabKept
<1> QED
  BY <1>1, <1>2, <1>3, <1>4, <1>5, <1>6, <1>7, <1>8, <1>9, <1>10, <1>11, <1>12, <1>13 DEF Next

-----------------------------------------------------------------------------
(* The chains.                                                                  *)

(* A step that keeps the chains keeps what is said of them unless it brings a   *)
(* script of the firewall to the rules.                                         *)
LEMMA ChainsKept ==
  ASSUME ChainsInv, UNCHANGED <<chains, docker>>,
         \/ script'.name \notin Firewall
         \/ script'.pc \notin {"ufw", "restart", "flush", "append", "done"}
         \/ UNCHANGED script
  PROVE  ChainsInv'
BY DEF ChainsInv, Filling

LEMMA ChainsStep == HostInv /\ Next => ChainsInv'
<1> SUFFICES ASSUME HostInv, Next PROVE ChainsInv'
  OBVIOUS
<1> USE DEF HostInv
<1>1. CASE StartMount \/ StartDeploy
  <2>1. script'.name \notin Firewall
    BY <1>1 DEF StartMount, StartDeploy, Begin, Ended, Firewall
  <2> QED
    BY <1>1, <2>1, ChainsKept DEF StartMount, StartDeploy, filter
<1>2. CASE Probe \/ Mkfs \/ ReadUuid \/ UpsertFstab \/ VerifyFstab \/ Mount
  <2>1. script'.name = "mount"
    BY <1>2 DEF Probe, Mkfs, ReadUuid, UpsertFstab, VerifyFstab, Mount, At, Goto, End, ScriptOK
  <2> QED
    BY <1>2, <2>1, ChainsKept DEF Probe, Mkfs, ReadUuid, UpsertFstab, VerifyFstab, Mount, filter, Firewall
<1>3. CASE ReplaceVolume
  BY <1>3, ChainsKept DEF ReplaceVolume, filter
<1>4. CASE StartFirewall
  <2>1. script'.chain = "iptables" /\ script'.pc \in {"ufw", "ended", "flush"}
    BY <1>4 DEF StartFirewall, Begin, Ended
  <2> QED
    BY <1>4, <2>1 DEF StartFirewall, filter, ChainsInv, Filling
<1>5. CASE ApplyUfw
  <2>1. CASE UNCHANGED <<script, chains, docker>>
    BY <2>1, ChainsKept
  <2>2. CASE chains' = [f \in Families |-> << >>] /\ docker' = FALSE /\ Goto("restart")
    <3>1. script'.pc = "restart" /\ script'.chain = script.chain /\ script.chain = "iptables"
      BY <1>5, <2>2 DEF ApplyUfw, At, Goto, ScriptOK, ChainsInv, Filling, Firewall
    <3>2. chains' \in [Families -> Prefixes]
      BY <2>2 DEF Prefixes, Zero
    <3> QED
      BY <2>2, <3>1, <3>2 DEF ChainsInv, Filling
  <2> QED
    BY <1>5, <2>1, <2>2 DEF ApplyUfw
<1>6. CASE RestartDocker
  <2>1. /\ script'.pc = "flush" /\ script'.chain = script.chain /\ script.chain = "iptables"
        /\ docker' = TRUE /\ chains' = chains
    BY <1>6 DEF RestartDocker, At, Goto, ScriptOK, ChainsInv, Filling, Firewall
  <2> QED
    BY <2>1 DEF ChainsInv, Filling
<1>7. CASE Flush
  <2>1. /\ script' = [script EXCEPT !.pc = "append"] /\ Filling({"flush", "append"})
        /\ chains' = [chains EXCEPT ![script.chain] = << >>] /\ docker' = docker
        /\ (script.chain = "iptables" => docker)
    BY <1>7 DEF Flush, Goto, Filling, Firewall
  <2>2. /\ script'.pc = "append" /\ script'.name = script.name /\ script'.chain = script.chain
        /\ script.chain \in Families
    BY <2>1 DEF ScriptOK
  <2>3. /\ chains' \in [Families -> Prefixes] /\ chains'[script.chain] = Zero
        /\ script.chain = "ip6tables" => chains'["iptables"] = chains["iptables"]
    BY <2>1, <2>2 DEF ChainsInv, Families, Prefixes, Zero
  <2>4. Zero # DockerUserRules
    BY PrefixLengths
  <2>5. docker
    BY <2>1, <2>2 DEF ChainsInv, Families
  <2> QED
    BY <2>1, <2>2, <2>3, <2>4, <2>5 DEF ChainsInv, Filling
<1>8. CASE AppendRule
  <2> DEFINE c == script.chain
             next == Following(chains[c])
  <2>1. Filling({"append"}) /\ Filling({"flush", "append"}) /\ docker' = docker
    BY <1>8 DEF AppendRule, Filling, Firewall
  <2>2. c \in Families /\ chains[c] \in Prefixes /\ chains[c] # DockerUserRules /\ docker
    BY <2>1 DEF ChainsInv, ScriptOK
  <2>3. /\ chains' = [chains EXCEPT ![c] = Append(@, next)]
        /\ script' = CASE next # "drop" -> script
                       [] next = "drop" /\ c = "iptables" ->
                            [script EXCEPT !.pc = "flush", !.chain = "ip6tables"]
                       [] OTHER -> [script EXCEPT !.pc = "done"]
    <3>1. DockerUserRules[Len(DockerUserRules)] = "drop"
      BY PrefixLengths DEF DockerUserRules
    <3> QED
      BY <1>8, <3>1 DEF AppendRule, Following
  <2>4. Append(chains[c], next) \in Prefixes /\ (next = "drop" <=> Append(chains[c], next) = DockerUserRules)
    BY <2>2, OneMoreRule
  <2> HIDE DEF next
  <2>5. /\ chains' \in [Families -> Prefixes] /\ chains'[c] = Append(chains[c], next)
        /\ \A f \in Families \ {c} : chains'[f] = chains[f]
    BY <2>2, <2>3, <2>4 DEF ChainsInv
  <2>6. CASE next # "drop"
    <3>1. script' = script
      BY <2>3, <2>6
    <3> QED
      BY <2>1, <2>2, <2>4, <2>5, <2>6, <3>1 DEF ChainsInv, Filling, Families
  <2>7. CASE next = "drop" /\ c = "iptables"
    <3>1. script' = [script EXCEPT !.pc = "flush", !.chain = "ip6tables"]
      BY <2>3, <2>7
    <3>2. script'.pc = "flush" /\ script'.chain = "ip6tables"
      BY <3>1 DEF ScriptOK
    <3> QED
      BY <2>1, <2>2, <2>4, <2>5, <2>7, <3>2 DEF ChainsInv, Filling
  <2>8. CASE next = "drop" /\ c # "iptables"
    <3>1. script' = [script EXCEPT !.pc = "done"]
      BY <2>3, <2>8
    <3>2. script'.pc = "done" /\ c = "ip6tables"
      BY <2>2, <2>8, <3>1 DEF ScriptOK, Families
    <3>3. chains["iptables"] = DockerUserRules
      BY <2>1, <3>2 DEF ChainsInv
    <3>4. \A f \in Families : chains'[f] = DockerUserRules
      BY <2>4, <2>5, <2>8, <3>2, <3>3 DEF Families
    <3> QED
      BY <2>1, <2>2, <2>5, <3>2, <3>4 DEF ChainsInv, Filling
  <2> QED
    BY <2>6, <2>7, <2>8
<1>9. CASE DeployUp
  <2>1. script'.name = "deploy"
    BY <1>9 DEF DeployUp, At, Goto, ScriptOK
  <2> QED
    BY <1>9, <2>1, ChainsKept DEF DeployUp, filter, Firewall
<1>10. CASE Interrupt
  <2>1. script'.pc = "ended"
    BY <1>10 DEF Interrupt, End, ScriptOK
  <2> QED
    BY <1>10, <2>1, ChainsKept DEF Interrupt, filter
<1>11. CASE Boot
  <2>1. /\ script'.pc = "flush" /\ script'.chain = "iptables" /\ docker' = TRUE
        /\ chains' = [f \in Families |-> << >>]
    BY <1>11 DEF Boot, Ended
  <2>2. chains' \in [Families -> Prefixes]
    BY <2>1 DEF Prefixes, Zero
  <2> QED
    BY <2>1, <2>2 DEF ChainsInv, Filling
<1> QED
  BY <1>1, <1>2, <1>3, <1>4, <1>5, <1>6, <1>7, <1>8, <1>9, <1>10, <1>11 DEF Next

-----------------------------------------------------------------------------
(* The filter of the host, and the containers.                                  *)

LEMMA UfwKept ==
  ASSUME UfwInv, UNCHANGED ufw,
         (script'.name = "firewall" /\ script'.pc \in {"restart", "flush", "append", "done"}) =>
           (script.name = "firewall" /\ script.pc \in {"restart", "flush", "append", "done"})
  PROVE  UfwInv'
BY DEF UfwInv

LEMMA UfwStep == HostInv /\ Next => UfwInv'
<1> SUFFICES ASSUME HostInv, Next PROVE UfwInv'
  OBVIOUS
<1> USE DEF HostInv
<1>1. CASE StartMount \/ StartDeploy \/ StartFirewall
  <2>1. script'.name = "firewall" => script'.pc \in {"ufw", "ended"}
    BY <1>1 DEF StartMount, StartDeploy, StartFirewall, Begin, Ended
  <2> QED
    BY <1>1, <2>1, UfwKept DEF StartMount, StartDeploy, StartFirewall, filter
<1>2. CASE Probe \/ Mkfs \/ ReadUuid \/ UpsertFstab \/ VerifyFstab \/ Mount
  <2>1. script'.name = "mount"
    BY <1>2 DEF Probe, Mkfs, ReadUuid, UpsertFstab, VerifyFstab, Mount, At, Goto, End, ScriptOK
  <2> QED
    BY <1>2, <2>1, UfwKept DEF Probe, Mkfs, ReadUuid, UpsertFstab, VerifyFstab, Mount, filter
<1>3. CASE ReplaceVolume
  BY <1>3, UfwKept DEF ReplaceVolume, filter
<1>4. CASE ApplyUfw
  <2> DEFINE missing == {i \in DOMAIN UfwRules : UfwRules[i] \notin ufw.rules}
  <2>1. CASE missing # {}
    <3>1. PICK i \in missing : ufw' = [ufw EXCEPT !.rules = @ \cup {UfwRules[i]}]
      BY <1>4, <2>1 DEF ApplyUfw
    <3>2. UfwRules[i] \in HostRules /\ UfwRules[i] \notin ufw.rules
      BY HostRuleList
    <3>3. ~ufw.enabled
      BY <3>2 DEF UfwInv
    <3>4. script' = script /\ script.pc = "ufw"
      BY <1>4, <2>1 DEF ApplyUfw, At
    <3> QED
      BY <3>1, <3>2, <3>3, <3>4 DEF UfwInv
  <2>2. CASE missing = {}
    <3>1. ufw' = [ufw EXCEPT !.enabled = TRUE]
      BY <1>4, <2>2 DEF ApplyUfw
    <3>2. ufw.rules = HostRules
      BY <2>2, HostRuleList DEF UfwInv
    <3> QED
      BY <3>1, <3>2 DEF UfwInv
  <2> QED
    BY <2>1, <2>2
<1>5. CASE RestartDocker
  BY <1>5, UfwKept DEF RestartDocker, At
<1>6. CASE Flush \/ AppendRule
  <2>1. script'.name = script.name /\ script.pc \in {"flush", "append"} /\ UNCHANGED ufw
    BY <1>6 DEF Flush, AppendRule, Goto, ScriptOK
  <2> QED
    BY <2>1, UfwKept
<1>7. CASE DeployUp
  <2>1. script'.name = "deploy"
    BY <1>7 DEF DeployUp, At, Goto, ScriptOK
  <2> QED
    BY <1>7, <2>1, UfwKept DEF DeployUp, filter
<1>8. CASE Interrupt
  <2>1. script'.pc = "ended"
    BY <1>8 DEF Interrupt, End, ScriptOK
  <2> QED
    BY <1>8, <2>1, UfwKept DEF Interrupt, filter
<1>9. CASE Boot
  <2>1. script'.name = "docker-user"
    BY <1>9 DEF Boot, Ended
  <2> QED
    BY <1>9, <2>1, UfwKept DEF Boot
<1> QED
  BY <1>1, <1>2, <1>3, <1>4, <1>5, <1>6, <1>7, <1>8, <1>9 DEF Next

LEMMA StackStep == HostInv /\ Next => StackInv'
<1> SUFFICES ASSUME HostInv, Next PROVE StackInv'
  OBVIOUS
<1> USE DEF HostInv
<1>1. ASSUME UNCHANGED <<stack, boots>> PROVE StackInv'
  BY <1>1 DEF StackInv
<1>2. CASE StartMount \/ Probe \/ Mkfs \/ ReadUuid \/ UpsertFstab \/ VerifyFstab \/ Mount \/ ReplaceVolume
  BY <1>1, <1>2 DEF StartMount, Probe, Mkfs, ReadUuid, UpsertFstab, VerifyFstab, Mount, ReplaceVolume
<1>3. CASE StartFirewall \/ ApplyUfw \/ Flush \/ AppendRule \/ StartDeploy \/ Interrupt
  BY <1>1, <1>3 DEF StartFirewall, ApplyUfw, Flush, AppendRule, StartDeploy, Interrupt
<1>4. CASE RestartDocker \/ DeployUp
  BY <1>4 DEF RestartDocker, DeployUp, StartedOn, StackInv
<1>5. CASE Boot
  <2>1. boots' \in 0..MaxBoots
    BY <1>5, HostAssumption DEF Boot, StackInv
  <2> QED
    BY <1>5, <2>1, Booted DEF StackInv
<1> QED
  BY <1>2, <1>3, <1>4, <1>5 DEF Next

-----------------------------------------------------------------------------
LEMMA HostInvStep == HostInv /\ [Next]_vars => HostInv'
<1>1. HostInv /\ Next => HostInv'
  BY ScriptStep, VolumeStep, FstabStep, ChainsStep, UfwStep, StackStep DEF HostInv
<1>2. HostInv /\ UNCHANGED vars => HostInv'
  BY DEF HostInv, ScriptOK, VolumeInv, FstabInv, ChainsInv, UfwInv, StackInv, vars, disk, filter,
         At, MountedAsNamed, Filling
<1> QED
  BY <1>1, <1>2

LEMMA HostInvariant == Spec => []HostInv
BY HostInit, HostInvStep, PTL DEF Spec

(* mount_data_volume.py never formats a filesystem: what blkid answered is acted *)
(* on before anything else can make one, and a script that was cut off asks     *)
(* again.  A device on which blkid recognises something without a type is       *)
(* formatted: that is no filesystem here.                                       *)
THEOREM NoRunFormatsAFilesystem == Spec => FilesystemIsKept
<1>1. HostInv /\ [Next]_vars => [(volume \in Uuid /\ volume' # volume) => script' = script]_vars
  BY FormattingIsSafe
<1> QED
  BY <1>1, HostInvariant, PTL DEF Spec, FilesystemIsKept

(* Whatever a run of a script was cut off at, and however often the machine was *)
(* rebooted: one line names the filesystem that is mounted, the filter of the   *)
(* host lets the operator in, no chain drops a reply, and a run that ends well  *)
(* has left both chains whole.                                                  *)
THEOREM RunsOfScriptsAreWhole == Spec => []RunsLeaveItWhole
BY HostInvariant, HostInvImplies, PTL

-----------------------------------------------------------------------------
(* The migrations                                                               *)

Listings == UNION {[d -> Contents] : d \in SUBSET Versions}
Working == {"applying", "recording"}
Active == Working \cup {"discovered"}
Holdings == [pc : Over \cup Active \cup {"idle"}, plan : Listings, seen : Listings,
             todo : SUBSET Versions]

Types ==
  /\ files \in Listings /\ table \in Listings
  /\ schema \in Seq(Files) /\ halfBuilt \subseteq Versions
  /\ runner \in [Runners -> Holdings]
  /\ changes \in 0..MaxChanges /\ kills \in 0..MaxKills
  /\ overlapped \in BOOLEAN /\ unrecorded \subseteq Versions

(* The versions whose file the database has met.                           *)
Met == {schema[i].version : i \in DOMAIN schema} \cup halfBuilt

(* The file a run has come to.                                             *)
Ahead(h) == LET v == First(h.todo) IN Applied(v, h.plan[v])

(* The rows a run read agree with its files and lie below all it has left. *)
Agrees(h) == /\ UnchangedFiles(h.plan, h.seen)
             /\ \A w \in DOMAIN h.seen, v \in h.todo : w < v

(* What a run has dealt with is in the table as the run read it.           *)
Recorded(h, rows) == \A v \in DOMAIN h.plan \ h.todo : v \in DOMAIN rows /\ rows[v] = h.plan[v]

RunInv(h, rows, met) ==
  /\ h.todo \subseteq DOMAIN h.plan
  /\ h.pc \in Working => h.todo # {} /\ Agrees(h)
  /\ h.pc = "recording" => Ahead(h) \in NoTransaction /\ First(h.todo) \in met
  /\ h.pc \in Working \cup {"done"} => Recorded(h, rows)
  /\ h.pc \in {"idle", "done"} => h.todo = {}

(* Nobody else is at work, all that is recorded lies below what is left,   *)
(* what is in the schema without a row is being recorded or was left       *)
(* unrecorded, and all but the unrecorded ascends.                         *)
Alone == \A q, r \in Runners : q # r => runner[q].pc \notin Active \/ runner[r].pc \notin Active
Above == \A r \in Runners : runner[r].pc \in Working =>
           \A w \in DOMAIN table, v \in runner[r].todo : w < v
Accounted == \A i \in DOMAIN schema :
               \/ schema[i].version \in DOMAIN table
               \/ schema[i].version \in unrecorded
               \/ \E r \in Runners : /\ runner[r].pc = "recording"
                                     /\ schema[i].version = First(runner[r].todo)
Ascends == \A i, j \in DOMAIN schema :
             (i < j /\ schema[i].version \notin unrecorded /\ schema[j].version \notin unrecorded)
               => schema[i].version < schema[j].version

Orderly == ~overlapped => Alone /\ Above /\ Accounted /\ Ascends

MigrateInv == /\ Types
              /\ \A r \in Runners : RunInv(runner[r], table, Met)
              /\ TransactionalOnce /\ RecordedWasMet
              /\ Orderly

-----------------------------------------------------------------------------
(* Listings, the least of a set, and sequences.                            *)

LEMMA ListingsAre ==
  ASSUME NEW f
  PROVE  f \in Listings <=> /\ f = [v \in DOMAIN f |-> f[v]]
                            /\ DOMAIN f \subseteq Versions
                            /\ \A v \in DOMAIN f : f[v] \in Contents
<1>1. ASSUME f \in Listings
      PROVE  /\ f = [v \in DOMAIN f |-> f[v]] /\ DOMAIN f \subseteq Versions
             /\ \A v \in DOMAIN f : f[v] \in Contents
  <2>1. PICK d \in SUBSET Versions : f \in [d -> Contents]
    BY <1>1 DEF Listings
  <2> QED
    BY <2>1
<1>2. ASSUME f = [v \in DOMAIN f |-> f[v]], DOMAIN f \subseteq Versions,
             \A v \in DOMAIN f : f[v] \in Contents
      PROVE  f \in Listings
  <2>1. f \in [DOMAIN f -> Contents]
    BY <1>2
  <2> QED
    BY <1>2, <2>1 DEF Listings
<1> QED
  BY <1>1, <1>2

LEMMA WithIs ==
  ASSUME NEW f \in Listings, NEW v \in Versions, NEW c \in Contents
  PROVE  /\ With(f, v, c) \in Listings /\ DOMAIN With(f, v, c) = DOMAIN f \cup {v}
         /\ With(f, v, c)[v] = c
         /\ \A x \in DOMAIN f : x # v => With(f, v, c)[x] = f[x]
<1> DEFINE g == With(f, v, c)
<1>1. /\ DOMAIN g = DOMAIN f \cup {v} /\ g[v] = c /\ \A x \in DOMAIN f : x # v => g[x] = f[x]
      /\ g = [x \in DOMAIN g |-> g[x]]
  BY DEF With
<1>2. DOMAIN f \subseteq Versions /\ \A x \in DOMAIN f : f[x] \in Contents
  BY ListingsAre
<1> HIDE DEF g
<1>3. DOMAIN g \subseteq Versions /\ \A x \in DOMAIN g : g[x] \in Contents
  BY <1>1, <1>2
<1>4. g \in Listings
  BY <1>1, <1>3, ListingsAre
<1> QED
  BY <1>1, <1>4 DEF g

LEMMA EmptyListing == << >> \in Listings /\ DOMAIN << >> = {}
<1>1. << >> = [v \in {} |-> v] /\ DOMAIN << >> = {}
  OBVIOUS
<1>2. << >> \in [{} -> Contents]
  BY <1>1
<1> QED
  BY <1>1, <1>2 DEF Listings

(* discover's order, one file at a time: what is left of a plan has a      *)
(* least version, and First is it.                                         *)
LEMMA FirstIsLeast ==
  ASSUME NEW S \in SUBSET Versions, S # {}
  PROVE  First(S) \in S /\ \A w \in S : First(S) <= w
<1>1. S \subseteq Nat
  BY MigrateAssumption
<1>2. PICK v \in S : \A w \in S : ~(<<w, v>> \in OpToRel(<, Nat))
  BY <1>1, NatLessThanWellFounded, WFMin
<1>3. \A w \in S : ~(w < v)
  BY <1>1, <1>2 DEF OpToRel
<1>4. \A w \in S : v <= w
  BY <1>1, <1>3
<1> QED
  BY <1>4 DEF First

LEMMA SchemaGrows ==
  ASSUME NEW s \in Seq(Files), NEW e \in Files
  PROVE  /\ Append(s, e) \in Seq(Files)
         /\ DOMAIN Append(s, e) = DOMAIN s \cup {Len(s) + 1}
         /\ Append(s, e)[Len(s) + 1] = e
         /\ \A i \in DOMAIN s : Append(s, e)[i] = s[i]
         /\ Len(s) \in Nat /\ DOMAIN s = 1..Len(s)
BY AppendProperties

-----------------------------------------------------------------------------
(* What a run holds, while others add to the table and to the schema.      *)

LEMMA RunKeeps ==
  ASSUME NEW h, NEW t, NEW u, NEW m, NEW n, RunInv(h, t, m), m \subseteq n,
         \A v \in DOMAIN t : v \in DOMAIN u /\ u[v] = t[v]
  PROVE  RunInv(h, u, n)
<1>1. Recorded(h, t) => Recorded(h, u)
  BY DEF Recorded
<1> QED
  BY <1>1 DEF RunInv

(* The run that has dealt with its first file goes on to the next.         *)
LEMMA RunAdvances ==
  ASSUME NEW h \in Holdings, NEW t \in Listings, NEW m, NEW n, RunInv(h, t, m), h.pc \in Working,
         NEW v, v = First(h.todo), v \notin DOMAIN t, NEW left, left = h.todo \ {v},
         NEW g \in Holdings, g.plan = h.plan, g.seen = h.seen, g.todo = left,
         g.pc = IF left = {} THEN "done" ELSE "applying"
  PROVE  RunInv(g, With(t, v, h.plan[v]), n)
<1>1. v \in h.todo /\ v \in Versions /\ h.plan[v] \in Contents
  <2>1. h.todo \in SUBSET Versions /\ h.todo # {} /\ h.todo \subseteq DOMAIN h.plan /\ h.plan \in Listings
    BY DEF RunInv, Holdings
  <2>2. First(h.todo) \in h.todo
    BY <2>1, FirstIsLeast
  <2> QED
    BY <2>1, <2>2, ListingsAre
<1> DEFINE u == With(t, v, h.plan[v])
<1>2. /\ DOMAIN u = DOMAIN t \cup {v} /\ u[v] = h.plan[v]
      /\ \A x \in DOMAIN t : x # v => u[x] = t[x]
  BY <1>1 DEF With
<1> HIDE DEF u
<1>3. Recorded(g, u)
  BY <1>2 DEF RunInv, Recorded
<1>4. left # {} => Agrees(g)
  BY DEF RunInv, Agrees
<1>5. left \subseteq DOMAIN g.plan
  BY DEF RunInv
<1> QED
  BY <1>3, <1>4, <1>5 DEF RunInv, Working, u

(* Alone and in order, the schema, the unrecorded aside, lies below what   *)
(* an applying run has left.                                               *)
LEMMA AllBelow ==
  ASSUME MigrateInv, NEW r \in Runners, runner[r].pc = "applying", ~overlapped,
         NEW i \in DOMAIN schema, schema[i].version \notin unrecorded
  PROVE  schema[i].version \in DOMAIN table /\ schema[i].version < First(runner[r].todo)
<1>1. First(runner[r].todo) \in runner[r].todo
  <2>1. runner[r].todo \in SUBSET Versions /\ runner[r].todo # {}
    BY DEF MigrateInv, Types, Holdings, RunInv, Working
  <2> QED
    BY <2>1, FirstIsLeast
<1>2. Alone /\ Above /\ Accounted
  BY DEF MigrateInv, Orderly
<1>3. schema[i].version \in DOMAIN table
  BY <1>2 DEF Alone, Accounted, Active, Working
<1> QED
  BY <1>1, <1>2, <1>3 DEF Above, Working

-----------------------------------------------------------------------------
(* A run comes to an end short of its plan: a file or a row has failed, the  *)
(* run was refused or killed.                                              *)

LEMMA RunEnds ==
  ASSUME MigrateInv, NEW r \in Runners, NEW p \in Over \ {"done"},
         runner' = [runner EXCEPT ![r].pc = p],
         files' = files, schema' = schema, table' = table, changes' \in 0..MaxChanges,
         halfBuilt \subseteq halfBuilt', halfBuilt' \subseteq Versions,
         kills' \in 0..MaxKills, overlapped' = overlapped,
         unrecorded \subseteq unrecorded', unrecorded' \subseteq Versions,
         runner[r].pc = "recording" => First(runner[r].todo) \in unrecorded'
  PROVE  MigrateInv'
<1>1. runner'[r] = [runner[r] EXCEPT !.pc = p] /\ \A q \in Runners \ {r} : runner'[q] = runner[q]
  BY DEF MigrateInv, Types
<1>2. runner[r] \in Holdings
  BY DEF MigrateInv, Types
<1>3. /\ runner'[r] \in Holdings /\ runner'[r].pc = p
      /\ runner'[r].todo = runner[r].todo /\ runner'[r].plan = runner[r].plan
  BY <1>1, <1>2 DEF Holdings
<1>4. Types'
  <2>1. runner' \in [Runners -> Holdings]
    BY <1>1, <1>3 DEF MigrateInv, Types
  <2> QED
    BY <2>1 DEF MigrateInv, Types
<1>5. Met \subseteq Met'
  BY DEF Met
<1>6. ASSUME NEW q \in Runners PROVE RunInv(runner'[q], table', Met')
  <2>1. RunInv(runner[q], table, Met)
    BY DEF MigrateInv
  <2>2. CASE q = r
    <3>1. RunInv(runner[r], table', Met')
      BY <1>5, <2>1, <2>2, RunKeeps
    <3> QED
      BY <1>3, <2>2, <3>1 DEF RunInv, Over, Working
  <2>3. CASE q # r
    <3>1. RunInv(runner[q], table', Met')
      BY <1>5, <2>1, RunKeeps
    <3> QED
      BY <1>1, <2>3, <3>1
  <2> QED
    BY <2>2, <2>3
<1>7. TransactionalOnce' /\ RecordedWasMet'
  BY DEF MigrateInv, TransactionalOnce, RecordedWasMet, Taken
<1>8. Orderly'
  <2> SUFFICES ASSUME ~overlapped' PROVE Alone' /\ Above' /\ Accounted' /\ Ascends'
    BY DEF Orderly
  <2>1. Alone /\ Above /\ Accounted /\ Ascends
    BY DEF MigrateInv, Orderly
  <2>2. \A q \in Runners : runner'[q].pc \in Active => q # r /\ runner'[q] = runner[q]
    BY <1>1, <1>3 DEF Active, Working, Over
  <2>3. Alone'
    BY <2>1, <2>2 DEF Alone
  <2>4. Above'
    BY <2>1, <2>2 DEF Above, Active
  <2>5. Accounted'
    <3> SUFFICES ASSUME NEW i \in DOMAIN schema, schema[i].version \notin DOMAIN table,
                        schema[i].version \notin unrecorded'
                 PROVE  \E q \in Runners : runner'[q].pc = "recording" /\ schema[i].version = First(runner'[q].todo)
      BY DEF Accounted
    <3>1. PICK q \in Runners : runner[q].pc = "recording" /\ schema[i].version = First(runner[q].todo)
      BY <2>1 DEF Accounted
    <3> QED
      BY <1>1, <3>1
  <2>6. Ascends'
    BY <2>1 DEF Ascends
  <2> QED
    BY <2>3, <2>4, <2>5, <2>6
<1> QED
  BY <1>4, <1>6, <1>7, <1>8 DEF MigrateInv

-----------------------------------------------------------------------------
(* A file gets its row: with it, in its transaction, or after it.          *)

LEMMA RowAppears ==
  ASSUME MigrateInv, NEW r \in Runners, runner[r].pc \in Working,
         NEW v, v = First(runner[r].todo), v \notin DOMAIN table,
         NEW c, c = runner[r].plan[v],
         table' = With(table, v, c), Advance(r) \/ Fail(r),
         UNCHANGED <<files, halfBuilt, changes, kills, overlapped, unrecorded>>,
         \/ runner[r].pc = "recording" /\ schema' = schema
         \/ runner[r].pc = "applying" /\ Applied(v, c) \notin NoTransaction /\ schema' = Append(schema, Applied(v, c))
  PROVE  MigrateInv'
<1>1. PICK h \in Holdings : h = runner[r]
  BY DEF MigrateInv, Types
<1>2. RunInv(h, table, Met) /\ h.pc \in Working
  BY <1>1 DEF MigrateInv
<1>3. /\ h.todo \in SUBSET Versions /\ h.todo # {} /\ h.todo \subseteq DOMAIN h.plan
      /\ h.plan \in Listings /\ v = First(h.todo)
  BY <1>1, <1>2 DEF RunInv, Holdings
<1>4. v \in h.todo /\ v \in Versions /\ c \in Contents /\ \A w \in h.todo : v <= w
  BY <1>1, <1>3, FirstIsLeast, ListingsAre
<1>5. PICK left : left = h.todo \ {v}
  OBVIOUS
<1>6. PICK g : \/ Advance(r) /\ g = [h EXCEPT !.todo = left, !.pc = IF left = {} THEN "done" ELSE "applying"]
               \/ Fail(r) /\ g = [h EXCEPT !.pc = "failed"]
  OBVIOUS
<1>7. /\ g \in Holdings /\ g.plan = h.plan /\ g.seen = h.seen
      /\ \/ g.todo = left /\ g.pc = IF left = {} THEN "done" ELSE "applying"
         \/ g.todo = h.todo /\ g.pc = "failed"
  <2>1. CASE g = [h EXCEPT !.todo = left, !.pc = IF left = {} THEN "done" ELSE "applying"]
    BY <1>3, <1>5, <2>1 DEF Holdings, Over, Active, Working
  <2>2. CASE g = [h EXCEPT !.pc = "failed"]
    BY <2>2 DEF Holdings, Over
  <2> QED
    BY <1>6, <2>1, <2>2
<1>8. runner'[r] = g /\ \A q \in Runners \ {r} : runner'[q] = runner[q]
  <2>1. runner \in [Runners -> Holdings]
    BY DEF MigrateInv, Types
  <2>2. CASE Advance(r) /\ g = [h EXCEPT !.todo = left, !.pc = IF left = {} THEN "done" ELSE "applying"]
    <3>1. runner' = [runner EXCEPT ![r].todo = left, ![r].pc = IF left = {} THEN "done" ELSE "applying"]
      BY <1>1, <1>5, <2>2 DEF Advance
    <3> QED
      BY <1>1, <2>1, <2>2, <3>1
  <2>3. CASE Fail(r) /\ g = [h EXCEPT !.pc = "failed"]
    BY <1>1, <2>1, <2>3 DEF Fail
  <2> QED
    BY <1>6, <2>2, <2>3
<1>9. runner' \in [Runners -> Holdings]
  <2>1. runner' = [q \in Runners |-> runner'[q]]
    BY DEF Advance, Fail, MigrateInv, Types
  <2>2. \A q \in Runners : runner'[q] \in Holdings
    BY <1>7, <1>8 DEF MigrateInv, Types
  <2> QED
    BY <2>1, <2>2
<1>10. /\ table' \in Listings /\ DOMAIN table' = DOMAIN table \cup {v} /\ table'[v] = c
       /\ \A x \in DOMAIN table : x # v => table'[x] = table[x]
  <2>1. table \in Listings
    BY DEF MigrateInv, Types
  <2>2. PICK t \in Listings : t = table
    BY <2>1
  <2>3. With(t, v, c) \in Listings
    BY <1>4, WithIs
  <2>4. /\ DOMAIN With(t, v, c) = DOMAIN t \cup {v} /\ With(t, v, c)[v] = c
        /\ \A x \in DOMAIN t : x # v => With(t, v, c)[x] = t[x]
    BY DEF With
  <2> QED
    BY <2>2, <2>3, <2>4
<1>11. Applied(v, c) \in Files /\ Applied(v, c).version = v /\ Applied(v, c).content = c
  BY <1>4 DEF Applied, Files
<1>12. schema \in Seq(Files)
  BY DEF MigrateInv, Types
<1>13. Types'
  <2>1. schema' \in Seq(Files)
    BY <1>11, <1>12, SchemaGrows
  <2> QED
    BY <1>9, <1>10, <2>1 DEF MigrateInv, Types
<1>14. /\ \A i \in DOMAIN schema : i \in DOMAIN schema' /\ schema'[i] = schema[i]
       /\ Met \subseteq Met'
  <2>1. \A i \in DOMAIN schema : i \in DOMAIN schema' /\ schema'[i] = schema[i]
    BY <1>11, <1>12, SchemaGrows
  <2> QED
    BY <2>1 DEF Met
<1>15. ASSUME NEW q \in Runners PROVE RunInv(runner'[q], table', Met')
  <2>1. CASE q = r
    <3>1. CASE g.todo = left /\ g.pc = IF left = {} THEN "done" ELSE "applying"
      <4>1. RunInv(g, With(table, v, h.plan[v]), Met')
        BY <1>2, <1>3, <1>5, <1>7, <3>1, RunAdvances DEF MigrateInv, Types
      <4> QED
        BY <1>1, <1>8, <2>1, <4>1
    <3>2. CASE g.todo = h.todo /\ g.pc = "failed"
      <4>1. RunInv(g, table', Met')
        BY <1>2, <1>7, <3>2 DEF RunInv, Working
      <4> QED
        BY <1>8, <2>1, <4>1
    <3> QED
      BY <1>7, <3>1, <3>2
  <2>2. CASE q # r
    <3>1. RunInv(runner[q], table, Met)
      BY DEF MigrateInv
    <3>2. RunInv(runner[q], table', Met')
      BY <1>10, <1>14, <3>1, RunKeeps
    <3> QED
      BY <1>8, <2>2, <3>2
  <2> QED
    BY <2>1, <2>2
<1>16. TransactionalOnce'
  <2> SUFFICES ASSUME NEW u \in Versions,
                      NEW at, at = {i \in DOMAIN schema' : schema'[i].version = u /\ schema'[i] \notin NoTransaction},
                      NEW named \in BOOLEAN,
                      named = (u \in DOMAIN table' /\ Applied(u, table'[u]) \notin NoTransaction)
               PROVE  /\ named => \E i \in at : at = {i} /\ schema'[i].content = table'[u]
                      /\ ~named => at = {}
    BY DEF TransactionalOnce
  <2>1. PICK old : old = {i \in DOMAIN schema : schema[i].version = u /\ schema[i] \notin NoTransaction}
    OBVIOUS
  <2>2. PICK was \in BOOLEAN : was = (u \in DOMAIN table /\ Applied(u, table[u]) \notin NoTransaction)
    OBVIOUS
  <2>3. /\ was => \E i \in old : old = {i} /\ schema[i].content = table[u]
        /\ ~was => old = {}
    BY <2>1, <2>2 DEF MigrateInv, TransactionalOnce
  <2>4. u # v => (named <=> was) /\ (u \in DOMAIN table => table'[u] = table[u])
    BY <1>10, <2>2
  <2>5. CASE runner[r].pc = "recording" /\ schema' = schema
    <3>1. at = old
      BY <2>1, <2>5
    <3>2. CASE u = v
      <4>1. ~was /\ ~named
        BY <1>1, <1>2, <1>3, <1>10, <2>2, <2>5, <3>2 DEF RunInv, Ahead
      <4> QED
        BY <2>3, <3>1, <4>1
    <3> QED
      BY <2>2, <2>3, <2>4, <2>5, <3>1, <3>2
  <2>6. CASE schema' = Append(schema, Applied(v, c)) /\ u # v
    <3> DEFINE n == Len(schema) + 1
    <3>0. /\ DOMAIN schema' = DOMAIN schema \cup {n} /\ schema'[n].version # u
          /\ \A i \in DOMAIN schema : schema'[i] = schema[i]
      BY <1>11, <1>12, <2>6, SchemaGrows
    <3> HIDE DEF n
    <3>1. \A i : i \in DOMAIN schema' /\ schema'[i].version = u /\ schema'[i] \notin NoTransaction
                 <=> i \in DOMAIN schema /\ schema[i].version = u /\ schema[i] \notin NoTransaction
      BY <3>0
    <3>2. at = old
      BY <2>1, <3>1
    <3>3. \A i \in old : schema'[i] = schema[i]
      BY <1>14, <2>1
    <3> QED
      BY <2>2, <2>3, <2>4, <2>6, <3>2, <3>3
  <2>7. CASE schema' = Append(schema, Applied(v, c)) /\ Applied(v, c) \notin NoTransaction /\ u = v
    <3>1. old = {}
      BY <2>2, <2>3, <2>7
    <3>2. /\ DOMAIN schema' = DOMAIN schema \cup {Len(schema) + 1}
          /\ schema'[Len(schema) + 1] = Applied(v, c)
          /\ \A i \in DOMAIN schema : schema'[i] = schema[i]
      BY <1>11, <1>12, <2>7, SchemaGrows
    <3>3. \A i \in DOMAIN schema : ~(schema'[i].version = u /\ schema'[i] \notin NoTransaction)
      BY <2>1, <3>1, <3>2
    <3>4. /\ schema'[Len(schema) + 1].version = u /\ schema'[Len(schema) + 1].content = c
          /\ schema'[Len(schema) + 1] \notin NoTransaction
      BY <1>11, <2>7, <3>2
    <3>5. at = {Len(schema) + 1}
      BY <3>2, <3>3, <3>4
    <3>6. u \in DOMAIN table' /\ table'[u] = c /\ named
      BY <1>10, <2>7
    <3> QED
      BY <3>4, <3>5, <3>6
  <2> QED
    BY <2>5, <2>6, <2>7
<1>17. RecordedWasMet'
  <2>1. \A u \in DOMAIN table' : u \in Met'
    <3>1. \A u \in DOMAIN table : u \in Met
      BY DEF MigrateInv, RecordedWasMet, Taken, Met
    <3>2. v \in Met'
      <4>1. CASE runner[r].pc = "recording"
        BY <1>1, <1>2, <1>3, <1>14, <4>1 DEF RunInv
      <4>2. CASE schema' = Append(schema, Applied(v, c))
        <5>1. Len(schema) + 1 \in DOMAIN schema' /\ schema'[Len(schema) + 1].version = v
          BY <1>11, <1>12, <4>2, SchemaGrows
        <5> QED
          BY <5>1 DEF Met
      <4> QED
        BY <4>1, <4>2
    <3> QED
      BY <1>10, <1>14, <3>1, <3>2
  <2> QED
    BY <2>1 DEF RecordedWasMet, Taken, Met
<1>18. Orderly'
  <2> SUFFICES ASSUME ~overlapped PROVE Alone' /\ Above' /\ Accounted' /\ Ascends'
    BY DEF Orderly
  <2>1. Alone /\ Above /\ Accounted /\ Ascends
    BY DEF MigrateInv, Orderly
  <2>2. \A q \in Runners \ {r} : runner[q].pc \notin Active
    BY <2>1 DEF Alone, Active
  <2>3. Alone'
    BY <1>8, <2>2 DEF Alone
  <2>4. Above'
    <3> SUFFICES ASSUME NEW w \in DOMAIN table', NEW x \in left PROVE w < x
      <4>1. \A q \in Runners : runner'[q].pc \in Working => q = r
        BY <1>8, <2>2 DEF Active
      <4>2. g.pc \in Working => g.todo = left
        BY <1>7 DEF Working
      <4> QED
        BY <1>8, <4>1, <4>2 DEF Above
    <3>1. x \in h.todo /\ x # v /\ x \in Nat /\ v \in Nat
      BY <1>3, <1>4, <1>5, MigrateAssumption
    <3>2. v < x
      BY <1>4, <3>1
    <3>3. w \in DOMAIN table => w < x
      BY <1>1, <1>2, <2>1, <3>1 DEF Above
    <3> QED
      BY <1>10, <3>2, <3>3
  <2>5. Accounted'
    <3>1. ASSUME NEW i \in DOMAIN schema
          PROVE  schema[i].version \in DOMAIN table' \/ schema[i].version \in unrecorded'
      BY <1>1, <1>3, <1>10, <2>1, <2>2 DEF Accounted, Active, Working
    <3>2. CASE schema' = schema
      BY <3>1, <3>2 DEF Accounted
    <3>3. CASE schema' = Append(schema, Applied(v, c))
      <4>1. /\ DOMAIN schema' = DOMAIN schema \cup {Len(schema) + 1}
            /\ schema'[Len(schema) + 1] = Applied(v, c)
            /\ \A i \in DOMAIN schema : schema'[i] = schema[i]
        BY <1>11, <1>12, <3>3, SchemaGrows
      <4>2. schema'[Len(schema) + 1].version \in DOMAIN table'
        BY <1>10, <1>11, <4>1
      <4>3. \A i \in DOMAIN schema : schema'[i].version \in DOMAIN table' \/ schema'[i].version \in unrecorded'
        BY <3>1, <4>1
      <4> QED
        BY <4>1, <4>2, <4>3 DEF Accounted
    <3> QED
      BY <3>2, <3>3
  <2>6. Ascends'
    <3>1. CASE schema' = schema
      BY <2>1, <3>1 DEF Ascends
    <3>2. CASE schema' = Append(schema, Applied(v, c)) /\ runner[r].pc = "applying"
      <4>1. \A i \in DOMAIN schema : schema[i].version \notin unrecorded => schema[i].version < v
        BY <3>2, AllBelow
      <4> QED
        BY <1>11, <1>12, <2>1, <3>2, <4>1, SchemaGrows DEF Ascends
    <3> QED
      BY <3>1, <3>2
  <2> QED
    BY <2>3, <2>4, <2>5, <2>6
<1> QED
  BY <1>13, <1>15, <1>16, <1>17, <1>18 DEF MigrateInv

(* The statement of a no-transaction file takes effect, or finds its effect *)
(* there: the run goes on to record it, or never hears of it.              *)
LEMMA FileBeforeRow ==
  ASSUME MigrateInv, NEW r \in Runners, runner[r].pc = "applying",
         NEW v, v = First(runner[r].todo), Ahead(runner[r]) \in NoTransaction,
         NEW p, runner' = [runner EXCEPT ![r].pc = p],
         \/ p = "recording" /\ unrecorded' = unrecorded
         \/ p = "failed" /\ unrecorded' = unrecorded \cup {v},
         UNCHANGED <<files, table, halfBuilt, changes, kills, overlapped>>,
         \/ schema' = Append(schema, Applied(v, runner[r].plan[v]))
         \/ schema' = schema /\ (Taken(v) \/ v \in halfBuilt)
  PROVE  MigrateInv'
<1>1. PICK h \in Holdings : h = runner[r]
  BY DEF MigrateInv, Types
<1>2. RunInv(h, table, Met) /\ h.pc \in Working
  BY <1>1 DEF MigrateInv, Working
<1>3. /\ h.todo \in SUBSET Versions /\ h.todo # {} /\ h.todo \subseteq DOMAIN h.plan
      /\ h.plan \in Listings /\ v = First(h.todo)
  BY <1>1, <1>2 DEF RunInv, Holdings
<1>4. v \in h.todo /\ v \in Versions /\ h.plan[v] \in Contents
  BY <1>3, FirstIsLeast, ListingsAre
<1>5. PICK e \in Files : e = Applied(v, runner[r].plan[v]) /\ e.version = v /\ e \in NoTransaction
  BY <1>1, <1>3, <1>4 DEF Applied, Files, Ahead
<1>6. PICK g : /\ g = [h EXCEPT !.pc = p] /\ g \in Holdings /\ g.pc = p
               /\ g.plan = h.plan /\ g.seen = h.seen /\ g.todo = h.todo
  <2>1. PICK g : g = [h EXCEPT !.pc = p]
    OBVIOUS
  <2>2. g \in Holdings /\ g.pc = p /\ g.plan = h.plan /\ g.seen = h.seen /\ g.todo = h.todo
    BY <2>1 DEF Holdings, Over, Active, Working
  <2> QED
    BY <2>1, <2>2
<1>7. runner'[r] = g /\ \A q \in Runners \ {r} : runner'[q] = runner[q]
  BY <1>1, <1>6 DEF MigrateInv, Types
<1>8. schema \in Seq(Files)
  BY DEF MigrateInv, Types
<1>9. Types'
  <2>1. schema' \in Seq(Files)
    BY <1>5, <1>8, SchemaGrows
  <2>2. runner' \in [Runners -> Holdings]
    BY <1>1, <1>6 DEF MigrateInv, Types
  <2>3. unrecorded' \subseteq Versions
    BY <1>4 DEF MigrateInv, Types
  <2> QED
    BY <2>1, <2>2, <2>3 DEF MigrateInv, Types
<1>10. \A i \in DOMAIN schema : i \in DOMAIN schema' /\ schema'[i] = schema[i]
  BY <1>5, <1>8, SchemaGrows
<1>11. Met \subseteq Met' /\ v \in Met'
  <2>1. Met \subseteq Met'
    BY <1>10 DEF Met
  <2>2. CASE schema' = Append(schema, e)
    <3>1. Len(schema) + 1 \in DOMAIN schema' /\ schema'[Len(schema) + 1].version = v
      BY <1>5, <1>8, <2>2, SchemaGrows
    <3> QED
      BY <2>1, <3>1 DEF Met
  <2>3. CASE Taken(v) \/ v \in halfBuilt
    BY <2>1, <2>3 DEF Taken, Met
  <2> QED
    BY <1>5, <2>1, <2>2, <2>3
<1>12. ASSUME NEW q \in Runners PROVE RunInv(runner'[q], table', Met')
  <2>1. CASE q = r
    <3>1. RunInv(g, table, Met')
      BY <1>1, <1>2, <1>3, <1>6, <1>11 DEF RunInv, Working, Agrees, Recorded, Ahead
    <3> QED
      BY <1>7, <2>1, <3>1
  <2>2. CASE q # r
    <3>1. RunInv(runner[q], table, Met)
      BY DEF MigrateInv
    <3>2. RunInv(runner[q], table', Met')
      BY <1>11, <3>1, RunKeeps
    <3> QED
      BY <1>7, <2>2, <3>2
  <2> QED
    BY <2>1, <2>2
<1>13. TransactionalOnce'
  <2>1. ASSUME NEW u \in Versions
        PROVE  {i \in DOMAIN schema' : schema'[i].version = u /\ schema'[i] \notin NoTransaction}
                 = {i \in DOMAIN schema : schema[i].version = u /\ schema[i] \notin NoTransaction}
    <3>1. CASE schema' = Append(schema, e)
      BY <1>5, <1>8, <3>1, SchemaGrows
    <3> QED
      BY <1>5, <3>1
  <2>2. table' = table
    OBVIOUS
  <2>3. \A i \in DOMAIN schema : schema'[i].content = schema[i].content
    BY <1>10
  <2> QED
    BY <2>1, <2>2, <2>3 DEF MigrateInv, TransactionalOnce
<1>14. RecordedWasMet'
  <2>1. \A u \in DOMAIN table : u \in Met
    BY DEF MigrateInv, RecordedWasMet, Taken, Met
  <2> QED
    BY <1>11, <2>1 DEF RecordedWasMet, Taken, Met
<1>15. Orderly'
  <2> SUFFICES ASSUME ~overlapped PROVE Alone' /\ Above' /\ Accounted' /\ Ascends'
    BY DEF Orderly
  <2>1. Alone /\ Above /\ Accounted /\ Ascends
    BY DEF MigrateInv, Orderly
  <2>2. \A q \in Runners \ {r} : runner[q].pc \notin Active
    BY <2>1 DEF Alone, Active, Working
  <2>3. \A i \in DOMAIN schema :
          schema[i].version \notin unrecorded => schema[i].version \in DOMAIN table /\ schema[i].version < v
    BY AllBelow
  <2>4. Alone'
    BY <1>7, <2>2 DEF Alone
  <2>5. Above'
    BY <1>1, <1>2, <1>6, <1>7, <2>1 DEF Above
  <2>6. Accounted'
    <3>1. \A i \in DOMAIN schema' : \/ schema'[i].version \in DOMAIN table \cup unrecorded
                                    \/ schema'[i].version = v
      BY <1>5, <1>8, <2>3, SchemaGrows
    <3>2. \/ runner'[r].pc = "recording" /\ First(runner'[r].todo) = v
          \/ v \in unrecorded'
      BY <1>3, <1>6, <1>7
    <3> QED
      BY <3>1, <3>2 DEF Accounted
  <2>7. Ascends'
    <3>1. CASE schema' = Append(schema, e)
      BY <1>5, <1>8, <2>1, <2>3, <3>1, SchemaGrows DEF Ascends
    <3> QED
      BY <1>5, <2>1, <3>1 DEF Ascends
  <2> QED
    BY <2>4, <2>5, <2>6, <2>7
<1> QED
  BY <1>9, <1>12, <1>13, <1>14, <1>15 DEF MigrateInv

-----------------------------------------------------------------------------
(* The invariant, step by step.                                            *)

LEMMA InitMigrate == MigrateInit => MigrateInv
<1> SUFFICES ASSUME MigrateInit PROVE MigrateInv
  OBVIOUS
<1>1. /\ files \in Listings /\ table = << >> /\ schema = << >> /\ halfBuilt = {}
      /\ runner = [r \in Runners |-> Idle] /\ changes = 0 /\ kills = 0 /\ overlapped = FALSE /\ unrecorded = {}
  BY DEF MigrateInit, Listings
<1>2. DOMAIN table = {} /\ DOMAIN schema = {} /\ table \in Listings /\ schema \in Seq(Files)
  BY <1>1, EmptyListing
<1>3. Idle \in Holdings /\ Idle.todo = {} /\ Idle.pc = "idle"
  BY EmptyListing DEF Idle, Holdings
<1>4. Types
  <2>1. runner \in [Runners -> Holdings] /\ changes \in 0..MaxChanges /\ kills \in 0..MaxKills
    BY <1>1, <1>3, MigrateAssumption
  <2> QED
    BY <1>1, <1>2, <2>1 DEF Types
<1>5. \A r \in Runners : RunInv(runner[r], table, Met)
  BY <1>1, <1>3 DEF RunInv, Working
<1>6. TransactionalOnce /\ RecordedWasMet
  BY <1>2 DEF TransactionalOnce, RecordedWasMet
<1>7. Alone /\ Above /\ Accounted /\ Ascends
  BY <1>1, <1>2, <1>3 DEF Alone, Above, Accounted, Ascends, Active, Working
<1> QED
  BY <1>4, <1>5, <1>6, <1>7 DEF MigrateInv, Orderly

LEMMA ChangeFileKeeps ==
  ASSUME MigrateInv, ChangeFile
  PROVE  MigrateInv'
<1>1. files' \in Listings
  <2>1. files \in Listings
    BY DEF MigrateInv, Types
  <2>2. ASSUME NEW v \in Versions, NEW c \in Contents PROVE With(files, v, c) \in Listings
    BY <2>1, WithIs
  <2>3. ASSUME NEW v \in Versions PROVE Restrict(files, DOMAIN files \ {v}) \in Listings
    <3>1. DOMAIN files \in SUBSET Versions /\ \A x \in DOMAIN files : files[x] \in Contents
      BY <2>1, ListingsAre
    <3>2. Restrict(files, DOMAIN files \ {v}) \in [DOMAIN files \ {v} -> Contents]
      BY <3>1 DEF Restrict
    <3> QED
      BY <3>1, <3>2 DEF Listings
  <2> QED
    BY <2>2, <2>3 DEF ChangeFile
<1>2. changes' \in 0..MaxChanges
  BY MigrateAssumption DEF ChangeFile, MigrateInv, Types
<1>3. UNCHANGED <<schema, halfBuilt, table, runner, kills, overlapped, unrecorded>>
  BY DEF ChangeFile
<1>4. Types'
  BY <1>1, <1>2, <1>3 DEF MigrateInv, Types
<1>5. Met' = Met
  BY <1>3 DEF Met
<1>6. (\A r \in Runners : RunInv(runner[r], table, Met))'
  BY <1>3, <1>5 DEF MigrateInv
<1>7. TransactionalOnce' /\ RecordedWasMet'
  BY <1>3 DEF MigrateInv, TransactionalOnce, RecordedWasMet, Taken
<1>8. Orderly'
  BY <1>3 DEF MigrateInv, Orderly, Alone, Above, Accounted, Ascends
<1> QED
  BY <1>4, <1>6, <1>7, <1>8 DEF MigrateInv

LEMMA DiscoverKeeps ==
  ASSUME MigrateInv, NEW r \in Runners, Discover(r)
  PROVE  MigrateInv'
<1>1. PICK h \in Holdings : h = runner[r] /\ h.pc = "idle"
  BY DEF MigrateInv, Types, Discover
<1>2. PICK g : g = runner'[r]
  OBVIOUS
<1>3. g \in Holdings /\ g.plan = files /\ g.todo = h.todo /\ g.pc \in {"discovered", "refused"}
  <2>1. PICK p \in {"discovered", "refused"} : runner' = [runner EXCEPT ![r].pc = p, ![r].plan = files]
    BY DEF Discover
  <2>2. g = [h EXCEPT !.pc = p, !.plan = files]
    BY <1>1, <1>2, <2>1 DEF MigrateInv, Types
  <2>3. files \in Listings
    BY DEF MigrateInv, Types
  <2> QED
    BY <2>2, <2>3 DEF Holdings, Over, Active
<1>4. \A q \in Runners \ {r} : runner'[q] = runner[q]
  BY DEF Discover, MigrateInv, Types
<1>5. /\ UNCHANGED <<files, schema, halfBuilt, table, changes, kills, unrecorded>>
      /\ overlapped' \in BOOLEAN /\ (~overlapped' => ~overlapped)
  BY DEF Discover, MigrateInv, Types
<1>6. Types'
  <2>1. runner' = [q \in Runners |-> runner'[q]]
    BY DEF Discover, MigrateInv, Types
  <2>2. \A q \in Runners : runner'[q] \in Holdings
    BY <1>2, <1>3, <1>4 DEF MigrateInv, Types
  <2>3. runner' \in [Runners -> Holdings]
    BY <2>1, <2>2
  <2> QED
    BY <1>5, <2>3 DEF MigrateInv, Types
<1>7. Met' = Met
  BY <1>5 DEF Met
<1>8. h.todo = {}
  BY <1>1 DEF MigrateInv, RunInv
<1>9. ASSUME NEW q \in Runners PROVE RunInv(runner'[q], table', Met')
  <2>1. RunInv(g, table, Met)
    BY <1>3, <1>8 DEF RunInv, Working
  <2> QED
    BY <1>2, <1>4, <1>5, <1>7, <2>1 DEF MigrateInv
<1>10. TransactionalOnce' /\ RecordedWasMet'
  BY <1>5 DEF MigrateInv, TransactionalOnce, RecordedWasMet, Taken
<1>11. Orderly'
  <2> SUFFICES ASSUME ~overlapped' PROVE Alone' /\ Above' /\ Accounted' /\ Ascends'
    BY DEF Orderly
  <2>1. Alone /\ Above /\ Accounted /\ Ascends
    BY <1>5 DEF MigrateInv, Orderly
  <2>2. \A q \in Runners \ {r} : runner[q].pc \notin Active
    <3>1. \A q \in Runners \ {r} : runner[q].pc \in Over \cup {"idle"}
      BY DEF Discover
    <3> QED
      BY <3>1 DEF Over, Active, Working
  <2>3. Alone'
    BY <1>4, <2>2 DEF Alone
  <2>4. Above'
    BY <1>2, <1>3, <1>4, <2>2 DEF Above, Active, Working
  <2>5. Accounted'
    BY <1>1, <1>4, <1>5, <2>1 DEF Accounted
  <2>6. Ascends'
    BY <1>5, <2>1 DEF Ascends
  <2> QED
    BY <2>3, <2>4, <2>5, <2>6
<1> QED
  BY <1>6, <1>9, <1>10, <1>11 DEF MigrateInv

LEMMA PlanPasses ==
  ASSUME MigrateInv, NEW r \in Runners, Plan(r), ~Fail(r)
  PROVE  MigrateInv'
<1>1. PICK h \in Holdings : h = runner[r] /\ h.pc = "discovered"
  BY DEF MigrateInv, Types, Plan
<1>2. PICK sound \in BOOLEAN : sound = (UnchangedFiles(h.plan, table) /\ InOrder(h.plan, table))
  OBVIOUS
<1>3. PICK todo \in SUBSET Versions : todo = Pending(h.plan, table)
  <2>1. h.plan \in Listings
    BY DEF Holdings
  <2>2. DOMAIN h.plan \subseteq Versions
    BY <2>1, ListingsAre
  <2> QED
    BY <2>2 DEF Pending
<1>4. PICK g : g = runner'[r]
  OBVIOUS
<1>5. /\ g \in Holdings /\ g.plan = h.plan /\ g.seen = table
      /\ g.todo = IF sound THEN todo ELSE {}
      /\ g.pc \in {"refused", "done", "applying"}
      /\ g.pc \in {"applying", "done"} => sound
      /\ g.pc = "applying" => todo # {}
      /\ g.pc = "done" => todo = {}
  <2>1. PICK pc : pc = CASE ~sound -> "refused" [] sound /\ todo = {} -> "done" [] OTHER -> "applying"
    OBVIOUS
  <2>2. PICK left : left = IF sound THEN todo ELSE {}
    OBVIOUS
  <2>3. runner' = [runner EXCEPT ![r].seen = table, ![r].pc = pc, ![r].todo = left]
    BY <1>1, <1>2, <1>3, <2>1, <2>2 DEF Plan
  <2>4. g = [h EXCEPT !.seen = table, !.pc = pc, !.todo = left]
    BY <1>1, <1>4, <2>3 DEF MigrateInv, Types
  <2>5. table \in Listings /\ left \in SUBSET Versions
    BY <2>2 DEF MigrateInv, Types
  <2>6. /\ pc \in {"refused", "done", "applying"} /\ (pc \in {"applying", "done"} => sound)
        /\ (pc = "applying" => todo # {}) /\ (pc = "done" => todo = {})
    BY <2>1
  <2>7. pc \in Over \cup Active \cup {"idle"}
    BY <2>6 DEF Over, Active, Working
  <2>8. g \in Holdings /\ g.plan = h.plan /\ g.seen = table /\ g.todo = left /\ g.pc = pc
    BY <2>4, <2>5, <2>7 DEF Holdings
  <2> QED
    BY <2>2, <2>6, <2>8
<1>6. \A q \in Runners \ {r} : runner'[q] = runner[q]
  BY DEF Plan, MigrateInv, Types
<1>7. UNCHANGED <<files, schema, halfBuilt, table, changes, kills, overlapped, unrecorded>>
  BY DEF Plan
<1>8. Types'
  <2>1. runner' = [q \in Runners |-> runner'[q]]
    BY DEF Plan, MigrateInv, Types
  <2>2. \A q \in Runners : runner'[q] \in Holdings
    BY <1>4, <1>5, <1>6 DEF MigrateInv, Types
  <2>3. runner' \in [Runners -> Holdings]
    BY <2>1, <2>2
  <2> QED
    BY <1>7, <2>3 DEF MigrateInv, Types
<1>9. Met' = Met
  BY <1>7 DEF Met
<1>10. RunInv(g, table, Met)
  <2>1. g.todo \subseteq DOMAIN g.plan
    BY <1>3, <1>5 DEF Pending
  <2>2. g.pc = "applying" => Agrees(g)
    BY <1>2, <1>3, <1>5 DEF Agrees, InOrder
  <2>3. g.pc \in {"applying", "done"} => Recorded(g, table)
    BY <1>2, <1>3, <1>5 DEF Recorded, Pending, UnchangedFiles
  <2> QED
    BY <1>5, <2>1, <2>2, <2>3 DEF RunInv, Working
<1>11. ASSUME NEW q \in Runners PROVE RunInv(runner'[q], table', Met')
  BY <1>4, <1>6, <1>7, <1>9, <1>10 DEF MigrateInv
<1>12. TransactionalOnce' /\ RecordedWasMet'
  BY <1>7 DEF MigrateInv, TransactionalOnce, RecordedWasMet, Taken
<1>13. Orderly'
  <2> SUFFICES ASSUME ~overlapped PROVE Alone' /\ Above' /\ Accounted' /\ Ascends'
    BY <1>7 DEF Orderly
  <2>1. Alone /\ Above /\ Accounted /\ Ascends
    BY DEF MigrateInv, Orderly
  <2>2. \A q \in Runners \ {r} : runner[q].pc \notin Active
    BY <1>1, <2>1 DEF Alone, Active
  <2>3. Alone'
    BY <1>6, <2>2 DEF Alone
  <2>4. Above'
    <3>1. \A w \in DOMAIN table, v \in todo : sound => w < v
      BY <1>2, <1>3 DEF InOrder
    <3> QED
      BY <1>4, <1>5, <1>6, <1>7, <2>2, <3>1 DEF Above, Active, Working
  <2>5. Accounted'
    BY <1>1, <1>6, <1>7, <2>1 DEF Accounted
  <2>6. Ascends'
    BY <1>7, <2>1 DEF Ascends
  <2> QED
    BY <2>3, <2>4, <2>5, <2>6
<1> QED
  BY <1>8, <1>11, <1>12, <1>13 DEF MigrateInv

LEMMA PlanKeeps ==
  ASSUME MigrateInv, NEW r \in Runners, Plan(r)
  PROVE  MigrateInv'
<1>1. CASE Fail(r)
  <2>1. "failed" \in Over \ {"done"} /\ runner' = [runner EXCEPT ![r].pc = "failed"]
    BY <1>1 DEF Over, Fail
  <2>2. /\ UNCHANGED <<files, schema, halfBuilt, table, changes, kills, overlapped, unrecorded>>
        /\ runner[r].pc # "recording"
    BY DEF Plan
  <2> QED
    BY <2>1, <2>2, RunEnds DEF MigrateInv, Types
<1> QED
  BY <1>1, PlanPasses

LEMMA CurrentIs ==
  ASSUME NEW r \in Runners
  PROVE  /\ Current(r) = Ahead(runner[r]) /\ Current(r).version = First(runner[r].todo)
         /\ Current(r) = Applied(First(runner[r].todo), runner[r].plan[First(runner[r].todo)])
         /\ Current(r).content = runner[r].plan[First(runner[r].todo)]
BY DEF Current, Ahead, Applied

LEMMA ApplyKeeps ==
  ASSUME MigrateInv, NEW r \in Runners, ApplyInTransaction(r)
  PROVE  MigrateInv'
<1>1. /\ runner[r].pc = "applying" /\ Current(r) \notin NoTransaction
      /\ UNCHANGED <<files, halfBuilt, changes, kills, overlapped, unrecorded>>
  BY DEF ApplyInTransaction
<1>2. CASE Fail(r) /\ UNCHANGED <<schema, table>>
  <2>1. "failed" \in Over \ {"done"} /\ runner' = [runner EXCEPT ![r].pc = "failed"]
    BY <1>2 DEF Over, Fail
  <2> QED
    BY <1>1, <1>2, <2>1, RunEnds DEF MigrateInv, Types
<1>3. CASE WriteRow(r) /\ schema' = Append(schema, Current(r))
  <2>1. /\ First(runner[r].todo) \notin DOMAIN table
        /\ table' = With(table, First(runner[r].todo), runner[r].plan[First(runner[r].todo)])
        /\ Advance(r) \/ Fail(r)
    BY <1>3, CurrentIs DEF WriteRow
  <2> QED
    BY <1>1, <1>3, <2>1, CurrentIs, RowAppears DEF Working
<1> QED
  BY <1>2, <1>3 DEF ApplyInTransaction

LEMMA ExecuteKeeps ==
  ASSUME MigrateInv, NEW r \in Runners, ExecuteAutocommit(r)
  PROVE  MigrateInv'
<1>1. PICK v : v = First(runner[r].todo)
  OBVIOUS
<1>2. PICK skips \in BOOLEAN : skips = (Current(r) \in Guarded /\ (Taken(v) \/ v \in halfBuilt))
  OBVIOUS
<1>3. /\ runner[r].pc = "applying" /\ Ahead(runner[r]) \in NoTransaction /\ Current(r).version = v
      /\ UNCHANGED <<files, table, changes, kills, overlapped>>
  BY <1>1, CurrentIs DEF ExecuteAutocommit
<1>4. CASE /\ schema' = IF skips THEN schema ELSE Append(schema, Current(r))
           /\ \/ runner' = [runner EXCEPT ![r].pc = "recording"] /\ UNCHANGED unrecorded
              \/ Fail(r) /\ unrecorded' = unrecorded \cup {v}
           /\ UNCHANGED halfBuilt
  <2>1. \/ schema' = Append(schema, Applied(v, runner[r].plan[v]))
        \/ schema' = schema /\ (Taken(v) \/ v \in halfBuilt)
    BY <1>1, <1>2, <1>4, CurrentIs
  <2>2. CASE runner' = [runner EXCEPT ![r].pc = "recording"] /\ UNCHANGED unrecorded
    BY <1>1, <1>3, <1>4, <2>1, <2>2, FileBeforeRow
  <2>3. CASE Fail(r) /\ unrecorded' = unrecorded \cup {v}
    <3>1. runner' = [runner EXCEPT ![r].pc = "failed"]
      BY <2>3 DEF Fail
    <3> QED
      BY <1>1, <1>3, <1>4, <2>1, <2>3, <3>1, FileBeforeRow
  <2> QED
    BY <1>4, <2>2, <2>3
<1>5. CASE /\ Fail(r)
           /\ halfBuilt' = IF Current(r) \in Guarded /\ ~skips THEN halfBuilt \cup {v} ELSE halfBuilt
           /\ UNCHANGED <<schema, unrecorded>>
  <2>1. "failed" \in Over \ {"done"} /\ runner' = [runner EXCEPT ![r].pc = "failed"]
    BY <1>5 DEF Over, Fail
  <2>2. v \in Versions
    <3>1. runner[r].todo \in SUBSET Versions /\ runner[r].todo # {}
      BY <1>3 DEF MigrateInv, Types, Holdings, RunInv, Working
    <3> QED
      BY <1>1, <3>1, FirstIsLeast
  <2>3. halfBuilt \subseteq halfBuilt' /\ halfBuilt' \subseteq Versions
    BY <1>5, <2>2 DEF MigrateInv, Types
  <2> QED
    BY <1>3, <1>5, <2>1, <2>3, RunEnds DEF MigrateInv, Types
<1> QED
  BY <1>2, <1>3, <1>4, <1>5 DEF ExecuteAutocommit

LEMMA RecordKeeps ==
  ASSUME MigrateInv, NEW r \in Runners, Record(r)
  PROVE  MigrateInv'
<1>1. /\ runner[r].pc = "recording"
      /\ UNCHANGED <<files, schema, halfBuilt, changes, kills, overlapped>>
  BY DEF Record
<1>2. CASE Fail(r) /\ unrecorded' = unrecorded \cup {Current(r).version} /\ UNCHANGED table
  <2>1. "failed" \in Over \ {"done"} /\ runner' = [runner EXCEPT ![r].pc = "failed"]
    BY <1>2 DEF Over, Fail
  <2>2. First(runner[r].todo) \in Versions
    <3>1. runner[r].todo \in SUBSET Versions /\ runner[r].todo # {}
      BY <1>1 DEF MigrateInv, Types, Holdings, RunInv, Working
    <3> QED
      BY <3>1, FirstIsLeast
  <2> QED
    BY <1>1, <1>2, <2>1, <2>2, CurrentIs, RunEnds DEF MigrateInv, Types
<1>3. CASE WriteRow(r) /\ UNCHANGED unrecorded
  <2>1. /\ First(runner[r].todo) \notin DOMAIN table
        /\ table' = With(table, First(runner[r].todo), runner[r].plan[First(runner[r].todo)])
        /\ Advance(r) \/ Fail(r)
    BY <1>3, CurrentIs DEF WriteRow
  <2> QED
    BY <1>1, <1>3, <2>1, RowAppears DEF Working
<1> QED
  BY <1>2, <1>3 DEF Record

LEMMA KillKeeps ==
  ASSUME MigrateInv, NEW r \in Runners, Kill(r)
  PROVE  MigrateInv'
<1>1. kills' \in 0..MaxKills
  BY MigrateAssumption DEF Kill, MigrateInv, Types
<1>2. "killed" \in Over \ {"done"} /\ runner' = [runner EXCEPT ![r].pc = "killed"]
  BY DEF Kill, Over
<1>3. /\ unrecorded \subseteq unrecorded' /\ unrecorded' \subseteq Versions
      /\ runner[r].pc = "recording" => First(runner[r].todo) \in unrecorded'
  <2>1. CASE runner[r].pc = "recording"
    <3>1. runner[r].todo \in SUBSET Versions /\ runner[r].todo # {}
      BY <2>1 DEF MigrateInv, Types, Holdings, RunInv, Working
    <3>2. First(runner[r].todo) \in Versions
      BY <3>1, FirstIsLeast
    <3> QED
      BY <2>1, <3>2, CurrentIs DEF Kill, MigrateInv, Types
  <2> QED
    BY <2>1 DEF Kill, MigrateInv, Types
<1>4. UNCHANGED <<files, schema, halfBuilt, table, changes, overlapped>>
  BY DEF Kill
<1> QED
  BY <1>1, <1>2, <1>3, <1>4, RunEnds DEF MigrateInv, Types

THEOREM MigrateInvariant == MigrateSpec => []MigrateInv
<1>1. MigrateInit => MigrateInv
  BY InitMigrate
<1>2. MigrateInv /\ [MigrateNext]_migrateVars => MigrateInv'
  <2> SUFFICES ASSUME MigrateInv, [MigrateNext]_migrateVars PROVE MigrateInv'
    OBVIOUS
  <2>1. CASE ChangeFile
    BY <2>1, ChangeFileKeeps
  <2>2. ASSUME NEW r \in Runners,
               \/ Discover(r) \/ Plan(r)
               \/ ApplyInTransaction(r) \/ ExecuteAutocommit(r) \/ Record(r)
               \/ Kill(r)
        PROVE  MigrateInv'
    BY <2>2, DiscoverKeeps, PlanKeeps, ApplyKeeps, ExecuteKeeps, RecordKeeps, KillKeeps
  <2>3. CASE UNCHANGED migrateVars
    <3>1. UNCHANGED <<files, schema, halfBuilt, table, runner, changes, kills, overlapped, unrecorded>>
      BY <2>3 DEF migrateVars
    <3>2. Types' /\ Met' = Met
      BY <3>1 DEF MigrateInv, Types, Met
    <3>3. (\A r \in Runners : RunInv(runner[r], table, Met))'
      BY <3>1, <3>2 DEF MigrateInv
    <3>4. TransactionalOnce' /\ RecordedWasMet' /\ Orderly'
      BY <3>1 DEF MigrateInv, TransactionalOnce, RecordedWasMet, Taken,
                  Orderly, Alone, Above, Accounted, Ascends
    <3> QED
      BY <3>2, <3>3, <3>4 DEF MigrateInv
  <2> QED
    BY <2>1, <2>2, <2>3 DEF MigrateNext
<1> QED
  BY <1>1, <1>2, PTL DEF MigrateSpec

-----------------------------------------------------------------------------
(* What the runs check, of every instance.                                 *)

(* The database takes the files in ascending order and each once, unless   *)
(* two runs overlapped, and the files some run did not get to record aside *)
(* (migrate.py, run): the order of discover and check_ordering, together   *)
(* with the row of every other file, are enough, whatever fails.           *)
THEOREM SchemaStaysOrdered == MigrateSpec => []SchemaIsOrdered
<1>1. MigrateInv => SchemaIsOrdered
  BY DEF MigrateInv, Orderly, Ascends, SchemaIsOrdered
<1> QED
  BY <1>1, MigrateInvariant, PTL

(* Whoever overlaps or is killed, schema_migrations tells the truth: a     *)
(* transactional file is in the schema once and as recorded, a row stands  *)
(* for a file the database met, and a run that is done has left nothing    *)
(* out (_apply_in_transaction, _record_sql).                               *)
THEOREM TableTellsTheTruth == MigrateSpec => []RecordsAreTrue
<1>1. MigrateInv => RecordsAreTrue
  <2> SUFFICES ASSUME MigrateInv PROVE RecordsAreTrue
    OBVIOUS
  <2>1. DOMAIN files \subseteq Versions /\ DOMAIN table \subseteq Versions
        /\ Range(files) \subseteq Contents /\ Range(table) \subseteq Contents
    BY ListingsAre DEF MigrateInv, Types, Range
  <2>2. ASSUME NEW r \in Runners
        PROVE  /\ runner[r].pc \in Over \cup {"idle", "discovered", "applying", "recording"}
               /\ runner[r].todo \subseteq DOMAIN runner[r].plan
               /\ (runner[r].pc \in {"applying", "recording"} => runner[r].todo # {})
    BY DEF MigrateInv, Types, Holdings, RunInv, Active, Working
  <2>3. MigrateTypeOK
    BY <2>1, <2>2 DEF MigrateInv, Types, MigrateTypeOK, Files
  <2>4. DoneMeansApplied
    BY DEF MigrateInv, RunInv, Recorded, DoneMeansApplied
  <2> QED
    BY <2>3, <2>4 DEF MigrateInv, RecordsAreTrue
<1> QED
  BY <1>1, MigrateInvariant, PTL

(* Nothing is applied on top of a disagreement (verify_applied_checksums,  *)
(* check_ordering): the run whose step changes the schema has files that   *)
(* agree with every row it read, all below the one it applies.             *)
THEOREM NothingOnADisagreement == MigrateSpec => AppliesOnAgreement
<1> DEFINE A == \A r \in Runners :
                  (schema' # schema /\ runner'[r] # runner[r]) =>
                    \A w \in DOMAIN runner[r].seen :
                      /\ w \in DOMAIN runner[r].plan /\ runner[r].plan[w] = runner[r].seen[w]
                      /\ w < First(runner[r].todo)
<1>1. MigrateInv /\ [MigrateNext]_migrateVars => [A]_migrateVars
  <2> SUFFICES ASSUME MigrateInv, MigrateNext,
                      NEW r \in Runners, schema' # schema, runner'[r] # runner[r],
                      NEW w \in DOMAIN runner[r].seen
               PROVE  /\ w \in DOMAIN runner[r].plan /\ runner[r].plan[w] = runner[r].seen[w]
                      /\ w < First(runner[r].todo)
    OBVIOUS
  <2>1. PICK q \in Runners : runner[q].pc = "applying" /\ runner' = [runner EXCEPT ![q] = runner'[q]]
    <3>1. PICK q \in Runners : ApplyInTransaction(q) \/ ExecuteAutocommit(q)
      BY DEF MigrateNext, ChangeFile, Discover, Plan, Record, Kill
    <3>2. runner[q].pc = "applying" /\ (Advance(q) \/ Fail(q) \/ runner' = [runner EXCEPT ![q].pc = "recording"])
      BY <3>1 DEF ApplyInTransaction, ExecuteAutocommit, WriteRow
    <3> QED
      BY <3>2 DEF Advance, Fail, MigrateInv, Types
  <2>2. r = q
    BY <2>1 DEF MigrateInv, Types
  <2>3. Agrees(runner[r]) /\ runner[r].todo # {} /\ runner[r].todo \in SUBSET Versions
    BY <2>1, <2>2 DEF MigrateInv, Types, RunInv, Holdings, Working
  <2>4. First(runner[r].todo) \in runner[r].todo
    BY <2>3, FirstIsLeast
  <2> QED
    BY <2>3, <2>4 DEF Agrees, UnchangedFiles
<1> HIDE DEF A
<1>2. MigrateInv /\ [MigrateNext]_migrateVars => [A]_migrateVars
  BY <1>1
<1> QED
  BY <1>2, MigrateInvariant, PTL DEF MigrateSpec, AppliesOnAgreement, A
=============================================================================
