----------------------------- MODULE DataUpgrade -----------------------------
(***************************************************************************)
(* The upgrade of the data files (time zones, phone numbers, taboo): a     *)
(* package that is newer than the data in use is verified, copied file by  *)
(* file into the safe directory, and the safe directory is mounted over    *)
(* the data.  UpgradeUtils has the steps.  Their caller is not in the      *)
(* repository; it is taken to call them in this order, each after the      *)
(* success of the one before, and to start again after a failure or after  *)
(* its process died.  A package is replaced only while the device is off.  *)
(*                                                                         *)
(* One step is one verification, one file copied or removed, one system    *)
(* call.  An operator named X_Y, before X, is X with a slip Y: the         *)
(* properties are checked to fail when it takes the place of X.            *)
(***************************************************************************)
EXTENDS Integers, FiniteSets, SequencesExt

CONSTANTS
    Packages,      \* the packages a device may get
    Files,         \* names of files, the version file among them
    VERSION_FILE,
    Manifest,      \* the names in a package's manifest, in its order
    VersionLines,  \* the version file of a package, and of the data as built
    BuiltIn,       \* the data as built
    Numbers,       \* the numbers of a version
    NotNumber,     \* a part of a version that is not a number
    None,          \* no file
    Partial,       \* a file whose copy was cut short
    Faults,        \* what may fail
    MaxFaults,     \* bound on the failures
    MaxStops       \* bound on the ends of the process and the restarts

AllFaults == {"verify", "dir", "remove", "copy", "mount", "remount", "unmount", "stop", "boot"}
VERSION_SIZE == 4

ASSUME PackagesAssumption ==
    /\ {BuiltIn, None, Partial} \cap Packages = {} /\ BuiltIn \notin {None, Partial}
    /\ None # Partial /\ VERSION_FILE \in Files
    /\ Manifest \in [Packages -> Seq(Files)]
    /\ \A p \in Packages : VERSION_FILE \in ToSet(Manifest[p]) /\ IsInjective(Manifest[p])
\* A version has numbers, also the empty one that stands for none.
ASSUME NumbersAssumption ==
    /\ NotNumber \notin Int
    /\ \A v \in DOMAIN Numbers : Numbers[v] \in Seq(Int \cup {NotNumber})
ASSUME BoundsAssumption ==
    /\ IsFiniteSet(Files) /\ Faults \subseteq AllFaults
    /\ MaxFaults \in Nat /\ MaxStops \in Nat

VARIABLES
    package,     \* the package on the device
    dst,         \* the safe directory: the package each file comes from
    mounted,     \* the mounts of the safe directory over the data, the last first
    pc,          \* what the caller is at
    next,        \* CopyDataFile: the next file of the list
    clearing,    \* ClearDir: the files it has yet to remove
    failed,      \* what failed in this attempt
    faults, stops

vars == <<package, dst, mounted, pc, next, clearing, failed, faults, stops>>

Labels == {"idle", "verify", "begin", "clear", "copy", "clean", "mount", "remount", "unmount"}

Fault(f) == /\ f \in Faults /\ faults < MaxFaults /\ faults' = faults + 1
            /\ failed' = failed \cup {f}
NoFault == UNCHANGED <<failed, faults>>
Goto(label) == pc' = label

-----------------------------------------------------------------------------
(* Versions.  A line of a version file is the sequence of its parts, which "=" *)
(* separates.                                                                  *)

\* The list of parts is not emptied from line to line.
LoadFileVersion(lines) ==
    LET Read(s, line) ==
            LET strs == s.strs \o line
            IN  IF s.found \/ Len(strs) < 2 \/ strs[1] # "version"
                THEN [s EXCEPT !.strs = strs]
                ELSE [strs |-> strs, found |-> TRUE, version |-> strs[2]]
    IN  FoldLeft(Read, [strs |-> <<>>, found |-> FALSE, version |-> ""], lines).version

ASSUME VersionsAssumption ==
    \A p \in Packages \cup {BuiltIn} :
        LoadFileVersion(VersionLines[p]) \in DOMAIN Numbers \cup {""}

CompareVersion_EachPart(preVersion, curVersion) ==
    LET pre == Numbers[preVersion]
        cur == Numbers[curVersion]
    IN  Len(pre) = VERSION_SIZE /\ Len(cur) = VERSION_SIZE
            /\ \E i \in 1..VERSION_SIZE : NotNumber \notin {pre[i], cur[i]} /\ pre[i] < cur[i]
\* The first difference decides; what comes after it is not looked at.
CompareVersion(preVersion, curVersion) ==
    LET pre == Numbers[preVersion]
        cur == Numbers[curVersion]
    IN  /\ Len(pre) = VERSION_SIZE /\ Len(cur) = VERSION_SIZE
        /\ \E i \in 1..VERSION_SIZE :
               /\ \A j \in 1..i : NotNumber \notin {pre[j], cur[j]}
               /\ \A j \in 1..(i - 1) : pre[j] = cur[j]
               /\ pre[i] < cur[i]

CheckIfUpdateNecessary(updateLines, localLines) ==
    LET update == LoadFileVersion(updateLines)
        local == LoadFileVersion(localLines)
    IN  local # "" /\ update # "" /\ CompareVersion(local, update)

\* The version file the programs read: the data's, or the one that is mounted over it.
LocalLines ==
    IF mounted = <<>> THEN VersionLines[BuiltIn]
    ELSE IF dst[VERSION_FILE] \in Packages THEN VersionLines[dst[VERSION_FILE]] ELSE <<>>

-----------------------------------------------------------------------------
(* The attempt. *)

\* The caller begins, with an empty list of files.
Begin ==
    /\ pc = "idle"
    /\ CheckIfUpdateNecessary(VersionLines[package], LocalLines)
    /\ Goto("verify")
    /\ failed' = {}
    /\ UNCHANGED <<package, dst, mounted, next, clearing, faults, stops>>

\* The list becomes the manifest's.
CheckFileIntegrity ==
    /\ pc = "verify"
    /\ \/ Goto("begin") /\ NoFault
       \/ Goto("idle") /\ Fault("verify")
    /\ UNCHANGED <<package, dst, mounted, next, clearing, stops>>

\* CopyDataFile, until ClearDir.
CopyDataFile ==
    /\ pc = "begin"
    /\ \/ /\ Goto("clear") /\ NoFault
          /\ next' = 1
          /\ clearing' = {f \in Files : dst[f] # None}
       \/ Goto("idle") /\ Fault("dir") /\ UNCHANGED <<next, clearing>>
    /\ UNCHANGED <<package, dst, mounted, stops>>

\* ClearDir removes what the directory holds; an error is only written to the log.
ClearEntry(f) ==
    /\ pc \in {"clear", "clean"}
    /\ f \in clearing
    /\ clearing' = clearing \ {f}
    /\ \/ dst' = [dst EXCEPT ![f] = None] /\ NoFault
       \/ UNCHANGED dst /\ Fault("remove")
    /\ UNCHANGED <<package, mounted, pc, next, stops>>

ClearDir_AfterwardsOnly ==
    /\ pc = "clear"
    /\ Goto("copy")
    /\ UNCHANGED <<package, dst, mounted, next, clearing, failed, faults, stops>>
ClearDir ==
    /\ pc = "clear"
    /\ clearing = {}
    /\ Goto("copy")
    /\ UNCHANGED <<package, dst, mounted, next, clearing, failed, faults, stops>>

CopySingleFile_Skips(f) ==
    \/ /\ dst' = [dst EXCEPT ![f] = IF dst[f] = None THEN package ELSE dst[f]]
       /\ next' = next + 1
       /\ UNCHANGED <<pc, clearing, failed, faults>>
    \/ /\ dst[f] = None /\ Fault("copy")
       /\ dst' \in {dst, [dst EXCEPT ![f] = Partial]}
       /\ clearing' = {g \in Files : dst'[g] # None}
       /\ Goto("clean") /\ UNCHANGED next
\* FileCopy does not overwrite a file, and may fail with part of it written.
CopySingleFile(f) ==
    \/ /\ dst[f] = None
       /\ dst' = [dst EXCEPT ![f] = package]
       /\ next' = next + 1
       /\ UNCHANGED <<pc, clearing, failed, faults>>
    \/ /\ \/ dst[f] # None /\ UNCHANGED <<dst, failed, faults>>
          \/ /\ dst[f] = None /\ Fault("copy")
             /\ dst' \in {dst, [dst EXCEPT ![f] = Partial]}
       /\ clearing' = {g \in Files : dst'[g] # None}
       /\ Goto("clean") /\ UNCHANGED next

\* CopyDataFile, one file of the list.
CopyNext ==
    /\ pc = "copy"
    /\ next <= Len(Manifest[package])
    /\ CopySingleFile(Manifest[package][next])
    /\ UNCHANGED <<package, mounted, stops>>

\* CopyDataFile returns TRUE.
CopySucceeds ==
    /\ pc = "copy"
    /\ next > Len(Manifest[package])
    /\ Goto("mount")
    /\ UNCHANGED <<package, dst, mounted, next, clearing, failed, faults, stops>>

\* CopyDataFile returns FALSE.
CopyFails ==
    /\ pc = "clean"
    /\ clearing = {}
    /\ Goto("idle")
    /\ UNCHANGED <<package, dst, mounted, next, clearing, failed, faults, stops>>

-----------------------------------------------------------------------------
(* FileDirMount. *)

Mount ==
    /\ pc = "mount"
    /\ \/ mounted' = <<"rw">> \o mounted /\ Goto("remount") /\ NoFault
       \/ UNCHANGED mounted /\ Goto("idle") /\ Fault("mount")
    /\ UNCHANGED <<package, dst, next, clearing, stops>>

Remount ==
    /\ pc = "remount"
    /\ \/ mounted' = <<"ro">> \o Tail(mounted) /\ Goto("idle") /\ NoFault
       \/ UNCHANGED mounted /\ Goto("unmount") /\ Fault("remount")
    /\ UNCHANGED <<package, dst, next, clearing, stops>>

Unmount_Forgotten ==
    /\ pc = "unmount"
    /\ Goto("idle")
    /\ UNCHANGED <<package, dst, mounted, next, clearing, failed, faults, stops>>
Unmount ==
    /\ pc = "unmount"
    /\ \/ mounted' = Tail(mounted) /\ NoFault
       \/ UNCHANGED mounted /\ Fault("unmount")
    /\ Goto("idle")
    /\ UNCHANGED <<package, dst, next, clearing, stops>>

-----------------------------------------------------------------------------
(* The process and the device. *)

Stopped ==
    /\ stops < MaxStops /\ stops' = stops + 1
    /\ Goto("idle") /\ next' = 1 /\ clearing' = {}
    /\ UNCHANGED faults

\* What a copy was at when it is cut short.
CutShort ==
    \/ UNCHANGED dst
    \/ /\ pc = "copy" /\ next <= Len(Manifest[package])
       /\ dst[Manifest[package][next]] = None
       /\ dst' = [dst EXCEPT ![Manifest[package][next]] = Partial]

Stop ==
    /\ "stop" \in Faults /\ pc # "idle"
    /\ Stopped /\ CutShort
    /\ failed' = failed \cup {"stop"}
    /\ UNCHANGED <<package, mounted>>

\* The device starts again, without its mounts and perhaps with another package.
Boot ==
    /\ "boot" \in Faults
    /\ Stopped /\ CutShort
    /\ package' \in Packages
    /\ mounted' = <<>> /\ failed' = {}

-----------------------------------------------------------------------------
Init ==
    /\ package \in Packages
    /\ dst = [f \in Files |-> None]
    /\ mounted = <<>>
    /\ pc = "idle" /\ next = 1 /\ clearing = {}
    /\ failed = {}
    /\ faults = 0 /\ stops = 0

Next ==
    \/ Begin \/ CheckFileIntegrity \/ CopyDataFile
    \/ \E f \in Files : ClearEntry(f)
    \/ ClearDir \/ CopyNext \/ CopySucceeds \/ CopyFails
    \/ Mount \/ Remount \/ Unmount
    \/ Stop \/ Boot

Spec == Init /\ [][Next]_vars

-----------------------------------------------------------------------------
(* Properties. *)

\* Every variable holds a value of its type.
TypeOK ==
    /\ package \in Packages
    /\ dst \in [Files -> Packages \cup {None, Partial}]
    /\ mounted \in Seq({"rw", "ro"})
    /\ pc \in Labels
    /\ next \in Nat \ {0}
    /\ clearing \subseteq Files
    /\ failed \subseteq AllFaults
    /\ faults \in Nat /\ stops \in Nat

Complete(p) == \A f \in ToSet(Manifest[p]) : dst[f] = p

NothingElse == \A f \in Files \ ToSet(Manifest[package]) : dst[f] = None

\* What programs see mounted has every file of the package's manifest, each of that
\* package, whatever failed and whenever the process stopped.  It has nothing else,
\* unless ClearDir could not remove a file in this attempt, which it only logs: a file
\* of an older package that the manifest does not list is then mounted with it.
MountedWhole ==
    mounted # <<>> => Complete(package) /\ (NothingElse \/ "remove" \in failed)

\* The data in use never goes back to an older version than the one built in.
NeverOlder ==
    mounted # <<>> =>
        ~CompareVersion(LoadFileVersion(LocalLines), LoadFileVersion(VersionLines[BuiltIn]))

\* A mount that can be written to remains only if taking it back failed as well, or the
\* process stopped before.
WritableOnlyIfStuck ==
    pc = "idle" /\ "rw" \in ToSet(mounted) => failed \cap {"unmount", "stop"} # {}

\* A failed copy leaves nothing in the safe directory, except what could not be removed.
FailureLeavesNothing ==
    [][ pc = "clean" /\ pc' = "idle" /\ stops' = stops /\ "remove" \notin failed
            => \A f \in Files : dst'[f] = None ]_vars

\* Whatever earlier attempts, stops and restarts left behind, an attempt fails to copy
\* only if something fails in it.
RetryRepairs ==
    [][ pc # "clean" /\ pc' = "clean" => failed' # {} ]_vars

=============================================================================
