--------------------------- MODULE DataUpgradeProofs ---------------------------
(***************************************************************************)
(* For any packages, any versions and any number of failures, stops and    *)
(* restarts: what is mounted has all files of the package, and nothing     *)
(* else that could be removed, and is never older than the data built in;  *)
(* what fails or stops is repaired by the next attempt, and leaves no      *)
(* directory that can be written to.                                       *)
(***************************************************************************)
EXTENDS DataUpgrade, TLAPS

\* The files of the list before the next one are there.
CopiedSoFar ==
    pc = "copy" =>
        \A i \in 1..Len(Manifest[package]) : i < next => dst[Manifest[package][i]] = package

Ready == pc \in {"mount", "remount", "unmount"} => Complete(package)

FirstFirst == pc = "clear" => next = 1

Mounting == pc \in {"remount", "unmount"} => mounted # <<>>

\* Nothing but the mounting itself is at work once the directory is mounted.
QuietWhileMounted == mounted # <<>> => pc \in {"idle", "remount", "unmount"}

\* The listed files of what is mounted.
ListedMounted == mounted # <<>> => Complete(package)

UInv ==
    /\ TypeOK /\ CopiedSoFar /\ Ready /\ FirstFirst /\ Mounting
    /\ QuietWhileMounted /\ ListedMounted

-----------------------------------------------------------------------------
\* No version is newer than itself: LoadFileVersion and CompareVersion never find an
\* upgrade from a package to the same package.
LEMMA NotNewerThanItself ==
    ASSUME NEW p \in Packages
    PROVE  ~CheckIfUpdateNecessary(VersionLines[p], VersionLines[p])
<1> DEFINE v == LoadFileVersion(VersionLines[p])
<1>1. v \in DOMAIN Numbers \cup {""}
  BY VersionsAssumption
<1> HIDE DEF v
<1>2. ASSUME v # "", CompareVersion(v, v) PROVE FALSE
  <2>1. Numbers[v] \in Seq(Int \cup {NotNumber})
    BY <1>1, <1>2, NumbersAssumption
  <2>2. PICK i \in 1..VERSION_SIZE :
            /\ \A j \in 1..i : NotNumber \notin {Numbers[v][j], Numbers[v][j]}
            /\ Numbers[v][i] < Numbers[v][i]
    BY <1>2 DEF CompareVersion
  <2>3. Len(Numbers[v]) = VERSION_SIZE
    BY <1>2 DEF CompareVersion
  <2>4. Numbers[v][i] \in Int
    BY <2>1, <2>2, <2>3 DEF VERSION_SIZE
  <2> QED BY <2>2, <2>4
<1> QED BY <1>2 DEF CheckIfUpdateNecessary, v

LEMMA VersionFileListed ==
    ASSUME NEW p \in Packages
    PROVE  \E i \in 1..Len(Manifest[p]) : Manifest[p][i] = VERSION_FILE
BY PackagesAssumption DEF ToSet

LEMMA ManifestTyped ==
    ASSUME NEW p \in Packages, NEW i \in 1..Len(Manifest[p])
    PROVE  Manifest[p][i] \in Files
BY PackagesAssumption

\* The programs read the version of the package that is mounted.
LEMMA NothingBeginsWhileMounted ==
    ASSUME UInv, mounted # <<>> PROVE ~Begin
<1>1. package \in Packages
  BY DEF UInv, TypeOK
<1>2. dst[VERSION_FILE] = package
  BY <1>1, VersionFileListed DEF UInv, ListedMounted, Complete, ToSet
<1>3. LocalLines = VersionLines[package]
  BY <1>1, <1>2 DEF LocalLines
<1> QED BY <1>1, <1>3, NotNewerThanItself DEF Begin

-----------------------------------------------------------------------------
LEMMA UInitial == Init => UInv
BY PackagesAssumption
   DEF Init, UInv, TypeOK, Labels, CopiedSoFar, Ready, FirstFirst, Mounting, QuietWhileMounted,
              ListedMounted

\* The type of the variables that most steps leave alone or set as Fault does.
LEMMA FaultTyped ==
    ASSUME TypeOK, NEW f \in AllFaults, Fault(f)
    PROVE  failed' \subseteq AllFaults /\ faults' \in Nat
BY DEF TypeOK, Fault

LEMMA CopyNextKeeps == ASSUME UInv, CopyNext PROVE UInv'
<1> DEFINE f == Manifest[package][next]
<1> USE DEF UInv, TypeOK
<1>0. next \in 1..Len(Manifest[package]) /\ package \in Packages
  BY PackagesAssumption DEF CopyNext
<1>1. f \in Files
  BY <1>0, ManifestTyped
<1>2. mounted = <<>> /\ UNCHANGED <<package, mounted, stops>> /\ pc = "copy"
  BY DEF CopyNext, QuietWhileMounted
<1>3. CopySingleFile(f)
  BY DEF CopyNext
<1> HIDE DEF f
<1>4. CASE /\ dst[f] = None /\ dst' = [dst EXCEPT ![f] = package] /\ next' = next + 1
           /\ UNCHANGED <<pc, clearing, failed, faults>>
  <2>1. TypeOK'
    BY <1>1, <1>2, <1>4
  <2>2. CopiedSoFar'
    <3> SUFFICES ASSUME NEW i \in 1..Len(Manifest[package]), i < next + 1
                 PROVE  dst'[Manifest[package][i]] = package
      BY <1>2, <1>4 DEF CopiedSoFar
    <3>1. CASE i = next
      BY <3>1, <1>1, <1>4 DEF f
    <3>2. CASE i < next
      <4>1. dst[Manifest[package][i]] = package /\ Manifest[package][i] \in Files
        BY <3>2, <1>0, <1>2, ManifestTyped DEF CopiedSoFar
      <4> QED BY <4>1, <1>1, <1>4
    <3> QED BY <3>1, <3>2
  <2> QED BY <2>1, <2>2, <1>2, <1>4 DEF Ready, FirstFirst, Mounting, QuietWhileMounted,
              ListedMounted
<1>5. CASE /\ pc' = "clean" /\ UNCHANGED next
           /\ dst' \in {dst, [dst EXCEPT ![f] = Partial]}
           /\ clearing' = {g \in Files : dst'[g] # None}
           /\ UNCHANGED <<failed, faults>> \/ Fault("copy")
  <2>1. failed' \subseteq AllFaults /\ faults' \in Nat
    BY <1>5, FaultTyped DEF AllFaults
  <2>2. TypeOK'
    BY <2>1, <1>1, <1>2, <1>5 DEF Labels
  <2> QED BY <2>2, <1>2, <1>5 DEF CopiedSoFar, Ready, FirstFirst, Mounting, QuietWhileMounted,
              ListedMounted
<1> QED BY <1>3, <1>4, <1>5 DEF CopySingleFile, Goto

LEMMA CutShortTyped ==
    ASSUME UInv, CutShort
    PROVE  /\ dst' \in [Files -> Packages \cup {None, Partial}]
           /\ mounted # <<>> => dst' = dst
BY DEF CutShort, UInv, TypeOK, QuietWhileMounted

LEMMA UStep == ASSUME UInv, [Next]_vars PROVE UInv'
<1> USE DEF UInv, TypeOK, Labels, Goto, NoFault
<1>1. CASE Begin
  BY <1>1, NothingBeginsWhileMounted
     DEF Begin, CopiedSoFar, Ready, FirstFirst, Mounting, QuietWhileMounted,
              ListedMounted
<1>2. CASE CheckFileIntegrity
  <2>1. failed' \subseteq AllFaults /\ faults' \in Nat
    BY <1>2, FaultTyped DEF CheckFileIntegrity, AllFaults
  <2> QED BY <2>1, <1>2
          DEF CheckFileIntegrity, CopiedSoFar, Ready, FirstFirst, Mounting, QuietWhileMounted,
              ListedMounted
<1>3. CASE CopyDataFile
  <2>1. failed' \subseteq AllFaults /\ faults' \in Nat
    BY <1>3, FaultTyped DEF CopyDataFile, AllFaults
  <2> QED BY <2>1, <1>3
          DEF CopyDataFile, CopiedSoFar, Ready, FirstFirst, Mounting, QuietWhileMounted,
              ListedMounted
<1>4. ASSUME NEW f \in Files, ClearEntry(f) PROVE UInv'
  <2>1. failed' \subseteq AllFaults /\ faults' \in Nat
    BY <1>4, FaultTyped DEF ClearEntry, AllFaults
  <2>2. dst' \in [Files -> Packages \cup {None, Partial}]
    BY <1>4 DEF ClearEntry
  <2>3. mounted = <<>> /\ UNCHANGED <<package, mounted, pc, next, stops>>
    BY <1>4 DEF ClearEntry, QuietWhileMounted
  <2>4. clearing' \subseteq Files /\ pc \in {"clear", "clean"}
    BY <1>4 DEF ClearEntry
  <2>5. faults' \in Nat /\ failed' \subseteq AllFaults
    BY <2>1
  <2> QED BY <2>2, <2>3, <2>4, <2>5
          DEF CopiedSoFar, Ready, FirstFirst, Mounting, QuietWhileMounted,
              ListedMounted
<1>5. CASE ClearDir
  BY <1>5 DEF ClearDir, CopiedSoFar, Ready, FirstFirst, Mounting, QuietWhileMounted,
              ListedMounted
<1>6. CASE CopyNext
  BY <1>6, CopyNextKeeps
<1>7. CASE CopySucceeds
  <2>1. Complete(package)
    BY <1>7, PackagesAssumption DEF CopySucceeds, CopiedSoFar, Complete, ToSet
  <2> QED BY <2>1, <1>7
          DEF CopySucceeds, CopiedSoFar, Ready, FirstFirst, Mounting, QuietWhileMounted,
              ListedMounted, Complete
<1>8. CASE CopyFails
  BY <1>8 DEF CopyFails, CopiedSoFar, Ready, FirstFirst, Mounting, QuietWhileMounted,
              ListedMounted
<1>9. CASE Mount
  <2>1. failed' \subseteq AllFaults /\ faults' \in Nat
    BY <1>9, FaultTyped DEF Mount, AllFaults
  <2> QED BY <2>1, <1>9
          DEF Mount, CopiedSoFar, Ready, FirstFirst, Mounting, QuietWhileMounted,
              ListedMounted, Complete
<1>10. CASE Remount
  <2>1. failed' \subseteq AllFaults /\ faults' \in Nat
    BY <1>10, FaultTyped DEF Remount, AllFaults
  <2> QED BY <2>1, <1>10
          DEF Remount, CopiedSoFar, Ready, FirstFirst, Mounting, QuietWhileMounted,
              ListedMounted, Complete
<1>11. CASE Unmount
  <2>1. failed' \subseteq AllFaults /\ faults' \in Nat
    BY <1>11, FaultTyped DEF Unmount, AllFaults
  <2>2. mounted # <<>> /\ Complete(package)
    BY <1>11 DEF Unmount, Ready, Mounting
  <2>3. mounted' \in Seq({"rw", "ro"})
    BY <2>2, <1>11 DEF Unmount
  <2>4. UNCHANGED <<package, dst, next, clearing, stops>> /\ pc' = "idle"
    BY <1>11 DEF Unmount
  <2> QED BY <2>1, <2>2, <2>3, <2>4
          DEF CopiedSoFar, Ready, FirstFirst, Mounting, QuietWhileMounted,
              ListedMounted, Complete
<1>12. CASE Stop
  <2>1. dst' \in [Files -> Packages \cup {None, Partial}] /\ (mounted # <<>> => dst' = dst)
    BY <1>12, CutShortTyped DEF Stop
  <2>2. failed' \subseteq AllFaults /\ stops' \in Nat
    BY <1>12 DEF Stop, Stopped, AllFaults
  <2> QED BY <2>1, <2>2, <1>12
          DEF Stop, Stopped, CopiedSoFar, Ready, FirstFirst, Mounting, QuietWhileMounted,
              ListedMounted, Complete
<1>13. CASE Boot
  <2>1. dst' \in [Files -> Packages \cup {None, Partial}]
    BY <1>13, CutShortTyped DEF Boot
  <2> QED BY <2>1, <1>13
          DEF Boot, Stopped, CopiedSoFar, Ready, FirstFirst, Mounting, QuietWhileMounted,
              ListedMounted
<1>14. CASE UNCHANGED vars
  BY <1>14 DEF vars, CopiedSoFar, Ready, FirstFirst, Mounting, QuietWhileMounted,
              ListedMounted, Complete
<1> QED BY <1>1, <1>2, <1>3, <1>4, <1>5, <1>6, <1>7, <1>8, <1>9, <1>10, <1>11, <1>12,
           <1>13, <1>14 DEF Next

-----------------------------------------------------------------------------
(* Files that are not listed: ClearDir has yet to remove them, or has, or      *)
(* could not.                                                                  *)

Removed == pc = "clear" => "remove" \in failed \/ \A f \in Files : dst[f] # None => f \in clearing

Rid ==
    pc \in {"copy", "mount", "remount", "unmount"} \/ mounted # <<>> =>
        "remove" \in failed \/ NothingElse

LEMMA RidKept == ASSUME UInv, Removed, Rid, [Next]_vars PROVE Removed' /\ Rid'
<1> USE DEF Removed, Rid, Goto, NoFault
<1>1. CASE Begin
  <2>1. mounted = <<>>
    BY <1>1, NothingBeginsWhileMounted
  <2> QED BY <1>1, <2>1 DEF Begin
<1>2. CASE CheckFileIntegrity
  <2>1. mounted = <<>>
    BY <1>2 DEF CheckFileIntegrity, UInv, QuietWhileMounted
  <2> QED BY <1>2, <2>1 DEF CheckFileIntegrity
<1>3. CASE CopyDataFile
  <2>1. mounted = <<>>
    BY <1>3 DEF CopyDataFile, UInv, QuietWhileMounted
  <2> QED BY <1>3, <2>1 DEF CopyDataFile
<1>4. ASSUME NEW f \in Files, ClearEntry(f) PROVE Removed' /\ Rid'
  <2>1. mounted = <<>> /\ mounted' = <<>> /\ pc' = pc /\ pc \in {"clear", "clean"}
    BY <1>4 DEF ClearEntry, UInv, QuietWhileMounted
  <2>2. CASE dst' = [dst EXCEPT ![f] = None] /\ NoFault
    BY <1>4, <2>1, <2>2 DEF ClearEntry, UInv, TypeOK
  <2>3. CASE Fault("remove")
    BY <2>1, <2>3 DEF Fault
  <2> QED BY <1>4, <2>2, <2>3 DEF ClearEntry
<1>5. CASE ClearDir
  BY <1>5 DEF ClearDir, NothingElse
<1>6. CASE CopyNext
  <2> DEFINE f == Manifest[package][next]
  <2>1. /\ next \in 1..Len(Manifest[package]) /\ package \in Packages
        /\ mounted = <<>> /\ UNCHANGED <<package, mounted>> /\ pc = "copy" /\ CopySingleFile(f)
    BY <1>6, PackagesAssumption DEF CopyNext, UInv, TypeOK, QuietWhileMounted
  <2>2. f \in ToSet(Manifest[package])
    BY <2>1 DEF ToSet
  <2> HIDE DEF f
  <2>3. CASE dst' = [dst EXCEPT ![f] = package] /\ UNCHANGED <<pc, clearing, failed, faults>>
    BY <2>1, <2>2, <2>3 DEF NothingElse, UInv, TypeOK
  <2>4. CASE pc' = "clean"
    BY <2>1, <2>4
  <2> QED BY <2>1, <2>3, <2>4 DEF CopySingleFile
<1>7. CASE CopySucceeds \/ CopyFails
  <2>1. mounted = <<>>
    BY <1>7 DEF CopySucceeds, CopyFails, UInv, QuietWhileMounted
  <2> QED BY <1>7, <2>1 DEF CopySucceeds, CopyFails, NothingElse
<1>8. CASE Mount \/ Remount \/ Unmount
  BY <1>8 DEF Mount, Remount, Unmount, Fault, NothingElse
<1>9. CASE Stop
  <2>1. UNCHANGED <<package, mounted>> /\ (mounted # <<>> => dst' = dst)
    BY <1>9, CutShortTyped DEF Stop
  <2> QED BY <1>9, <2>1 DEF Stop, Stopped, NothingElse
<1>10. CASE Boot
  BY <1>10 DEF Boot, Stopped
<1>11. CASE UNCHANGED vars
  BY <1>11 DEF vars, NothingElse
<1> QED BY <1>1, <1>2, <1>3, <1>4, <1>5, <1>6, <1>7, <1>8, <1>9, <1>10, <1>11 DEF Next

\* What programs see mounted has each file of the manifest from that package, and nothing
\* else unless a removal failed in this attempt: MountedWhole of the model, for any
\* packages and versions and however many attempts fail or are cut short.
THEOREM WholeWhenMounted == Spec => []MountedWhole
<1>1. Init => Removed /\ Rid
  BY DEF Init, Removed, Rid
<1>2. UInv /\ Removed /\ Rid /\ [Next]_vars => Removed' /\ Rid'
  BY RidKept
<1>3. UInv /\ Rid => MountedWhole
  BY DEF UInv, ListedMounted, Rid, MountedWhole
<1> QED BY <1>1, <1>2, <1>3, UInitial, UStep, PTL DEF Spec

-----------------------------------------------------------------------------
(* Retries: as long as nothing failed, the directory holds what was copied and *)
(* what is still to be removed.                                                *)

ClearedSoFar ==
    pc = "clear" /\ failed = {} => \A f \in Files : dst[f] # None => f \in clearing

OnlyCopied ==
    pc = "copy" /\ failed = {} =>
        \A f \in Files : dst[f] # None =>
            \E i \in 1..Len(Manifest[package]) : i < next /\ Manifest[package][i] = f

RInv == UInv /\ ClearedSoFar /\ OnlyCopied

LEMMA CopyNextKeepsRInv == ASSUME RInv, CopyNext PROVE ClearedSoFar' /\ OnlyCopied'
<1> DEFINE f == Manifest[package][next]
<1> USE DEF RInv, UInv, TypeOK
<1>1. next \in 1..Len(Manifest[package]) /\ f \in Files
  BY PackagesAssumption, ManifestTyped DEF CopyNext
<1>2. UNCHANGED package /\ pc = "copy" /\ CopySingleFile(f)
  BY DEF CopyNext
<1>3. Manifest[package][next] = f
  OBVIOUS
<1> HIDE DEF f
<1>4. CASE pc' = "clean"
  BY <1>4 DEF ClearedSoFar, OnlyCopied
<1>5. CASE /\ dst' = [dst EXCEPT ![f] = package] /\ next' = next + 1
           /\ UNCHANGED <<pc, clearing, failed, faults>>
  <2> SUFFICES ASSUME failed = {}, NEW g \in Files, dst'[g] # None
               PROVE  \E i \in 1..Len(Manifest[package]) :
                          i < next + 1 /\ Manifest[package][i] = g
    BY <1>2, <1>5 DEF ClearedSoFar, OnlyCopied
  <2>1. CASE g = f
    BY <2>1, <1>1, <1>3
  <2>2. CASE g # f
    <3>1. dst[g] # None
      BY <2>2, <1>5
    <3>2. PICK i \in 1..Len(Manifest[package]) : i < next /\ Manifest[package][i] = g
      BY <3>1, <1>2 DEF OnlyCopied
    <3> QED BY <3>2
  <2> QED BY <2>1, <2>2
<1> QED BY <1>2, <1>4, <1>5 DEF CopySingleFile, Goto

LEMMA RStep == ASSUME RInv, [Next]_vars PROVE RInv'
<1>0. UInv' /\ UInv
  BY UStep DEF RInv
<1> SUFFICES ClearedSoFar' /\ OnlyCopied'
  BY <1>0 DEF RInv
<1> USE DEF Goto, NoFault, ClearedSoFar, OnlyCopied
<1>1. CASE CopyDataFile
  BY <1>1 DEF CopyDataFile
<1>2. ASSUME NEW f \in Files, ClearEntry(f) PROVE ClearedSoFar' /\ OnlyCopied'
  <2>1. CASE dst' = [dst EXCEPT ![f] = None] /\ NoFault
    BY <2>1, <1>0, <1>2 DEF ClearEntry, RInv, UInv, TypeOK
  <2>2. CASE Fault("remove")
    BY <2>2, <1>2 DEF ClearEntry, Fault
  <2> QED BY <1>2, <2>1, <2>2 DEF ClearEntry
<1>3. CASE ClearDir
  BY <1>3 DEF ClearDir, RInv
<1>4. CASE CopyNext
  BY <1>4, CopyNextKeepsRInv
<1>5. CASE Begin \/ CheckFileIntegrity \/ CopySucceeds \/ CopyFails
  BY <1>5 DEF Begin, CheckFileIntegrity, CopySucceeds, CopyFails
<1>6. CASE Mount \/ Remount \/ Unmount
  BY <1>6 DEF Mount, Remount, Unmount
<1>7. CASE Stop \/ Boot
  BY <1>7 DEF Stop, Boot, Stopped
<1>8. CASE UNCHANGED vars
  BY <1>8 DEF vars, RInv
<1> QED BY <1>0, <1>1, <1>2, <1>3, <1>4, <1>5, <1>6, <1>7, <1>8 DEF Next

\* The next file of the list is not there yet: names do not occur twice.
LEMMA FailsOnlyByFault ==
    ASSUME RInv, [Next]_vars, pc # "clean", pc' = "clean" PROVE failed' # {}
<1> USE DEF RInv, UInv, TypeOK
<1>1. CopyNext
  BY DEF Next, vars, Begin, CheckFileIntegrity, CopyDataFile, ClearEntry, ClearDir,
         CopySucceeds, CopyFails, Mount, Remount, Unmount, Stop, Boot, Stopped, Goto
<1>2. /\ next \in 1..Len(Manifest[package]) /\ pc = "copy"
      /\ CopySingleFile(Manifest[package][next])
  BY <1>1, PackagesAssumption DEF CopyNext
<1>3. CASE dst[Manifest[package][next]] # None /\ UNCHANGED failed
  <2> SUFFICES ASSUME failed = {} PROVE FALSE
    BY <1>3
  <2>1. PICK i \in 1..Len(Manifest[package]) :
            i < next /\ Manifest[package][i] = Manifest[package][next]
    BY <1>2, <1>3, ManifestTyped DEF OnlyCopied
  <2> QED BY <2>1, <1>2, PackagesAssumption DEF IsInjective
<1>4. CASE Fault("copy")
  BY <1>4 DEF Fault
<1> QED BY <1>2, <1>3, <1>4 DEF CopySingleFile, Goto

\* Whatever earlier attempts left behind, CopyDataFile fails only if something fails in
\* this attempt: RetryRepairs of the model.
THEOREM RetriesRepair == Spec => RetryRepairs
<1>1. Init => RInv
  BY UInitial DEF Init, RInv, ClearedSoFar, OnlyCopied
<1>2. RInv /\ [Next]_vars => RInv'
  BY RStep
<1>3. RInv /\ [Next]_vars => [pc # "clean" /\ pc' = "clean" => failed' # {}]_vars
  BY FailsOnlyByFault
<1> QED BY <1>1, <1>2, <1>3, PTL DEF Spec, RetryRepairs

-----------------------------------------------------------------------------
(* Versions: a package that is mounted, or about to be, was found to be newer  *)
(* than the data as built, and newer excludes older.                           *)

\* What CompareVersion finds one way it does not find the other way: both stop at the
\* first difference.
LEMMA NewerIsNotOlder ==
    ASSUME NEW v \in DOMAIN Numbers, NEW w \in DOMAIN Numbers, CompareVersion(v, w)
    PROVE  ~CompareVersion(w, v)
<1> SUFFICES ASSUME CompareVersion(w, v) PROVE FALSE
  OBVIOUS
<1> DEFINE x == Numbers[v]
           y == Numbers[w]
<1>1. PICK i \in 1..VERSION_SIZE :
          /\ \A j \in 1..i : NotNumber \notin {x[j], y[j]}
          /\ \A j \in 1..(i - 1) : x[j] = y[j]
          /\ x[i] < y[i]
  BY DEF CompareVersion
<1>2. PICK k \in 1..VERSION_SIZE :
          /\ \A j \in 1..k : NotNumber \notin {y[j], x[j]}
          /\ \A j \in 1..(k - 1) : y[j] = x[j]
          /\ y[k] < x[k]
  BY DEF CompareVersion
<1>3. Len(x) = VERSION_SIZE /\ Len(y) = VERSION_SIZE
  BY DEF CompareVersion
<1>4. x \in Seq(Int \cup {NotNumber}) /\ y \in Seq(Int \cup {NotNumber})
  BY NumbersAssumption
<1> HIDE DEF x, y
<1>5. \A j \in 1..VERSION_SIZE : x[j] \in Int \cup {NotNumber} /\ y[j] \in Int \cup {NotNumber}
  <2> DEFINE T == Int \cup {NotNumber}
  <2>1. x \in Seq(T) /\ y \in Seq(T)
    BY <1>4
  <2> HIDE DEF T
  <2>2. \A j \in 1..VERSION_SIZE : x[j] \in T /\ y[j] \in T
    BY <1>3, <2>1
  <2> QED BY <2>2 DEF T
<1>6. x[i] \in Int /\ y[i] \in Int /\ x[k] \in Int /\ y[k] \in Int
  BY <1>1, <1>2, <1>5 DEF VERSION_SIZE
<1>7. CASE i < k
  BY <1>1, <1>2, <1>6, <1>7 DEF VERSION_SIZE
<1>8. CASE k < i
  BY <1>1, <1>2, <1>6, <1>8 DEF VERSION_SIZE
<1>9. CASE i = k
  BY <1>1, <1>2, <1>6, <1>9
<1> QED BY <1>7, <1>8, <1>9 DEF VERSION_SIZE

NewerThanBuiltIn == CheckIfUpdateNecessary(VersionLines[package], VersionLines[BuiltIn])

\* From the beginning of an attempt to the next start of the device.
FoundNewer == pc # "idle" \/ mounted # <<>> => NewerThanBuiltIn

LEMMA FoundNewerKept == ASSUME UInv, FoundNewer, [Next]_vars PROVE FoundNewer'
<1> USE DEF FoundNewer, NewerThanBuiltIn, Goto
<1>1. CASE Begin
  <2>1. mounted = <<>>
    BY <1>1, NothingBeginsWhileMounted
  <2> QED BY <1>1, <2>1 DEF Begin, LocalLines
<1>2. CASE CheckFileIntegrity \/ CopyDataFile \/ ClearDir \/ CopySucceeds \/ CopyFails
  BY <1>2 DEF CheckFileIntegrity, CopyDataFile, ClearDir, CopySucceeds, CopyFails
<1>3. ASSUME NEW f \in Files, ClearEntry(f) PROVE FoundNewer'
  BY <1>3 DEF ClearEntry
<1>4. CASE CopyNext
  BY <1>4 DEF CopyNext
<1>5. CASE Mount \/ Remount \/ Unmount
  BY <1>5 DEF Mount, Remount, Unmount
<1>6. CASE Stop \/ Boot
  BY <1>6 DEF Stop, Boot, Stopped
<1>7. CASE UNCHANGED vars
  BY <1>7 DEF vars
<1> QED BY <1>1, <1>2, <1>3, <1>4, <1>5, <1>6, <1>7 DEF Next

LEMMA NewerStaysInUse == ASSUME UInv, FoundNewer PROVE NeverOlder
<1> SUFFICES ASSUME mounted # <<>>
             PROVE  ~CompareVersion(LoadFileVersion(LocalLines),
                                    LoadFileVersion(VersionLines[BuiltIn]))
  BY DEF NeverOlder
<1>1. package \in Packages
  BY DEF UInv, TypeOK
<1>2. dst[VERSION_FILE] = package
  BY <1>1, VersionFileListed DEF UInv, ListedMounted, Complete, ToSet
<1>3. LocalLines = VersionLines[package]
  BY <1>1, <1>2 DEF LocalLines
<1> DEFINE mine == LoadFileVersion(VersionLines[package])
           built == LoadFileVersion(VersionLines[BuiltIn])
<1>4. mine # "" /\ built # "" /\ CompareVersion(built, mine)
  BY DEF FoundNewer, NewerThanBuiltIn, CheckIfUpdateNecessary
<1>5. mine \in DOMAIN Numbers /\ built \in DOMAIN Numbers
  BY <1>1, <1>4, VersionsAssumption
<1> HIDE DEF mine, built
<1>6. ~CompareVersion(mine, built)
  BY <1>4, <1>5, NewerIsNotOlder
<1> QED BY <1>3, <1>6 DEF mine, built

\* The data in use is never of a version older than the one built in: NeverOlder of the
\* model, for any versions, and whichever packages the device gets in turn.
THEOREM NewestInUse == Spec => []NeverOlder
<1>1. Init => FoundNewer
  BY DEF Init, FoundNewer
<1>2. UInv /\ FoundNewer /\ [Next]_vars => FoundNewer'
  BY FoundNewerKept
<1>3. UInv /\ FoundNewer => NeverOlder
  BY NewerStaysInUse
<1> QED BY <1>1, <1>2, <1>3, UInitial, UStep, PTL DEF Spec

-----------------------------------------------------------------------------
(* Mounts: there is one while it is being changed, and one that can be written *)
(* to is on its way to the other kind or stuck.                                *)

OneMount == pc \in {"remount", "unmount"} => mounted = <<"rw">>

Stuck == failed \cap {"unmount", "stop"} # {}

WritableForReason == "rw" \in ToSet(mounted) => pc \in {"remount", "unmount"} \/ Stuck

MInv == UInv /\ OneMount /\ WritableForReason

LEMMA MStep == ASSUME MInv, [Next]_vars PROVE OneMount' /\ WritableForReason'
<1> USE DEF MInv, OneMount, WritableForReason, Stuck, Goto
<1>1. CASE Begin
  <2>1. mounted = <<>> /\ mounted' = <<>>
    BY <1>1, NothingBeginsWhileMounted DEF Begin
  <2> QED BY <1>1, <2>1 DEF Begin, ToSet
<1>2. CASE CheckFileIntegrity \/ CopyDataFile \/ ClearDir \/ CopySucceeds \/ CopyFails
  BY <1>2 DEF CheckFileIntegrity, CopyDataFile, ClearDir, CopySucceeds, CopyFails, Fault, NoFault
<1>3. ASSUME NEW f \in Files, ClearEntry(f) PROVE OneMount' /\ WritableForReason'
  BY <1>3 DEF ClearEntry, Fault, NoFault
<1>4. CASE CopyNext
  BY <1>4 DEF CopyNext, CopySingleFile, Fault
<1>5. CASE Mount
  <2>1. mounted = <<>>
    BY <1>5 DEF Mount, UInv, QuietWhileMounted
  <2>2. CASE mounted' = <<"rw">> \o mounted /\ pc' = "remount"
    BY <2>1, <2>2
  <2>3. CASE UNCHANGED mounted /\ pc' = "idle"
    BY <2>1, <2>3 DEF ToSet
  <2> QED BY <1>5, <2>2, <2>3 DEF Mount
<1>6. CASE Remount
  <2>1. mounted = <<"rw">>
    BY <1>6 DEF Remount
  <2>2. CASE mounted' = <<"ro">> \o Tail(mounted) /\ pc' = "idle"
    <3>1. mounted' = <<"ro">>
      BY <2>1, <2>2
    <3> QED BY <2>2, <3>1 DEF ToSet
  <2>3. CASE UNCHANGED mounted /\ pc' = "unmount"
    BY <2>1, <2>3
  <2> QED BY <1>6, <2>2, <2>3 DEF Remount
<1>7. CASE Unmount
  <2>1. mounted = <<"rw">> /\ pc' = "idle"
    BY <1>7 DEF Unmount
  <2>2. CASE mounted' = Tail(mounted)
    <3>1. mounted' = <<>>
      BY <2>1, <2>2
    <3> QED BY <2>1, <3>1 DEF ToSet
  <2>3. CASE Fault("unmount")
    BY <2>1, <2>3 DEF Fault
  <2> QED BY <1>7, <2>2, <2>3 DEF Unmount
<1>8. CASE Stop
  BY <1>8 DEF Stop, Stopped
<1>9. CASE Boot
  BY <1>9 DEF Boot, Stopped, ToSet
<1>10. CASE UNCHANGED vars
  BY <1>10 DEF vars
<1> QED BY <1>1, <1>2, <1>3, <1>4, <1>5, <1>6, <1>7, <1>8, <1>9, <1>10 DEF Next

\* FileDirMount never leaves a mount that can be written to behind, unless it cannot
\* take it back or is stopped before: WritableOnlyIfStuck of the model.
THEOREM WritableTakenBack == Spec => []WritableOnlyIfStuck
<1>1. Init => MInv
  BY UInitial DEF Init, MInv, OneMount, WritableForReason, ToSet
<1>2. MInv /\ [Next]_vars => MInv'
  BY MStep, UStep DEF MInv
<1>3. MInv => WritableOnlyIfStuck
  BY DEF MInv, WritableForReason, WritableOnlyIfStuck, Stuck
<1> QED BY <1>1, <1>2, <1>3, PTL DEF Spec

-----------------------------------------------------------------------------
(* The cleaning up after a copy that failed. *)

LeftToClean ==
    pc = "clean" /\ "remove" \notin failed => \A f \in Files : dst[f] # None => f \in clearing

LEMMA LeftToCleanKept == ASSUME UInv, LeftToClean, [Next]_vars PROVE LeftToClean'
<1> USE DEF UInv, TypeOK, LeftToClean, Goto, NoFault
<1>1. CASE CopyNext
  BY <1>1 DEF CopyNext, CopySingleFile
<1>2. ASSUME NEW f \in Files, ClearEntry(f) PROVE LeftToClean'
  <2>1. CASE dst' = [dst EXCEPT ![f] = None] /\ NoFault
    BY <2>1, <1>2 DEF ClearEntry
  <2>2. CASE Fault("remove")
    BY <2>2 DEF Fault
  <2> QED BY <1>2, <2>1, <2>2 DEF ClearEntry
<1>3. CASE Begin \/ CheckFileIntegrity \/ CopyDataFile \/ ClearDir \/ CopySucceeds \/ CopyFails
  BY <1>3 DEF Begin, CheckFileIntegrity, CopyDataFile, ClearDir, CopySucceeds, CopyFails
<1>4. CASE Mount \/ Remount \/ Unmount
  BY <1>4 DEF Mount, Remount, Unmount
<1>5. CASE Stop \/ Boot
  BY <1>5 DEF Stop, Boot, Stopped
<1>6. CASE UNCHANGED vars
  BY <1>6 DEF vars
<1> QED BY <1>1, <1>2, <1>3, <1>4, <1>5, <1>6 DEF Next

\* A copy that failed leaves the safe directory empty, if everything could be removed:
\* FailureLeavesNothing of the model.
THEOREM FailuresCleared == Spec => FailureLeavesNothing
<1>1. Init => LeftToClean
  BY DEF Init, LeftToClean
<1>2. UInv /\ LeftToClean /\ [Next]_vars => LeftToClean'
  BY LeftToCleanKept
<1>3. UInv /\ LeftToClean /\ [Next]_vars =>
        [pc = "clean" /\ pc' = "idle" /\ stops' = stops /\ "remove" \notin failed
            => \A f \in Files : dst'[f] = None]_vars
  <2> SUFFICES ASSUME UInv, LeftToClean, [Next]_vars, pc = "clean", pc' = "idle",
                      stops' = stops, "remove" \notin failed
               PROVE  \A f \in Files : dst'[f] = None
    OBVIOUS
  <2>1. CopyFails
    BY DEF UInv, TypeOK, Next, vars, Begin, CheckFileIntegrity, CopyDataFile, ClearEntry,
           ClearDir, CopyNext, CopySucceeds, Mount, Remount, Unmount, Stop, Boot, Stopped, Goto
  <2> QED BY <2>1 DEF CopyFails, LeftToClean
<1> QED BY <1>1, <1>2, <1>3, UInitial, UStep, PTL DEF Spec, FailureLeavesNothing

=============================================================================
