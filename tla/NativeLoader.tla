---------------------------- MODULE NativeLoader ----------------------------
(***************************************************************************)
(* Which native module the plugin gets: the runtime inside the plugin's    *)
(* directory, one repaired from the bundled wheel, or the installed one.   *)
(* A process keeps what it has imported: the package _mnemokernel, and     *)
(* under a name of its own the binary that the package's __init__ imports. *)
(* A plugin is updated and reloaded while the process goes on.             *)
(***************************************************************************)
EXTENDS Naturals

CONSTANTS
  Versions,    \* versions of the native code, in the order of release
  Inspecting,  \* those whose Kernel has inspect_json
  Missing,     \* no such file or module
  MaxLoads     \* bound on the loads in one process

ASSUME LoaderOK == Inspecting \subseteq Versions /\ Missing \notin Versions /\ MaxLoads \in Nat

VARIABLES
  runtime,    \* the version in native_runtime, Missing when the directory is missing
  wheel,      \* the version of the one bundled wheel that fits the platform
  installed,  \* the version installed as a requirement
  broken,     \* the places whose binary cannot be loaded
  package,    \* sys.modules["_mnemokernel"]: where it was found, and its version
  binary,     \* sys.modules["_mnemokernel._mnemokernel"]: its version
  client,     \* the version that the open client calls, Missing when there is none
  loads       \* loads in this process

files == <<runtime, wheel, installed, broken>>

loaderVars == <<files, package, binary, client, loads>>

Places == {"runtime", "repaired", "installed"}

Found(place) ==
  CASE place = "runtime" -> runtime [] place = "repaired" -> wheel [] OTHER -> installed

NoPackage == [place |-> "installed", version |-> Missing]

-----------------------------------------------------------------------------
\* What an import leaves in sys.modules, and whether it raised.
Result(p, b, raised) == [package |-> p, binary |-> b, raised |-> raised]

\* importlib and the package's __init__, "from ._mnemokernel import *" and then
\* the name _mnemokernel. A package in sys.modules is taken as it is. A binary
\* that is still there is not loaded again, and then the name is not bound.
Import(place, r) ==
  LET fresh  == r.package = NoPackage
      exists == Found(place) # Missing
  IN CASE ~fresh -> Result(r.package, r.binary, "nothing")
       [] fresh /\ ~exists -> Result(NoPackage, r.binary, "ImportError")
       [] fresh /\ exists /\ r.binary # Missing -> Result(NoPackage, r.binary, "NameError")
       [] fresh /\ exists /\ r.binary = Missing ->
            IF place \in broken THEN Result(NoPackage, Missing, "ImportError")
            ELSE Result([place |-> place, version |-> Found(place)], Found(place), "nothing")

\* A repaired runtime is extracted into a directory made for it, so what was
\* repaired before is not from it.
Stale(place, p) == p.place # place \/ place = "repaired" \/ p.version \notin Inspecting

\* The package is taken out of sys.modules, its binary is not.
PopStale(place, r) ==
  IF r.package # NoPackage /\ Stale(place, r.package)
  THEN [r EXCEPT !.package = NoPackage] ELSE r

\* _import_runtime: only an ImportError puts back what was there.
ImportRuntime(place, r) ==
  LET got     == Import(place, PopStale(place, r))
      checked == IF got.raised = "nothing" /\ got.package.version \notin Inspecting
                 THEN [got EXCEPT !.raised = "ImportError"] ELSE got
  IN IF checked.raised = "ImportError" THEN [checked EXCEPT !.package = r.package] ELSE checked

\* The installed one is imported as it is, and an error takes it out again.
ImportInstalled(r) ==
  LET got == Import("installed", r)
  IN IF got.raised = "nothing" THEN got ELSE [got EXCEPT !.package = NoPackage]

\* Fault: what is installed goes before the wheel.
LoadInstalledFirst(r) ==
  LET afterRuntime == IF runtime = Missing THEN [r EXCEPT !.raised = "ImportError"]
                      ELSE ImportRuntime("runtime", r)
      afterInstalled == IF afterRuntime.raised = "nothing" THEN afterRuntime
                        ELSE ImportInstalled(afterRuntime)
  IN IF afterInstalled.raised = "nothing" \/ wheel = Missing THEN afterInstalled
     ELSE ImportRuntime("repaired", afterInstalled)

\* _load_native_module: the places are tried in this order until one raises nothing.
LoadNative(r) ==
  LET afterRuntime == IF runtime = Missing THEN [r EXCEPT !.raised = "ImportError"]
                      ELSE ImportRuntime("runtime", r)
      afterWheel   == IF afterRuntime.raised = "nothing" \/ wheel = Missing THEN afterRuntime
                      ELSE ImportRuntime("repaired", afterRuntime)
  IN IF afterWheel.raised = "nothing" THEN afterWheel ELSE ImportInstalled(afterWheel)

-----------------------------------------------------------------------------
\* A release with this loader has a runtime with the inspector. What is installed,
\* and what an earlier release of the plugin imported in this process, may be older.
LoaderInit ==
  /\ \E v \in Inspecting : runtime \in {v, Missing} /\ wheel \in {v, Missing}
  /\ installed \in Versions \cup {Missing}
  /\ broken \in SUBSET Places
  /\ binary \in Versions \cup {Missing}
  /\ package = [place |-> "installed", version |-> binary]
  /\ client = Missing
  /\ loads = 0

\* KernelClient.open in initialize, of a new plugin object. All versions speak
\* one protocol and one schema, so the health check tells them not apart.
LoadClient ==
  /\ client = Missing
  /\ loads < MaxLoads
  /\ LET r == LoadNative(Result(package, binary, "nothing")) IN
       /\ package' = r.package
       /\ binary' = r.binary
       /\ client' = IF r.raised = "nothing" THEN r.package.version ELSE Missing
  /\ loads' = loads + 1
  /\ UNCHANGED files

\* terminate, before the plugin is loaded anew or the process ends.
CloseClient ==
  /\ client # Missing
  /\ client' = Missing
  /\ UNCHANGED <<files, package, binary, loads>>

\* A later release is put into the plugin's directory: a ZIP has its runtime, a
\* source tree has wheels.
UploadRelease(v) ==
  /\ \A old \in {runtime, wheel} \ {Missing} : v > old
  /\ runtime' \in {v, Missing}
  /\ wheel' \in {v, Missing}
  /\ broken' = broken \ {"runtime", "repaired"}
  /\ UNCHANGED <<installed, package, binary, client, loads>>

\* A requirement is installed: another release of the native code.
InstallRequirement(v) ==
  /\ installed # Missing => v > installed
  /\ installed' = v
  /\ broken' = broken \ {"installed"}
  /\ UNCHANGED <<runtime, wheel, package, binary, client, loads>>

\* The process is started anew and has imported nothing.
StartProcess ==
  /\ loads > 0
  /\ package' = NoPackage
  /\ binary' = Missing
  /\ client' = Missing
  /\ loads' = 0
  /\ UNCHANGED files

LoaderNext ==
  \/ LoadClient
  \/ CloseClient
  \/ \E v \in Inspecting : UploadRelease(v)
  \/ \E v \in Versions : InstallRequirement(v)
  \/ StartProcess

LoaderSpec == LoaderInit /\ [][LoaderNext]_loaderVars

-----------------------------------------------------------------------------
(* Properties                                                              *)

Loadable(place) == Found(place) # Missing /\ place \notin broken

\* The first load of a process takes the runtime that came with the plugin when
\* it can be loaded, then the wheel, and only then what is installed; and it
\* finds a kernel whenever one of them can be loaded.
FirstLoadRight ==
  [][LoadClient /\ binary = Missing =>
       client' = IF Loadable("runtime") THEN runtime
                 ELSE IF Loadable("repaired") THEN wheel
                 ELSE IF Loadable("installed") THEN installed
                 ELSE Missing]_loaderVars

=============================================================================
