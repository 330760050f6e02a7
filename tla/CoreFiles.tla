------------------------------- MODULE CoreFiles -------------------------------
(***************************************************************************)
(* The sing-box files: voya-platform/src/coreinfo.rs and its callers.         *)
(*                                                                         *)
(* A package carries the core as a seed.  The startup, a connection, a speed  *)
(* test and the install command copy it to the data folder when no            *)
(* executable is there, one file after the other, and may do so at the same   *)
(* time; a copy may fail and the application may crash or be updated.         *)
(***************************************************************************)
EXTENDS Naturals, Sequences, FiniteSets

CONSTANTS
    CoreExecutables,    \* the names looked for, in order
    SupportFiles,       \* what else a seed may hold
    Packages,           \* [kind, files, marked]: "none", "missing", "file", "dir"
    Machines,           \* operating systems
    MaxPackage,         \* bound: packages that are installed, one after the other
    MaxCuts             \* bound: copies that fail and crashes

Copiers == {"startup", "connect", "speedtest", "install"}
CoreNames == {CoreExecutables[i] : i \in DOMAIN CoreExecutables}
CoreFileNames == CoreNames \cup SupportFiles

\* A file has a name; what a package holds are such files.
ASSUME CoreBounds ==
    /\ CoreExecutables \in Seq(CoreNames) /\ "" \notin CoreFileNames
    /\ Packages \subseteq [kind : {"none", "missing", "file", "dir"},
                           files : SUBSET CoreFileNames, marked : BOOLEAN]
    /\ MaxPackage \in Nat /\ MaxCuts \in Nat

VARIABLES
    machine,
    package,        \* the package that runs, and how many came before it
    bin,            \* bin/sing_box: file |-> [from, number, state, marked]
    seedCopy,         \* each caller: [pc, left, file, result]
    cuts            \* copies that failed and crashes

coreFilesVars == <<machine, package, bin, seedCopy, cuts>>

Absent == [from |-> "absent", number |-> 0, state |-> "whole", marked |-> FALSE]
OwnFile == [from |-> "user", number |-> 0, state |-> "whole", marked |-> FALSE]
NoCopy == [pc |-> "idle", left |-> {}, file |-> "", result |-> ""]
Packaged(p, n) == [seed |-> p, number |-> n]

CoreFilesInit ==
    /\ machine \in Machines
    /\ \E p \in Packages : package = Packaged(p, 1)
    /\ \E own \in SUBSET CoreFileNames :
          bin = [f \in CoreFileNames |-> IF f \in own THEN OwnFile ELSE Absent]
    /\ seedCopy = [c \in Copiers |-> NoCopy]
    /\ cuts = 0

IsThere(f) == bin[f].from # "absent"

\* The first of the names that is in a folder, or "".
Preferred(files) ==
    LET found == {i \in DOMAIN CoreExecutables : CoreExecutables[i] \in files}
    IN  IF found = {} THEN ""
        ELSE CoreExecutables[CHOOSE i \in found : \A j \in found : i <= j]

\* existing_executable.
ExistingExecutable == Preferred({f \in CoreNames : IsThere(f)})

\* discover_packaged_seed_executable: nothing is copied or marked.
PackagedExecutable ==
    IF package.seed.kind = "dir" THEN Preferred(package.seed.files) ELSE ""

\* ensure_executable_permission: Windows has no such bit.
Marked(b, files) ==
    [f \in CoreFileNames |->
        [b[f] EXCEPT !.marked = @ \/ (machine # "windows" /\ f \in files)]]

\* executable_permission_plan_for_core, apply_executable_permission_plan.
PermissionPlan(b) == Marked(b, {f \in CoreNames : b[f].from # "absent"})

\* discover_executable and resolve_launch: what a connection or a test starts.
Discover(c) ==
    LET f == ExistingExecutable IN
    \/ /\ f = ""
       /\ seedCopy' = [seedCopy EXCEPT ![c] = [NoCopy EXCEPT !.pc = "error"]]
       /\ UNCHANGED bin
    \/ /\ f # ""
       /\ seedCopy' = [seedCopy EXCEPT ![c] = [NoCopy EXCEPT !.pc = "done", !.result = f]]
       /\ bin' = Marked(bin, {f})

\* What a caller does when its copy is over: the startup and the command end.
AfterCopy(c, outcome) ==
    seedCopy' = [seedCopy EXCEPT ![c] =
        IF c \in {"connect", "speedtest"} THEN [NoCopy EXCEPT !.pc = "discover"]
        ELSE [NoCopy EXCEPT !.pc = "ended", !.result = outcome]]

\* copy_seed_core_asset up to its copy, after the packaged executable of macOS
\* (core_executable, packaged_seed_executable, install_core_seed).  The startup
\* comes first; on macOS it copies nothing.
SeedCopyStarts(c) ==
    /\ seedCopy[c].pc = "idle"
    /\ c # "startup" => seedCopy["startup"].pc \in {"ended", "error"}
    /\ UNCHANGED <<machine, package, cuts>>
    /\ CASE machine = "macos" /\ c = "startup" ->
                /\ AfterCopy(c, "skipped") /\ UNCHANGED bin
         [] machine = "macos" /\ c # "startup" /\ PackagedExecutable # "" ->
                /\ seedCopy' = [seedCopy EXCEPT ![c] =
                      [NoCopy EXCEPT !.pc = IF c = "install" THEN "ended" ELSE "done",
                                   !.result = "packaged"]]
                /\ UNCHANGED bin
         [] OTHER ->
                \/ /\ package.seed.kind \in {"none", "missing"}
                   /\ AfterCopy(c, "SeedMissing") /\ UNCHANGED bin
                \/ /\ package.seed.kind = "file"
                   /\ seedCopy' = [seedCopy EXCEPT ![c].pc = "error"] /\ UNCHANGED bin
                \/ /\ package.seed.kind = "dir" /\ ExistingExecutable # ""
                   /\ bin' = PermissionPlan(bin)
                   /\ AfterCopy(c, "AlreadyInstalled")
                \/ /\ package.seed.kind = "dir" /\ ExistingExecutable = ""
                   /\ seedCopy' = [seedCopy EXCEPT ![c] =
                         [NoCopy EXCEPT !.pc = "copy", !.left = package.seed.files]]
                   /\ UNCHANGED bin

\* copy_seed_dir_contents, one entry in the order of the file system: a file
\* that is there is left alone.
Mut_Skips(f) == f \in CoreNames /\ IsThere(f)
Skips(f) == IsThere(f)
SeedCopyLooks(c, f) ==
    /\ seedCopy[c].pc = "copy"
    /\ f \in seedCopy[c].left
    /\ seedCopy' = [seedCopy EXCEPT ![c].left = @ \ {f},
                                ![c].pc = IF Skips(f) THEN "copy" ELSE "create",
                                ![c].file = f]
    /\ UNCHANGED <<machine, package, bin, cuts>>

\* fs::copy: the target is emptied and gets the permissions of the source,
SeedCopyCreates(c) ==
    /\ seedCopy[c].pc = "create"
    /\ bin' = [bin EXCEPT ![seedCopy[c].file] =
                  [from |-> "seed", number |-> package.number, state |-> "partial",
                   marked |-> package.seed.marked]]
    /\ seedCopy' = [seedCopy EXCEPT ![c].pc = "write"]
    /\ UNCHANGED <<machine, package, cuts>>

\* then filled.  Of two copies that fill one file the last completes it.
Fills(c, f) == seedCopy[c].pc = "write" /\ seedCopy[c].file = f
SeedCopyWrites(c) ==
    LET f == seedCopy[c].file IN
    /\ seedCopy[c].pc = "write"
    /\ bin' = [bin EXCEPT ![f].state =
                  IF @ = "partial" /\ \A d \in Copiers \ {c} : ~Fills(d, f)
                  THEN "whole" ELSE @]
    /\ seedCopy' = [seedCopy EXCEPT ![c].pc = "copy"]
    /\ UNCHANGED <<machine, package, cuts>>

AtWork(c) == seedCopy[c].pc \in {"copy", "create", "write"}

SeedCopyFails(c) ==
    /\ cuts < MaxCuts
    /\ AtWork(c)
    /\ bin' = [f \in CoreFileNames |->
                  IF Fills(c, f) THEN [bin[f] EXCEPT !.state = "torn"] ELSE bin[f]]
    /\ seedCopy' = [seedCopy EXCEPT ![c] = [NoCopy EXCEPT !.pc = "error"]]
    /\ cuts' = cuts + 1
    /\ UNCHANGED <<machine, package>>

SeedCopyEnds(c) ==
    /\ seedCopy[c].pc = "copy" /\ seedCopy[c].left = {}
    /\ bin' = PermissionPlan(bin)
    /\ AfterCopy(c, "Copied")
    /\ UNCHANGED <<machine, package, cuts>>

Discovers(c) ==
    /\ seedCopy[c].pc = "discover"
    /\ Discover(c)
    /\ UNCHANGED <<machine, package, cuts>>

\* The application ends, by a crash if something is at work, and starts again,
\* perhaps from a newer package.
ApplicationRestarts ==
    /\ seedCopy["startup"].pc # "idle"
    /\ LET working == {c \in Copiers : AtWork(c)} IN
       /\ working # {} => cuts < MaxCuts
       /\ cuts' = IF working = {} THEN cuts ELSE cuts + 1
       /\ bin' = [f \in CoreFileNames |->
                    IF \E c \in working : Fills(c, f) THEN [bin[f] EXCEPT !.state = "torn"]
                    ELSE bin[f]]
    /\ package.number < MaxPackage
    /\ \E p \in Packages : package' = Packaged(p, package.number + 1)
    /\ seedCopy' = [c \in Copiers |-> NoCopy]
    /\ UNCHANGED machine

CoreFilesNext ==
    \/ \E c \in Copiers :
          \/ SeedCopyStarts(c) \/ SeedCopyCreates(c) \/ SeedCopyWrites(c) \/ SeedCopyFails(c)
          \/ SeedCopyEnds(c) \/ Discovers(c)
          \/ \E f \in CoreFileNames : SeedCopyLooks(c, f)
    \/ ApplicationRestarts

CoreFilesSpec == CoreFilesInit /\ [][CoreFilesNext]_coreFilesVars

-----------------------------------------------------------------------------

\* What is started was not taken from under a copy: unless an earlier copy was
\* cut off, it is whole and so is every file that came with it; and it may be
\* executed, unless of two copies at once that found it missing the second was
\* cut off as well after the first had ended (each fs::copy brings the
\* permissions of the seed, and only the end of a copy marks the file).
StartsAreWhole ==
    \A c \in {"connect", "speedtest"} :
        (seedCopy[c].pc = "done" /\ seedCopy[c].result # "packaged") =>
            LET f == seedCopy[c].result IN
            /\ cuts = 0 => \A g \in CoreFileNames : bin[g].state = "whole"
            /\ (machine # "windows" /\ cuts <= 1 /\ \A d \in Copiers : ~AtWork(d)) =>
                  bin[f].marked

\* A file that is in the data folder is nobody's to replace.
OwnFilesAreKept ==
    \A f \in CoreFileNames :
        IsThere(f) => /\ bin'[f].from = bin[f].from /\ bin'[f].number = bin[f].number
                      /\ bin[f].from = "user" => bin'[f].state = "whole"

\* Copying the core loses nothing of the user's and starts nothing that is not
\* whole, whoever copies at the same time (coreinfo.rs:356-566).
CoreFilesAreRight == [][StartsAreWhole' /\ OwnFilesAreKept]_coreFilesVars
=============================================================================
