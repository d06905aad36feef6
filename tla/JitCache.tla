------------------------------ MODULE JitCache ------------------------------
(***************************************************************************)
(* The run-time compilation of one plugin, by processes that share the     *)
(* plugin directory and take no lock: Registry::get, translation::print    *)
(* and jit in each process, and the program vcsn-compile they run.         *)
(*                                                                         *)
(* A file is the set of what it holds: empty when there is no such file.   *)
(* A name with the pid in it (BASE.PID.cc, .o, .so) is a function of the   *)
(* process.  Times are given by a clock that every write advances; rename  *)
(* and mv keep the time of the file they move.                             *)
(***************************************************************************)
EXTENDS Naturals, Sequences

CONSTANTS
  Proc,           \* the processes
  NoPython,       \* those that may run with VCSN_NO_PYTHON
  Sig,            \* build signatures: compiler and flags
  Worlds,         \* the sets of perils to consider, see Peril
  MaxCalls,       \* bound: calls that find nothing in the registry
  MaxEdits        \* bound: changes of the headers

Peril == {"concurrency",      \* several calls at the same time
          "no_python",        \* those of NoPython skip vcsn-compile
          "new_signature",    \* processes have different build signatures
          "edit_in_build",    \* a header changes while it is compiled
          "failure",          \* the compiler or the linker fails
          "kill",             \* a process is killed
          "torn_deps"}        \* the compiler's -MF file is seen half-written

ASSUME WorldsAssumption == Worlds \subseteq SUBSET Peril /\ NoPython \subseteq Proc

ASSUME SigAssumption == Sig # {}

ASSUME BoundsAssumption == MaxCalls \in Nat /\ MaxEdits \in Nat

VARIABLES
  clock,
  header,         \* the headers of vcsn: version, and time of the last change
  cc, so,         \* BASE.cc and BASE.so
  cmd,            \* BASE.so.cmd: a build signature
  deps,           \* BASE.so.d: how many of Names it holds
  tmp_cc, obj, tmp_so,
  pc,
  sig,            \* the build signature of each process
  since,          \* the version of the headers when its call started
  registry,       \* the library whose functions are in its registry
  calls, edits,
  perils          \* what may happen, chosen once

files == <<cc, so, cmd, deps>>
temps == <<tmp_cc, obj, tmp_so>>
procs == <<sig, since, registry, calls>>
env   == <<edits, perils>>
vars  == <<clock, header, files, temps, pc, procs, env>>

\* The source that the processes generate, and that of a former version.
Code == {"new", "old"}

\* A dependency file lists its target, then what the target was made from.
Names == <<"so", "cc", "header">>

Goto(p, l) == pc' = [pc EXCEPT ![p] = l]

\* The steps from the call to jit's use of what it compiled.
Building == {"read", "compile", "link", "linking", "move"}

\* The build signatures of the processes.
Signatures ==
  IF "new_signature" \in perils THEN Sig ELSE {CHOOSE s \in Sig : TRUE}

\* VCSN_NO_PYTHON: jit runs the compiler itself.
Direct(p) == p \in NoPython /\ "no_python" \in perils

\* What a former version may have left in the plugin directory.
Leftover(s) ==
  /\ cc   = {[code |-> "old", whole |-> TRUE, at |-> 0]}
  /\ so   = {[code |-> "old", header |-> 0, sig |-> s, whole |-> TRUE, at |-> 1]}
  /\ cmd  = {s}
  /\ deps = {Len(Names)}

Init ==
  /\ perils \in Worlds
  /\ clock = 1
  /\ header = [version |-> 0, at |-> 0]
  /\ \/ cc = {} /\ so = {} /\ cmd = {} /\ deps = {}
     \/ \E s \in Signatures : Leftover(s)
  /\ tmp_cc = [p \in Proc |-> {}]
  /\ obj = [p \in Proc |-> {}]
  /\ tmp_so = [p \in Proc |-> {}]
  /\ pc = [p \in Proc |-> "idle"]
  /\ sig \in [Proc -> Signatures]
  /\ since = [p \in Proc |-> 0]
  /\ registry = [p \in Proc |-> {}]
  /\ calls = 0
  /\ edits = 0

-----------------------------------------------------------------------------
\* get: the signature is not in the registry.
Get(p) ==
  /\ pc[p] = "idle" /\ registry[p] = {}
  /\ calls < MaxCalls
  /\ "concurrency" \in perils \/ \A q \in Proc : pc[q] = "idle"
  /\ Goto(p, "print")
  /\ since' = [since EXCEPT ![p] = header.version]
  /\ calls' = calls + 1
  /\ UNCHANGED <<clock, header, files, temps, sig, registry, env>>

\* print: generate BASE.PID.cc, piece by piece.
WriteSource(p) ==
  /\ \/ /\ pc[p] = "print"
        /\ Goto(p, "printing")
        /\ tmp_cc' = [tmp_cc EXCEPT ![p] =
                        {[code |-> "new", whole |-> FALSE, at |-> clock + 1]}]
     \/ /\ pc[p] = "printing"
        /\ Goto(p, "install")
        /\ tmp_cc' = [tmp_cc EXCEPT ![p] =
                        {[code |-> "new", whole |-> TRUE, at |-> clock + 1]}]
  /\ clock' = clock + 1
  /\ UNCHANGED <<header, files, obj, tmp_so, procs, env>>

Contents(file) == {[code |-> f.code, whole |-> f.whole] : f \in file}

\* Mutant: a source that is there is taken for the right one.
MutInstall(p) ==
  /\ cc' = IF cc = {} THEN tmp_cc[p] ELSE cc
  /\ tmp_cc' = [tmp_cc EXCEPT ![p] = {}]

\* Mutant: the new source replaces the old one even if they are equal.
MutInstallAlways(p) ==
  /\ cc' = tmp_cc[p]
  /\ tmp_cc' = [tmp_cc EXCEPT ![p] = {}]

\* Keep the file, and its time, if its contents are the same.
Install(p) ==
  /\ cc' = IF Contents(cc) = Contents(tmp_cc[p]) THEN cc ELSE tmp_cc[p]
  /\ tmp_cc' = [tmp_cc EXCEPT ![p] = {}]

\* The end of print; then jit calls the compiler, or vcsn-compile.
Printed(p) ==
  /\ pc[p] = "install"
  /\ Install(p)
  /\ Goto(p, IF Direct(p) THEN "read" ELSE "check_cmd")
  /\ UNCHANGED <<clock, header, so, cmd, deps, obj, tmp_so, procs, env>>

-----------------------------------------------------------------------------
(* vcsn-compile *)

\* Mutant: the signatures are not compared.
MutCheckCmd(p) ==
  /\ pc[p] = "check_cmd"
  /\ Goto(p, IF cmd # {} THEN "check_deps" ELSE "save_cmd")
  /\ UNCHANGED <<clock, header, files, temps, procs, env>>

\* need_compiling: did the build parameters change?
CheckCmd(p) ==
  /\ pc[p] = "check_cmd"
  /\ Goto(p, IF cmd = {sig[p]} THEN "check_deps" ELSE "save_cmd")
  /\ UNCHANGED <<clock, header, files, temps, procs, env>>

\* The time of the i-th name, one of the sources.
TimeOf(i) == IF Names[i] = "cc" THEN {c.at : c \in cc} ELSE {header.at}

\* need_compiling: is the output there, and as recent as its sources?  An
\* empty file of dependencies names no output and compares nothing.
UpToDate ==
  \E n \in deps :
    n > 0 => \E o \in so : \A i \in 2 .. n : \A t \in TimeOf(i) : t <= o.at

CheckDeps(p) ==
  /\ pc[p] = "check_deps"
  /\ Goto(p, IF UpToDate THEN "load" ELSE "save_cmd")
  /\ UNCHANGED <<clock, header, files, temps, procs, env>>

\* The signature is saved first, then comes the build.
SaveCmd(p) ==
  /\ pc[p] = "save_cmd"
  /\ cmd' = {sig[p]}
  /\ Goto(p, "read")
  /\ UNCHANGED <<clock, header, cc, so, deps, temps, procs, env>>

-----------------------------------------------------------------------------
(* The compiler and the linker, under vcsn-compile or under jit *)

\* The compiler reads its sources.
ReadSources(p) ==
  /\ pc[p] = "read"
  /\ \E c \in cc :
       obj' = [obj EXCEPT ![p] =
                 {[code |-> c.code, header |-> header.version, sig |-> sig[p],
                   whole |-> c.whole]}]
  /\ Goto(p, "compile")
  /\ UNCHANGED <<clock, header, files, tmp_cc, tmp_so, procs, env>>

\* -MF '{deps}': the compiler is half-way through the dependencies.
WriteDeps(p) ==
  /\ pc[p] = "compile" /\ ~Direct(p)
  /\ "torn_deps" \in perils
  /\ \E n \in 0 .. Len(Names) - 1 : deps' = {n} /\ deps # {n}
  /\ UNCHANGED <<clock, header, cc, so, cmd, temps, pc, procs, env>>

\* Mutant: the dependencies are appended to the former ones.
MutCompile(p) ==
  /\ pc[p] = "compile"
  /\ deps' = {Len(Names) + n : n \in deps \cup {0}}
  /\ Goto(p, "link")
  /\ UNCHANGED <<clock, header, cc, so, cmd, temps, procs, env>>

\* The object and the dependencies are there.
Compile(p) ==
  /\ pc[p] = "compile"
  /\ deps' = IF Direct(p) THEN deps ELSE {Len(Names)}
  /\ Goto(p, "link")
  /\ UNCHANGED <<clock, header, cc, so, cmd, temps, procs, env>>

Linked(o, all) ==
  [code |-> o.code, header |-> o.header, sig |-> o.sig,
   whole |-> o.whole /\ all, at |-> clock + 1]

\* Mutant: the linker's output is BASE.so.
MutLink(p, all) ==
  /\ \E o \in obj[p] : so' = {Linked(o, all)}
  /\ tmp_so' = [tmp_so EXCEPT ![p] = so']

\* The linker writes BASE.PID.so piece by piece.
Link(p, all) ==
  /\ \E o \in obj[p] : tmp_so' = [tmp_so EXCEPT ![p] = {Linked(o, all)}]
  /\ so' = so

Linking(p) ==
  /\ \/ pc[p] = "link" /\ Goto(p, "linking") /\ Link(p, FALSE)
     \/ pc[p] = "linking" /\ Goto(p, "move") /\ Link(p, TRUE)
  /\ clock' = clock + 1
  /\ UNCHANGED <<header, cc, cmd, deps, tmp_cc, obj, procs, env>>

\* mv BASE.PID.so BASE.so; rm BASE.PID.o.
Move(p) ==
  /\ pc[p] = "move"
  /\ so' = tmp_so[p]
  /\ tmp_so' = [tmp_so EXCEPT ![p] = {}]
  /\ obj' = [obj EXCEPT ![p] = {}]
  /\ Goto(p, "load")
  /\ UNCHANGED <<clock, header, cc, cmd, deps, tmp_cc, procs, env>>

-----------------------------------------------------------------------------
\* jit opens BASE.so, whose functions register themselves, or raises.
Load(p) ==
  /\ pc[p] = "load"
  /\ registry' = [registry EXCEPT ![p] = so]
  /\ Goto(p, "idle")
  /\ UNCHANGED <<clock, header, files, temps, sig, since, calls, env>>

\* The process ends, and another one starts with an empty registry.
Exit(p) ==
  /\ pc[p] = "idle" /\ registry[p] # {}
  /\ registry' = [registry EXCEPT ![p] = {}]
  /\ \E s \in Signatures : sig' = [sig EXCEPT ![p] = s]
  /\ UNCHANGED <<clock, header, files, temps, pc, since, calls, env>>

\* The compiler or the linker fails: jit raises a jit_error.
Fail(p) ==
  /\ "failure" \in perils
  /\ pc[p] \in {"compile", "linking"}
  /\ Goto(p, "idle")
  /\ UNCHANGED <<clock, header, files, temps, procs, env>>

\* The process is killed; its temporary files stay, and so may its pid.
Kill(p) ==
  /\ "kill" \in perils
  /\ pc[p] # "idle"
  /\ Goto(p, "idle")
  /\ \E s \in Signatures : sig' = [sig EXCEPT ![p] = s]
  /\ UNCHANGED <<clock, header, files, temps, since, registry, calls, env>>

\* Somebody changes a header.
Edit ==
  /\ edits < MaxEdits
  /\ "edit_in_build" \in perils \/ \A p \in Proc : pc[p] \notin Building \ {"read"}
  /\ clock' = clock + 1
  /\ header' = [version |-> header.version + 1, at |-> clock + 1]
  /\ edits' = edits + 1
  /\ UNCHANGED <<files, temps, pc, procs, perils>>

Step(p) ==
  \/ Get(p)
  \/ WriteSource(p)
  \/ Printed(p)
  \/ CheckCmd(p)
  \/ CheckDeps(p)
  \/ SaveCmd(p)
  \/ ReadSources(p)
  \/ WriteDeps(p)
  \/ Compile(p)
  \/ Linking(p)
  \/ Move(p)
  \/ Load(p)
  \/ Exit(p)
  \/ Fail(p)
  \/ Kill(p)

Next == Edit \/ \E p \in Proc : Step(p)

Spec == Init /\ [][Next]_vars

-----------------------------------------------------------------------------
Source  == [code : Code, whole : BOOLEAN, at : Nat]
Object  == [code : Code, header : Nat, sig : Sig, whole : BOOLEAN]
Library == [code : Code, header : Nat, sig : Sig, whole : BOOLEAN, at : Nat]
Label   == Building \cup {"idle", "print", "printing", "install", "check_cmd",
                          "check_deps", "save_cmd", "load"}

\* Files and processes hold what they may hold.
TypeOK ==
  /\ perils \in Worlds
  /\ clock \in Nat
  /\ header \in [version : Nat, at : Nat]
  /\ cc \subseteq Source /\ so \subseteq Library
  /\ cmd \subseteq Sig /\ deps \subseteq 0 .. Len(Names)
  /\ tmp_cc \in [Proc -> SUBSET Source]
  /\ obj \in [Proc -> SUBSET Object]
  /\ tmp_so \in [Proc -> SUBSET Library]
  /\ pc \in [Proc -> Label]
  /\ sig \in [Proc -> Sig]
  /\ since \in [Proc -> Nat]
  /\ registry \in [Proc -> SUBSET Library]
  /\ calls \in Nat /\ calls <= MaxCalls
  /\ edits \in Nat /\ edits <= MaxEdits

\* What jit's temporary files and renames are for: whatever the processes
\* do at the same time, and whoever fails or is killed, nobody compiles or
\* loads a file that somebody is still writing.
OnlyWholeFiles ==
  /\ \A c \in cc : c.whole
  /\ \A o \in so : o.whole
  /\ \A p \in Proc : \A o \in registry[p] : o.whole

\* "Avoid locks, but avoid races by using temporary files": a call ends with
\* a library made from the current source, and from headers as recent as they
\* were when it started.
LoadedIsCurrent ==
  \A p \in Proc : \A o \in registry[p] :
    o.code = "new" /\ o.header >= since[p]

\* It does, with processes at the same time, failures and kills, if headers
\* do not change during a build and dependencies are written at once.
CurrentUnlessTorn ==
  perils \intersect {"torn_deps", "edit_in_build"} = {} => LoadedIsCurrent

\* "Check that the build parameters didn't change": when vcsn-compile has
\* nothing to do, the library was built with the signature of its caller.
LoadedIsAsAsked ==
  \A p \in Proc : \A o \in registry[p] : o.sig = sig[p]

\* It was, when builds are neither concurrent nor interrupted.
AsAskedOneByOne == perils = {"new_signature"} => LoadedIsAsAsked

\* "Do it only if needed: keep the mtime old if the file contents is the
\* same anyway": nothing is built again without a reason, unless a build is
\* interrupted or another one of the same plugin runs.
NoNeedlessBuild ==
  perils = {"new_signature"} =>
    \A p \in Proc : pc[p] = "save_cmd" =>
      ~ \E o \in so : /\ o.code = "new"
                      /\ o.header = header.version
                      /\ o.sig = sig[p]
=============================================================================
