--------------------------- MODULE JitCacheProofs ---------------------------
(***************************************************************************)
(* The plugin cache, for any number of processes, signatures, calls and    *)
(* edits: no half-written file is ever shown, whoever fails or is killed;  *)
(* libraries are current if lists of dependencies are read whole; one call *)
(* at a time, signatures are noticed and nothing is built for nothing.     *)
(***************************************************************************)
EXTENDS JitCache, TLAPS

LEMMA LenNames == Len(Names) = 3
  BY DEF Names

LEMMA SignaturesLemma == Signatures \subseteq Sig
  BY SigAssumption DEF Signatures

\* What is printed, compiled and linked is a source, an object, a library.
LEMMA MadeFiles ==
  /\ clock \in Nat =>
       \A w \in BOOLEAN :
         [code |-> "new", whole |-> w, at |-> clock + 1] \in Source
  /\ clock \in Nat =>
       \A o \in Object, w \in BOOLEAN : Linked(o, w) \in Library
  /\ header \in [version : Nat, at : Nat] =>
       \A c \in Source, s \in Sig :
         [code |-> c.code, header |-> header.version, sig |-> s,
          whole |-> c.whole] \in Object
<1>1. ASSUME clock \in Nat, NEW w \in BOOLEAN
      PROVE  [code |-> "new", whole |-> w, at |-> clock + 1] \in Source
  <2>1. clock + 1 \in Nat
    BY <1>1
  <2> QED
    BY <1>1, <2>1 DEF Source, Code
<1>2. ASSUME clock \in Nat, NEW o \in Object, NEW w \in BOOLEAN
      PROVE  Linked(o, w) \in Library
  <2>1. clock + 1 \in Nat
    BY <1>2
  <2>2. /\ o.code \in Code /\ o.header \in Nat /\ o.sig \in Sig
        /\ o.whole \in BOOLEAN
    BY DEF Object
  <2>3. (o.whole /\ w) \in BOOLEAN
    OBVIOUS
  <2> QED
    BY <2>1, <2>2, <2>3 DEF Linked, Library
<1>3. ASSUME header \in [version : Nat, at : Nat], NEW c \in Source, NEW s \in Sig
      PROVE  [code |-> c.code, header |-> header.version, sig |-> s,
              whole |-> c.whole] \in Object
  BY <1>3 DEF Source, Object
<1> QED
  BY <1>1, <1>2, <1>3

\* The shapes of the files, kept by every step.
LEMMA TypeLemma == TypeOK /\ [Next]_vars => TypeOK'
<1> SUFFICES ASSUME TypeOK, [Next]_vars PROVE TypeOK'
  OBVIOUS
<1>0. /\ perils \in Worlds
      /\ clock \in Nat
      /\ header \in [version : Nat, at : Nat]
      /\ cc \subseteq Source /\ so \subseteq Library
      /\ cmd \subseteq Sig /\ deps \subseteq 0 .. 3
      /\ tmp_cc \in [Proc -> SUBSET Source]
      /\ obj \in [Proc -> SUBSET Object]
      /\ tmp_so \in [Proc -> SUBSET Library]
      /\ pc \in [Proc -> Label]
      /\ sig \in [Proc -> Sig]
      /\ since \in [Proc -> Nat]
      /\ registry \in [Proc -> SUBSET Library]
      /\ calls \in Nat /\ calls <= MaxCalls
      /\ edits \in Nat /\ edits <= MaxEdits
  BY LenNames DEF TypeOK
<1>n. clock \in Nat /\ edits \in Nat /\ edits <= MaxEdits /\ edits + 1 \in Nat
      /\ clock + 1 \in Nat
  BY <1>0
<1> DEFINE Labels == {"idle", "print", "printing", "install", "check_cmd",
                      "check_deps", "save_cmd", "load", "read", "compile",
                      "link", "linking", "move"}
<1>l. Labels \subseteq Label
  BY DEF Label, Building
<1> HIDE DEF Labels
<1>g. ASSUME NEW p \in Proc, NEW l \in Label, Goto(p, l)
      PROVE  pc' \in [Proc -> Label]
  BY <1>0, <1>g DEF Goto
<1> USE DEF files, temps, procs, env
<1>1. CASE UNCHANGED vars
  BY <1>1, <1>0, LenNames DEF vars, TypeOK
<1>2. CASE Edit
  <2>1. clock' \in Nat
    BY <1>n, <1>2 DEF Edit
  <2>2. header.version + 1 \in Nat
    BY <1>0
  <2>3. header' \in [version : Nat, at : Nat]
    BY <2>1, <2>2, <1>2 DEF Edit
  <2>4. edits' \in Nat /\ edits' <= MaxEdits
    <3>1. edits < MaxEdits /\ edits' = edits + 1
      BY <1>2 DEF Edit
    <3> QED
      BY <1>n, <3>1, BoundsAssumption
  <2> QED
    BY <1>0, <1>2, <2>1, <2>3, <2>4, LenNames DEF Edit, TypeOK
<1>3. ASSUME NEW p \in Proc, Step(p) PROVE TypeOK'
  <2>1. CASE Get(p)
    <3>1. pc' \in [Proc -> Label]
      BY <1>g, <1>l, <2>1 DEF Get, Labels
    <3>2. since' \in [Proc -> Nat]
      BY <1>0, <2>1 DEF Get
    <3>3. calls' \in Nat /\ calls' <= MaxCalls
      BY <1>0, <2>1, BoundsAssumption DEF Get
    <3> QED
      BY <1>0, <2>1, LenNames, <3>1, <3>2, <3>3 DEF Get, TypeOK
  <2>2. CASE WriteSource(p)
    <3>1. pc' \in [Proc -> Label]
      BY <1>g, <1>l, <2>2 DEF WriteSource, Labels
    <3>2. clock' \in Nat
      BY <1>n, <2>2 DEF WriteSource
    <3>3. \E w \in BOOLEAN : tmp_cc' = [tmp_cc EXCEPT ![p] =
            {[code |-> "new", whole |-> w, at |-> clock + 1]}]
      BY <2>2 DEF WriteSource
    <3>4. tmp_cc' \in [Proc -> SUBSET Source]
      BY <1>0, <3>3, MadeFiles
    <3> QED
      BY <1>0, <2>2, LenNames, <3>1, <3>2, <3>3, <3>4 DEF WriteSource, TypeOK
  <2>3. CASE Printed(p)
    <3>1. pc' \in [Proc -> Label]
      BY <1>g, <1>l, <2>3 DEF Printed, Labels
    <3>2. cc' \subseteq Source /\ tmp_cc' \in [Proc -> SUBSET Source]
      BY <1>0, <2>3 DEF Printed, Install
    <3> QED
      BY <1>0, <2>3, LenNames, <3>1, <3>2 DEF Printed, TypeOK
  <2>4. CASE CheckCmd(p)
    <3>1. pc' \in [Proc -> Label]
      BY <1>g, <1>l, <2>4 DEF CheckCmd, Labels
    <3> QED
      BY <1>0, <2>4, LenNames, <3>1 DEF CheckCmd, TypeOK
  <2>5. CASE CheckDeps(p)
    <3>1. pc' \in [Proc -> Label]
      BY <1>g, <1>l, <2>5 DEF CheckDeps, Labels
    <3> QED
      BY <1>0, <2>5, LenNames, <3>1 DEF CheckDeps, TypeOK
  <2>6. CASE SaveCmd(p)
    <3>1. pc' \in [Proc -> Label]
      BY <1>g, <1>l, <2>6 DEF SaveCmd, Labels
    <3>2. cmd' \subseteq Sig
      BY <1>0, <2>6 DEF SaveCmd
    <3> QED
      BY <1>0, <2>6, LenNames, <3>1, <3>2 DEF SaveCmd, TypeOK
  <2>7. CASE ReadSources(p)
    <3>1. pc' \in [Proc -> Label]
      BY <1>g, <1>l, <2>7 DEF ReadSources, Labels
    <3>2. obj' \in [Proc -> SUBSET Object]
      BY <1>0, <2>7, MadeFiles DEF ReadSources
    <3> QED
      BY <1>0, <2>7, LenNames, <3>1, <3>2 DEF ReadSources, TypeOK
  <2>8. CASE WriteDeps(p)
    <3>1. 0 .. Len(Names) - 1 = 0 .. 2
      BY LenNames
    <3>2. \E n \in 0 .. 2 : deps' = {n}
      BY <2>8, <3>1 DEF WriteDeps
    <3>3. deps' \subseteq 0 .. 3
      BY <3>2
    <3> QED
      BY <1>0, <2>8, LenNames, <3>1, <3>2, <3>3 DEF WriteDeps, TypeOK
  <2>9. CASE Compile(p)
    <3>1. pc' \in [Proc -> Label]
      BY <1>g, <1>l, <2>9 DEF Compile, Labels
    <3>2. deps' \subseteq 0 .. 3
      BY <1>0, <2>9, LenNames DEF Compile
    <3> QED
      BY <1>0, <2>9, LenNames, <3>1, <3>2 DEF Compile, TypeOK
  <2>10. CASE Linking(p)
    <3>1. pc' \in [Proc -> Label]
      BY <1>g, <1>l, <2>10 DEF Linking, Labels
    <3>2. PICK w \in BOOLEAN : Link(p, w)
      BY <2>10 DEF Linking
    <3>3. PICK o \in obj[p] : tmp_so' = [tmp_so EXCEPT ![p] = {Linked(o, w)}]
      BY <3>2 DEF Link
    <3>4. o \in Object
      BY <1>0
    <3>5. tmp_so' \in [Proc -> SUBSET Library]
      BY <1>0, <3>3, <3>4, MadeFiles
    <3>6. so' = so
      BY <3>2 DEF Link
    <3>7. clock' \in Nat
      BY <1>n, <2>10 DEF Linking
    <3> QED
      BY <1>0, <2>10, LenNames, <3>1, <3>2, <3>3, <3>4, <3>5, <3>6, <3>7 DEF Linking, TypeOK
  <2>11. CASE Move(p)
    <3>1. pc' \in [Proc -> Label]
      BY <1>g, <1>l, <2>11 DEF Move, Labels
    <3>2. /\ so' \subseteq Library
          /\ tmp_so' \in [Proc -> SUBSET Library]
          /\ obj' \in [Proc -> SUBSET Object]
      BY <1>0, <2>11 DEF Move
    <3> QED
      BY <1>0, <2>11, LenNames, <3>1, <3>2 DEF Move, TypeOK
  <2>12. CASE Load(p)
    <3>1. pc' \in [Proc -> Label]
      BY <1>g, <1>l, <2>12 DEF Load, Labels
    <3>2. registry' \in [Proc -> SUBSET Library]
      BY <1>0, <2>12 DEF Load
    <3> QED
      BY <1>0, <2>12, LenNames, <3>1, <3>2 DEF Load, TypeOK
  <2>13. CASE Exit(p)
    <3>1. registry' \in [Proc -> SUBSET Library] /\ sig' \in [Proc -> Sig]
      BY <1>0, <2>13, SignaturesLemma DEF Exit
    <3> QED
      BY <1>0, <2>13, LenNames, <3>1 DEF Exit, TypeOK
  <2>14. CASE Fail(p)
    <3>1. pc' \in [Proc -> Label]
      BY <1>g, <1>l, <2>14 DEF Fail, Labels
    <3> QED
      BY <1>0, <2>14, LenNames, <3>1 DEF Fail, TypeOK
  <2>15. CASE Kill(p)
    <3>1. pc' \in [Proc -> Label]
      BY <1>g, <1>l, <2>15 DEF Kill, Labels
    <3>2. sig' \in [Proc -> Sig]
      BY <1>0, <2>15, SignaturesLemma DEF Kill
    <3> QED
      BY <1>0, <2>15, LenNames, <3>1, <3>2 DEF Kill, TypeOK
  <2> QED
    BY <1>3, <2>1, <2>2, <2>3, <2>4, <2>5, <2>6, <2>7, <2>8, <2>9, <2>10,
       <2>11, <2>12, <2>13, <2>14, <2>15 DEF Step
<1> QED
  BY <1>1, <1>2, <1>3 DEF Next

LEMMA InitType == Init => TypeOK
<1> SUFFICES ASSUME Init PROVE TypeOK
  OBVIOUS
<1>1. cc \subseteq Source
  <2>1. [code |-> "old", whole |-> TRUE, at |-> 0] \in Source
    BY DEF Source, Code
  <2> QED
    BY <2>1 DEF Init, Leftover
<1>2. so \subseteq Library
  <2>1. \A s \in Sig : [code |-> "old", header |-> 0, sig |-> s, whole |-> TRUE,
                        at |-> 1] \in Library
    BY DEF Library, Code
  <2> QED
    BY <2>1, SignaturesLemma DEF Init, Leftover
<1>3. cmd \subseteq Sig /\ deps \subseteq 0 .. 3
  BY LenNames, SignaturesLemma DEF Init, Leftover
<1>4. header \in [version : Nat, at : Nat] /\ since \in [Proc -> Nat]
  BY DEF Init
<1>5. /\ tmp_cc \in [Proc -> SUBSET Source]
      /\ obj \in [Proc -> SUBSET Object]
      /\ tmp_so \in [Proc -> SUBSET Library]
      /\ registry \in [Proc -> SUBSET Library]
      /\ pc \in [Proc -> Label] /\ sig \in [Proc -> Sig]
  BY SignaturesLemma DEF Init, Label
<1>6. perils \in Worlds /\ clock \in Nat /\ calls \in Nat /\ calls <= MaxCalls
      /\ edits \in Nat /\ edits <= MaxEdits
  BY BoundsAssumption DEF Init
<1> QED
  BY <1>1, <1>2, <1>3, <1>4, <1>5, <1>6, LenNames DEF TypeOK

\* Files, temporary files, labels and registries stay well typed.
THEOREM TypeCorrect == Spec => []TypeOK
  BY InitType, TypeLemma, PTL DEF Spec

-----------------------------------------------------------------------------
\* What makes OnlyWholeFiles inductive: what print is about to rename and
\* what vcsn-compile is about to move is whole, and so is what the linker
\* makes the library from.
Renamed ==
  \A p \in Proc :
    /\ pc[p] = "install" => \A c \in tmp_cc[p] : c.whole
    /\ pc[p] \in {"compile", "link", "linking"} => \A o \in obj[p] : o.whole
    /\ pc[p] = "move" => \A o \in tmp_so[p] : o.whole

IInv == TypeOK /\ OnlyWholeFiles /\ Renamed

LEMMA InitWhole == Init => OnlyWholeFiles /\ Renamed
  BY DEF Init, Leftover, OnlyWholeFiles, Renamed

LEMMA StepWhole == IInv /\ [Next]_vars => OnlyWholeFiles' /\ Renamed'
<1> SUFFICES ASSUME TypeOK, OnlyWholeFiles, Renamed, [Next]_vars
             PROVE  OnlyWholeFiles' /\ Renamed'
  BY DEF IInv
<1>1. CASE UNCHANGED vars
  BY <1>1 DEF vars, files, temps, procs, env, OnlyWholeFiles, Renamed
<1>2. CASE Edit
  BY <1>2 DEF Edit, files, temps, procs, env, OnlyWholeFiles, Renamed
<1>3. ASSUME NEW p \in Proc, Step(p) PROVE OnlyWholeFiles' /\ Renamed'
  <2> USE DEF files, temps, procs, env, OnlyWholeFiles, Renamed, Goto
  <2>0. /\ pc \in [Proc -> Label]
        /\ tmp_cc \in [Proc -> SUBSET Source]
        /\ obj \in [Proc -> SUBSET Object]
        /\ tmp_so \in [Proc -> SUBSET Library]
        /\ registry \in [Proc -> SUBSET Library]
    BY DEF TypeOK
  <2>1. CASE Get(p)
    BY <2>0, <2>1 DEF Get
  <2>2. CASE WriteSource(p)
    BY <2>0, <2>2 DEF WriteSource
  <2>3. CASE Printed(p)
    BY <2>0, <2>3 DEF Printed, Install
  <2>4. CASE CheckCmd(p)
    BY <2>0, <2>4 DEF CheckCmd
  <2>5. CASE CheckDeps(p)
    BY <2>0, <2>5 DEF CheckDeps
  <2>6. CASE SaveCmd(p)
    BY <2>0, <2>6 DEF SaveCmd
  <2>7. CASE ReadSources(p)
    BY <2>0, <2>7 DEF ReadSources
  <2>8. CASE WriteDeps(p)
    BY <2>0, <2>8 DEF WriteDeps
  <2>9. CASE Compile(p)
    BY <2>0, <2>9 DEF Compile
  <2>10. CASE Linking(p)
    <3>1. \A o \in Object : o.whole => Linked(o, TRUE).whole
      BY DEF Linked
    <3>2. CASE pc[p] = "link" /\ Goto(p, "linking") /\ Link(p, FALSE)
      BY <2>0, <2>10, <3>2 DEF Linking, Link
    <3>3. CASE pc[p] = "linking" /\ Goto(p, "move") /\ Link(p, TRUE)
      <4>1. PICK o \in obj[p] : tmp_so' = [tmp_so EXCEPT ![p] = {Linked(o, TRUE)}]
        BY <3>3 DEF Link
      <4>2. Linked(o, TRUE).whole
        BY <2>0, <3>1, <3>3
      <4> QED
        BY <2>0, <2>10, <3>3, <4>1, <4>2 DEF Linking, Link
    <3> QED
      BY <2>10, <3>2, <3>3 DEF Linking
  <2>11. CASE Move(p)
    BY <2>0, <2>11 DEF Move
  <2>12. CASE Load(p)
    BY <2>0, <2>12 DEF Load
  <2>13. CASE Exit(p)
    BY <2>0, <2>13 DEF Exit
  <2>14. CASE Fail(p)
    BY <2>0, <2>14 DEF Fail
  <2>15. CASE Kill(p)
    BY <2>0, <2>15 DEF Kill
  <2> QED
    BY <1>3, <2>1, <2>2, <2>3, <2>4, <2>5, <2>6, <2>7, <2>8, <2>9, <2>10,
       <2>11, <2>12, <2>13, <2>14, <2>15 DEF Step
<1> QED
  BY <1>1, <1>2, <1>3 DEF Next

\* Whatever the processes do at the same time, fail or suffer, nobody
\* compiles or loads a file that somebody is still writing.
THEOREM WholeFiles == Spec => []OnlyWholeFiles
<1>1. Init => IInv
  BY InitType, InitWhole DEF IInv
<1>2. IInv /\ [Next]_vars => IInv'
  BY TypeLemma, StepWhole DEF IInv
<1>3. IInv => OnlyWholeFiles
  BY DEF IInv
<1> QED
  BY <1>1, <1>2, <1>3, PTL DEF Spec
-----------------------------------------------------------------------------
(* Loaded libraries are current. *)

\* The worlds in which they are.
Calm == perils \intersect {"torn_deps", "edit_in_build"} = {}

\* What was made from the source that the processes generate.
New(F) == \A f \in F : f.code = "new"
Single(F) == \A f, g \in F : f = g

\* The places of a call at which its source is installed.
Installed == {"check_cmd", "check_deps", "save_cmd", "read", "compile", "link",
              "linking", "move", "load"}

\* Times tell what is stale: all that was made before the headers or the source
\* changed is older than the change; what is left of a former version is older
\* than anything that was made since.
TimesTell ==
  /\ clock >= 1 /\ header.at <= clock
  /\ deps \subseteq {3} /\ Single(so)
  /\ \A o \in so :
       /\ o.at <= clock
       /\ o.code # "new" => o.at <= 1
       /\ header.at <= o.at => o.header = header.version
  /\ \A c \in cc : c.code = "new" => c.at > 1

\* What each call has made so far.
MadeSoFar ==
  \A p \in Proc :
    /\ since[p] <= header.version
    /\ pc[p] = "install" =>
         tmp_cc[p] # {} /\ New(tmp_cc[p]) /\ \A c \in tmp_cc[p] : c.at > 1
    /\ pc[p] \in Installed => cc # {} /\ New(cc)
    /\ pc[p] \in {"compile", "link", "linking"} =>
         New(obj[p]) /\ \A o \in obj[p] : o.header = header.version
    /\ pc[p] = "move" =>
         /\ New(tmp_so[p]) /\ Single(tmp_so[p])
         /\ \A o \in tmp_so[p] : o.header = header.version /\ o.at <= clock
    /\ pc[p] = "load" => New(so) /\ \A o \in so : o.header >= since[p]

CInv == Calm => TimesTell /\ MadeSoFar /\ LoadedIsCurrent

LEMMA InitCurrent == Init => CInv
<1> SUFFICES ASSUME Init PROVE TimesTell /\ MadeSoFar /\ LoadedIsCurrent
  BY DEF CInv
<1>1. TimesTell
  <2>1. clock = 1 /\ header.at = 0 /\ header.version = 0
    BY DEF Init
  <2>2. CASE cc = {} /\ so = {} /\ deps = {}
    BY <2>1, <2>2 DEF TimesTell, Single
  <2>3. ASSUME NEW s \in Signatures, Leftover(s) PROVE TimesTell
    <3>1. deps = {3}
      BY <2>3, LenNames DEF Leftover
    <3>2. \A o \in so : o.at = 1 /\ o.header = 0
      BY <2>3 DEF Leftover
    <3>3. \A c \in cc : c.code = "old"
      BY <2>3 DEF Leftover
    <3>4. Single(so)
      BY <2>3 DEF Leftover, Single
    <3> QED
      BY <2>1, <3>1, <3>2, <3>3, <3>4 DEF TimesTell
  <2> QED
    BY <2>2, <2>3 DEF Init
<1>2. MadeSoFar
  <2>1. \A p \in Proc : since[p] = 0 /\ header.version = 0
    BY DEF Init
  <2>2. \A p \in Proc : since[p] <= header.version
    <3> TAKE p \in Proc
    <3>1. since[p] = 0 /\ header.version = 0
      BY <2>1
    <3>2. 0 <= 0
      OBVIOUS
    <3> QED
      BY <3>1, <3>2, Zenon
  <2>3. \A p \in Proc : pc[p] \notin Installed \cup {"install"}
    BY DEF Init, Installed
  <2> QED
    BY <2>2, <2>3, Zenon DEF MadeSoFar, Installed
<1>3. LoadedIsCurrent
  BY DEF Init, LoadedIsCurrent
<1> QED
  BY <1>1, <1>2, <1>3

\* The perils are chosen once.
LEMMA PerilsStay == [Next]_vars => perils' = perils
  BY DEF Next, Step, vars, env, Get, WriteSource, Printed, CheckCmd, CheckDeps,
     SaveCmd, ReadSources, WriteDeps, Compile, Linking, Move, Load, Exit, Fail,
     Kill, Edit

\* What vcsn-compile leaves in place was made from what is there.
LEMMA UpToDateLemma ==
  ASSUME TypeOK, TimesTell, MadeSoFar, UpToDate,
         NEW p \in Proc, pc[p] = "check_deps"
  PROVE  \A o \in so : o.code = "new" /\ o.header = header.version
<1>1. PICK n \in deps : n > 0 =>
        \E o \in so : \A i \in 2 .. n : \A t \in TimeOf(i) : t <= o.at
  BY DEF UpToDate
<1>2. n = 3
  BY <1>1 DEF TimesTell
<1>a. n > 0
  BY <1>2
<1>b. \E o \in so : \A i \in 2 .. n : \A t \in TimeOf(i) : t <= o.at
  BY <1>1, <1>a
<1>3. PICK o \in so : \A i \in 2 .. 3 : \A t \in TimeOf(i) : t <= o.at
  BY <1>2, <1>b, Zenon
<1>4. TimeOf(2) = {c.at : c \in cc} /\ TimeOf(3) = {header.at}
  BY DEF TimeOf, Names
<1>5. header.at <= o.at
  BY <1>3, <1>4
<1>6. cc # {} /\ New(cc)
  BY DEF MadeSoFar, Installed
<1>7. PICK c \in cc : c.code = "new"
  BY <1>6 DEF New
<1>8. c.at <= o.at
  BY <1>3, <1>4
<1>9. c.at > 1
  BY <1>7 DEF TimesTell
<1>10. o.at \in Nat /\ c.at \in Nat
  BY DEF TypeOK, Library, Source
<1>11. o.code = "new"
  BY <1>8, <1>9, <1>10 DEF TimesTell
<1>12. o.header = header.version
  BY <1>5 DEF TimesTell
<1>13. \A q \in so : q = o
  BY DEF TimesTell, Single
<1> QED
  BY <1>11, <1>12, <1>13

\* Times tell what is stale after every step.
LEMMA TimesLemma ==
  ASSUME TypeOK, TimesTell, MadeSoFar, [Next]_vars, Calm
  PROVE  TimesTell'
<1>0. /\ clock \in Nat /\ header \in [version : Nat, at : Nat]
      /\ cc \subseteq Source /\ so \subseteq Library
      /\ \A o \in so : o.at \in Nat
      /\ tmp_so \in [Proc -> SUBSET Library]
      /\ pc \in [Proc -> Label]
  BY DEF TypeOK, Library
<1> USE DEF files, temps, procs, env, TimesTell, Single
<1>1. CASE UNCHANGED <<header, cc, so, deps>> /\ clock' \in {clock, clock + 1}
  BY <1>0, <1>1
<1>2. CASE Edit
  BY <1>0, <1>2 DEF Edit
<1>3. ASSUME NEW p \in Proc, Step(p) PROVE TimesTell'
  <2>1. CASE Printed(p)
    <3>1. \A c \in cc' : c.code = "new" => c.at > 1
      BY <2>1 DEF Printed, Install, MadeSoFar
    <3> QED
      BY <1>0, <2>1, <3>1 DEF Printed
  <2>2. CASE WriteDeps(p)
    BY <2>2 DEF WriteDeps, Calm
  <2>3. CASE Compile(p)
    BY <1>0, <2>3, LenNames DEF Compile
  <2>4. CASE Move(p)
    <3>1. /\ \A o \in so' : o.code = "new" /\ o.header = header.version /\ o.at <= clock
          /\ \A o, q \in so' : o = q
      BY <2>4 DEF Move, MadeSoFar, New, Installed
    <3> QED
      BY <1>0, <2>4, <3>1 DEF Move
  <2>5. CASE Linking(p)
    BY <1>0, <1>1, <2>5 DEF Linking, Link
  <2>6. CASE Get(p) \/ WriteSource(p) \/ CheckCmd(p) \/ CheckDeps(p) \/ SaveCmd(p)
    BY <1>1, <2>6 DEF Get, WriteSource, CheckCmd, CheckDeps, SaveCmd
  <2>7. CASE ReadSources(p) \/ Load(p) \/ Exit(p) \/ Fail(p) \/ Kill(p)
    BY <1>1, <2>7 DEF ReadSources, Load, Exit, Fail, Kill
  <2> QED
    BY <1>3, <2>1, <2>2, <2>3, <2>4, <2>5, <2>6, <2>7 DEF Step
<1>4. CASE UNCHANGED vars
  BY <1>1, <1>4 DEF vars
<1> QED
  BY <1>2, <1>3, <1>4 DEF Next

\* What each call has made is current after every step.
LEMMA MadeLemma ==
  ASSUME TypeOK, TimesTell, MadeSoFar, [Next]_vars, Calm
  PROVE  MadeSoFar'
<1>0. /\ clock \in Nat /\ clock + 1 \in Nat /\ clock >= 1
      /\ header \in [version : Nat, at : Nat] /\ header.version \in Nat
      /\ pc \in [Proc -> Label]
      /\ since \in [Proc -> Nat]
      /\ tmp_cc \in [Proc -> SUBSET Source]
      /\ obj \in [Proc -> SUBSET Object]
      /\ tmp_so \in [Proc -> SUBSET Library]
      /\ so \subseteq Library /\ cc \subseteq Source
  BY DEF TypeOK, TimesTell
<1>t. \A q \in Proc : \A o \in tmp_so[q] : o.at \in Nat
  BY <1>0 DEF Library
<1> USE DEF files, temps, procs, env, MadeSoFar, Installed, New, Single, Goto
<1>1. CASE UNCHANGED vars
  BY <1>1 DEF vars
<1>2. CASE Edit
  <2>1. \A q \in Proc : pc[q] \notin {"compile", "link", "linking", "move"}
    BY <1>2 DEF Edit, Calm, Building
  <2>2. header'.version = header.version + 1
    BY <1>2 DEF Edit
  <2>3. \A q \in Proc : since[q] <= header'.version
    BY <1>0, <2>2
  <2> QED
    BY <1>0, <1>2, <2>1, <2>3 DEF Edit
<1>3. ASSUME NEW p \in Proc, Step(p) PROVE MadeSoFar'
  <2>1. CASE Get(p)
    BY <1>0, <2>1 DEF Get
  <2>2. CASE WriteSource(p)
    <3>1. clock + 1 > 1
      BY <1>0
    <3>2. PICK w \in BOOLEAN : tmp_cc' = [tmp_cc EXCEPT ![p] =
            {[code |-> "new", whole |-> w, at |-> clock + 1]}]
      BY <2>2 DEF WriteSource
    <3>3. pc'[p] \in {"printing", "install"}
      BY <1>0, <2>2 DEF WriteSource
    <3>4. \A q \in Proc : q # p => pc'[q] = pc[q] /\ tmp_cc'[q] = tmp_cc[q]
      BY <1>0, <2>2 DEF WriteSource
    <3>a. tmp_cc'[p] = {[code |-> "new", whole |-> w, at |-> clock + 1]}
      BY <1>0, <3>2
    <3>5. tmp_cc'[p] # {} /\ New(tmp_cc'[p]) /\ \A c \in tmp_cc'[p] : c.at > 1
      BY <3>1, <3>a
    <3>6. UNCHANGED <<header, cc, so, obj, tmp_so, since>>
      BY <2>2 DEF WriteSource
    <3>7. \A q \in Proc : pc'[q] = "move" => \A o \in tmp_so[q] : o.at <= clock'
      BY <1>0, <1>t, <2>2, <3>3, <3>4 DEF WriteSource
    <3> QED
      <4> DEFINE Made(q) ==
        /\ pc'[q] = "install" =>
             tmp_cc'[q] # {} /\ New(tmp_cc'[q]) /\ \A c \in tmp_cc'[q] : c.at > 1
        /\ pc'[q] = "move" => \A o \in tmp_so[q] : o.at <= clock'
      <4>1. \A q \in Proc : Made(q)
        BY <3>3, <3>4, <3>5, <3>7
      <4>2. \A q \in Proc : pc'[q] \in Installed => pc'[q] = pc[q]
        BY <3>3, <3>4
      <4> QED
        BY <3>3, <3>4, <3>6, <4>1, <4>2
  <2>3. CASE Printed(p)
    <3>1. tmp_cc[p] # {} /\ \A c \in tmp_cc[p] : c.code = "new"
      BY <2>3 DEF Printed
    <3>2. Contents(cc) = Contents(tmp_cc[p]) => cc # {} /\ \A c \in cc : c.code = "new"
      <4> SUFFICES ASSUME Contents(cc) = Contents(tmp_cc[p])
                   PROVE  cc # {} /\ \A c \in cc : c.code = "new"
        OBVIOUS
      <4>1. PICK d \in tmp_cc[p] : TRUE
        BY <3>1
      <4>2. [code |-> d.code, whole |-> d.whole] \in Contents(cc)
        BY DEF Contents
      <4>3. cc # {}
        BY <4>2 DEF Contents
      <4>4. ASSUME NEW c \in cc PROVE c.code = "new"
        <5>1. [code |-> c.code, whole |-> c.whole] \in Contents(tmp_cc[p])
          BY DEF Contents
        <5>2. PICK e \in tmp_cc[p] : [code |-> c.code, whole |-> c.whole]
                                    = [code |-> e.code, whole |-> e.whole]
          BY <5>1 DEF Contents
        <5>3. [code |-> c.code, whole |-> c.whole].code
                = [code |-> e.code, whole |-> e.whole].code
          BY <5>2
        <5> QED
          BY <3>1, <5>3
      <4> QED
        BY <4>3, <4>4
    <3>3. cc' # {} /\ \A c \in cc' : c.code = "new"
      BY <2>3, <3>1, <3>2 DEF Printed, Install
    <3>4. pc'[p] \in {"read", "check_cmd"}
      BY <1>0, <2>3 DEF Printed
    <3>5. \A q \in Proc : q # p => pc'[q] = pc[q] /\ tmp_cc'[q] = tmp_cc[q]
      BY <1>0, <2>3 DEF Printed, Install
    <3>6. UNCHANGED <<clock, header, so, obj, tmp_so, since>>
      BY <2>3 DEF Printed
    <3> QED
      BY <1>0, <3>3, <3>4, <3>5, <3>6
  <2>4. CASE CheckCmd(p)
    BY <1>0, <2>4 DEF CheckCmd
  <2>5. CASE CheckDeps(p)
    BY <1>0, <2>5, UpToDateLemma DEF CheckDeps
  <2>6. CASE SaveCmd(p)
    BY <1>0, <2>6 DEF SaveCmd
  <2>7. CASE ReadSources(p)
    BY <1>0, <2>7 DEF ReadSources
  <2>8. CASE WriteDeps(p)
    BY <2>8 DEF WriteDeps, Calm
  <2>9. CASE Compile(p)
    BY <1>0, <2>9 DEF Compile
  <2>10. CASE Linking(p)
    BY <1>0, <1>t, <2>10 DEF Linking, Link, Linked
  <2>11. CASE Move(p)
    BY <1>0, <2>11 DEF Move
  <2>12. CASE Load(p)
    BY <1>0, <2>12 DEF Load
  <2>13. CASE Exit(p)
    BY <1>0, <2>13 DEF Exit
  <2>14. CASE Fail(p)
    BY <1>0, <2>14 DEF Fail
  <2>15. CASE Kill(p)
    BY <1>0, <2>15 DEF Kill
  <2> QED
    BY <1>3, <2>1, <2>2, <2>3, <2>4, <2>5, <2>6, <2>7, <2>8, <2>9, <2>10,
       <2>11, <2>12, <2>13, <2>14, <2>15 DEF Step
<1> QED
  BY <1>1, <1>2, <1>3 DEF Next

\* What is in the registries is current after every step.
LEMMA LoadedLemma ==
  ASSUME TypeOK, MadeSoFar, LoadedIsCurrent, [Next]_vars
  PROVE  LoadedIsCurrent'
<1>0. /\ registry \in [Proc -> SUBSET Library] /\ since \in [Proc -> Nat]
  BY DEF TypeOK
<1> USE DEF files, temps, procs, env, LoadedIsCurrent
<1>1. CASE UNCHANGED <<registry, since>>
  BY <1>1
<1>2. ASSUME NEW p \in Proc, Get(p) PROVE LoadedIsCurrent'
  BY <1>0, <1>2 DEF Get
<1>3. ASSUME NEW p \in Proc, Load(p) PROVE LoadedIsCurrent'
  BY <1>0, <1>3 DEF Load, MadeSoFar, New
<1>4. ASSUME NEW p \in Proc, Exit(p) PROVE LoadedIsCurrent'
  BY <1>0, <1>4 DEF Exit
<1>5. ASSUME NEW p \in Proc, Step(p), ~ Get(p), ~ Load(p), ~ Exit(p)
      PROVE  UNCHANGED <<registry, since>>
  BY <1>5 DEF Step, WriteSource, Printed, CheckCmd, CheckDeps, SaveCmd,
     ReadSources, WriteDeps, Compile, Linking, Move, Fail, Kill
<1>6. CASE UNCHANGED vars \/ Edit
  BY <1>1, <1>6 DEF vars, Edit
<1> QED
  BY <1>1, <1>2, <1>3, <1>4, <1>5, <1>6 DEF Next

\* If headers do not change during a build and the compiler writes the list
\* of dependencies at once, a call ends with a library made from the current
\* source and from headers as recent as they were when it started, whatever
\* the other processes do at the same time, fail or suffer.
THEOREM LoadedAreCurrent == Spec => []CurrentUnlessTorn
<1>1. Init => TypeOK /\ CInv
  BY InitType, InitCurrent
<1>2. TypeOK /\ CInv /\ [Next]_vars => (TypeOK /\ CInv)'
  <2> SUFFICES ASSUME TypeOK, CInv, [Next]_vars PROVE TypeOK' /\ CInv'
    OBVIOUS
  <2>1. TypeOK'
    BY TypeLemma
  <2>2. Calm' => Calm
    BY PerilsStay DEF Calm
  <2>3. ASSUME Calm' PROVE TimesTell' /\ MadeSoFar' /\ LoadedIsCurrent'
    BY <2>2, <2>3, TimesLemma, MadeLemma, LoadedLemma DEF CInv
  <2> QED
    BY <2>1, <2>3 DEF CInv
<1>3. CInv => CurrentUnlessTorn
  BY DEF CInv, Calm, CurrentUnlessTorn
<1> QED
  BY <1>1, <1>2, <1>3, PTL DEF Spec

-----------------------------------------------------------------------------
(* One call at a time, and no failure. *)

\* The worlds of AsAskedOneByOne and NoNeedlessBuild.
OneByOne == perils = {"new_signature"}

Solo == \A p, q \in Proc : pc[p] # "idle" /\ pc[q] # "idle" => p = q

\* The saved signature is that of the library, or of the build under way.
Signed ==
  /\ (\A p \in Proc : pc[p] \notin Building) => \A o \in so : cmd = {o.sig}
  /\ \A p \in Proc :
       /\ pc[p] \in Building \cup {"check_deps"} => cmd = {sig[p]}
       /\ pc[p] \in {"compile", "link", "linking"} => \A o \in obj[p] : o.sig = sig[p]
       /\ pc[p] = "move" => \A o \in tmp_so[p] : o.sig = sig[p]
       /\ pc[p] = "load" => \A o \in so : o.sig = sig[p]

SInv == OneByOne => Solo /\ Signed /\ LoadedIsAsAsked

\* No source is newer than what was made from it.
Dated(F) ==
  \A o \in F : o.header = header.version /\ header.at <= o.at
               /\ \A c \in cc : c.at <= o.at

\* Times tell what need not be built: a library that is current is no older
\* than its sources, and its list of dependencies is there.
NoneNewer ==
  /\ \A c \in cc : c.at <= clock
  /\ so # {} => deps = {3}
  /\ \A o \in so :
       /\ o.header <= header.version
       /\ o.header = header.version => header.at <= o.at
       /\ o.code = "new" =>
            cc # {} /\ \A c \in cc : c.code = "new" /\ c.at <= o.at
  /\ \A p \in Proc :
       /\ pc[p] = "install" => \A c \in tmp_cc[p] : c.at <= clock
       /\ pc[p] \in {"link", "linking", "move"} => deps = {3}
       /\ pc[p] = "move" => Dated(tmp_so[p])
       /\ pc[p] = "save_cmd" =>
            ~ \E o \in so : /\ o.code = "new"
                            /\ o.header = header.version
                            /\ o.sig = sig[p]

NInv == OneByOne => NoneNewer

LEMMA InitOne == Init => SInv /\ NInv
<1> SUFFICES ASSUME Init PROVE SInv /\ NInv
  OBVIOUS
<1>i. \A p \in Proc : pc[p] = "idle" /\ registry[p] = {}
  BY DEF Init
<1>1. Solo /\ LoadedIsAsAsked
  BY <1>i DEF Solo, LoadedIsAsAsked
<1>2. \A o \in so : cmd = {o.sig}
  BY DEF Init, Leftover
<1>3. Signed
  BY <1>i, <1>2 DEF Signed, Building
<1>4. clock = 1 /\ header.at = 0 /\ header.version = 0
  BY DEF Init
<1>5. ASSUME cc = {} /\ so = {} /\ deps = {} PROVE NoneNewer
  BY <1>i, <1>5, Zenon DEF NoneNewer
<1>6. ASSUME NEW s \in Signatures, Leftover(s) PROVE NoneNewer
  <2>1. deps = {3}
    BY <1>6, LenNames DEF Leftover
  <2>2. \A o \in so : o.at = 1 /\ o.header = 0 /\ o.code = "old"
    BY <1>6 DEF Leftover
  <2>3. \A c \in cc : c.at = 0
    BY <1>6 DEF Leftover
  <2>4. \A c \in cc : c.at <= clock
    BY <1>4, <2>3
  <2>5. \A o \in so : o.header <= header.version /\ header.at <= o.at
    BY <1>4, <2>2
  <2>6. \A o \in so : o.code # "new"
    BY <2>2
  <2> QED
    BY <1>i, <2>1, <2>4, <2>5, <2>6, Zenon DEF NoneNewer
<1>7. NoneNewer
  BY <1>5, <1>6 DEF Init
<1> QED
  BY <1>1, <1>3, <1>7 DEF SInv, NInv

\* One call at a time, still.
LEMMA SoloLemma ==
  ASSUME TypeOK, Solo, OneByOne, [Next]_vars
  PROVE  Solo'
<1>0. pc \in [Proc -> Label]
  BY DEF TypeOK
<1>1. ASSUME NEW p \in Proc, Get(p) PROVE Solo'
  <2>1. \A q \in Proc : pc[q] = "idle"
    BY <1>1 DEF Get, OneByOne
  <2> QED
    BY <1>0, <1>1, <2>1 DEF Get, Goto, Solo
<1>2. ASSUME NEW p \in Proc, Step(p), ~ Get(p)
      PROVE  /\ \A q \in Proc : q # p => pc'[q] = pc[q]
             /\ pc[p] = "idle" => pc'[p] = "idle"
  BY <1>0, <1>2 DEF Step, WriteSource, Printed, CheckCmd, CheckDeps, SaveCmd,
     ReadSources, WriteDeps, Compile, Linking, Move, Load, Exit, Fail, Kill, Goto
<1>3. ASSUME NEW p \in Proc, Step(p), ~ Get(p) PROVE Solo'
  BY <1>2, <1>3 DEF Solo
<1>4. CASE UNCHANGED vars \/ Edit
  BY <1>4 DEF vars, Edit, Solo
<1> QED
  BY <1>1, <1>3, <1>4 DEF Next

\* The signatures, after every step.
LEMMA SignedLemma ==
  ASSUME TypeOK, Solo, Signed, LoadedIsAsAsked, OneByOne, [Next]_vars
  PROVE  Signed' /\ LoadedIsAsAsked'
<1>0. /\ pc \in [Proc -> Label]
      /\ obj \in [Proc -> SUBSET Object]
      /\ tmp_so \in [Proc -> SUBSET Library]
      /\ registry \in [Proc -> SUBSET Library]
      /\ sig \in [Proc -> Sig]
      /\ \A p \in Proc : \A o \in registry[p] : o.sig = sig[p]
  BY DEF TypeOK, LoadedIsAsAsked
<1> USE DEF files, temps, procs, env, Signed, LoadedIsAsAsked, Goto, Building
<1>1. CASE UNCHANGED vars
  BY <1>1 DEF vars
<1>2. CASE Edit
  BY <1>2 DEF Edit
<1>3. ASSUME NEW p \in Proc, Step(p) PROVE Signed' /\ LoadedIsAsAsked'
  <2>s. \A q \in Proc : pc[p] # "idle" /\ q # p => pc[q] = "idle"
    BY DEF Solo
  <2>1. CASE Get(p)
    BY <1>0, <2>1 DEF Get
  <2>2. CASE WriteSource(p)
    BY <1>0, <2>2 DEF WriteSource
  <2>3. CASE Printed(p)
    <3>1. ~ Direct(p)
      BY DEF Direct, OneByOne
    <3> QED
      BY <1>0, <2>3, <3>1 DEF Printed
  <2>4. CASE CheckCmd(p)
    BY <1>0, <2>4 DEF CheckCmd
  <2>5. CASE CheckDeps(p)
    BY <1>0, <2>s, <2>5 DEF CheckDeps
  <2>6. CASE SaveCmd(p)
    BY <1>0, <2>s, <2>6 DEF SaveCmd
  <2>7. CASE ReadSources(p)
    BY <1>0, <2>7 DEF ReadSources
  <2>8. CASE WriteDeps(p)
    BY <2>8 DEF WriteDeps, OneByOne
  <2>9. CASE Compile(p)
    BY <1>0, <2>9 DEF Compile
  <2>10. CASE Linking(p)
    BY <1>0, <2>10 DEF Linking, Link, Linked
  <2>11. CASE Move(p)
    BY <1>0, <2>s, <2>11 DEF Move
  <2>12. CASE Load(p)
    BY <1>0, <2>12 DEF Load
  <2>13. CASE Exit(p)
    BY <1>0, <2>13 DEF Exit
  <2>14. CASE Fail(p)
    BY <2>14 DEF Fail, OneByOne
  <2>15. CASE Kill(p)
    BY <2>15 DEF Kill, OneByOne
  <2> QED
    BY <1>3, <2>1, <2>2, <2>3, <2>4, <2>5, <2>6, <2>7, <2>8, <2>9, <2>10,
       <2>11, <2>12, <2>13, <2>14, <2>15 DEF Step
<1> QED
  BY <1>1, <1>2, <1>3 DEF Next

\* When builds are neither concurrent nor interrupted, the library that a
\* call loads was built with the signature of its process.
THEOREM LoadedAsAsked == Spec => []AsAskedOneByOne
<1>1. Init => TypeOK /\ SInv
  BY InitType, InitOne
<1>2. TypeOK /\ SInv /\ [Next]_vars => (TypeOK /\ SInv)'
  <2> SUFFICES ASSUME TypeOK, SInv, [Next]_vars PROVE TypeOK' /\ SInv'
    OBVIOUS
  <2>1. TypeOK'
    BY TypeLemma
  <2>2. OneByOne' => OneByOne
    BY PerilsStay DEF OneByOne
  <2>3. ASSUME OneByOne' PROVE Solo' /\ Signed' /\ LoadedIsAsAsked'
    BY <2>2, <2>3, SoloLemma, SignedLemma DEF SInv
  <2> QED
    BY <2>1, <2>3 DEF SInv
<1>3. SInv => AsAskedOneByOne
  BY DEF SInv, OneByOne, AsAskedOneByOne
<1> QED
  BY <1>1, <1>2, <1>3, PTL DEF Spec

\* A library of the current source and headers is up to date.
LEMMA NotUpToDateLemma ==
  ASSUME TypeOK, NoneNewer, ~ UpToDate,
         NEW o \in so, o.code = "new"
  PROVE  o.header # header.version
<1> SUFFICES ASSUME o.header = header.version PROVE FALSE
  OBVIOUS
<1>1. header.at <= o.at /\ \A c \in cc : c.at <= o.at
  BY DEF NoneNewer
<1>2. deps = {3}
  BY DEF NoneNewer
<1>3. TimeOf(2) = {c.at : c \in cc} /\ TimeOf(3) = {header.at}
  BY DEF TimeOf, Names
<1>4. \A i \in 2 .. 3 : \A t \in TimeOf(i) : t <= o.at
  <2>1. \A i \in 2 .. 3 : i = 2 \/ i = 3
    OBVIOUS
  <2> QED
    BY <1>1, <1>3, <2>1
<1>5. 3 > 0
  OBVIOUS
<1> QED
  BY <1>2, <1>4, <1>5, Zenon DEF UpToDate

\* Times tell what need not be built after every step.
LEMMA NoneNewerLemma ==
  ASSUME IInv, TimesTell, MadeSoFar, Solo, Signed, NoneNewer, OneByOne,
         [Next]_vars
  PROVE  NoneNewer'
<1>0. /\ clock \in Nat /\ header.at \in Nat /\ header.version \in Nat
      /\ \A c \in cc : c.at \in Nat
      /\ \A o \in so : o.header \in Nat
      /\ pc \in [Proc -> Label]
      /\ tmp_cc \in [Proc -> SUBSET Source]
      /\ obj \in [Proc -> SUBSET Object]
      /\ tmp_so \in [Proc -> SUBSET Library]
      /\ sig \in [Proc -> Sig]
  BY DEF IInv, TypeOK, Source, Library
<1>d. \A q \in Proc : ~ Direct(q)
  BY DEF Direct, OneByOne
<1> USE DEF files, temps, procs, env, NoneNewer, Goto
<1>1. CASE UNCHANGED vars
  BY <1>1 DEF vars, Dated
<1>2. CASE Edit
  <2>1. \A q \in Proc : pc[q] \notin {"compile", "link", "linking", "move"}
    BY <1>2 DEF Edit, OneByOne, Building
  <2>2. header'.version = header.version + 1 /\ clock' = clock + 1
    BY <1>2 DEF Edit
  <2>3. \A o \in so : o.header <= header'.version /\ o.header # header'.version
    BY <1>0, <2>2
  <2>4. \A n \in Nat : n <= clock => n <= clock'
    BY <1>0, <2>2
  <2>5. \A q \in Proc : \A c \in tmp_cc[q] : c.at \in Nat
    BY <1>0 DEF Source
  <2>6. UNCHANGED <<cc, so, deps, tmp_cc, tmp_so, pc, sig>>
    BY <1>2 DEF Edit
  <2> QED
    BY <1>0, <2>1, <2>3, <2>4, <2>5, <2>6
<1>3. ASSUME NEW p \in Proc, Step(p) PROVE NoneNewer'
  <2>s. \A q \in Proc : pc[p] # "idle" /\ q # p => pc[q] = "idle"
    BY DEF Solo
  <2>1. CASE Get(p)
    BY <1>0, <2>1 DEF Get, Dated
  <2>2. CASE WriteSource(p)
    <3>1. PICK w \in BOOLEAN : tmp_cc' = [tmp_cc EXCEPT ![p] =
            {[code |-> "new", whole |-> w, at |-> clock + 1]}]
      BY <2>2 DEF WriteSource
    <3>2. tmp_cc'[p] = {[code |-> "new", whole |-> w, at |-> clock + 1]}
      BY <1>0, <3>1
    <3>3. \A c \in tmp_cc'[p] : c.at <= clock'
      BY <1>0, <2>2, <3>2 DEF WriteSource
    <3>4. \A c \in cc : c.at <= clock'
      BY <1>0, <2>2 DEF WriteSource
    <3>5. \A q \in Proc : pc'[q] \in {"idle", "printing", "install"}
      BY <1>0, <2>s, <2>2 DEF WriteSource
    <3>6. \A q \in Proc : pc'[q] = "install" => q = p
      BY <1>0, <2>s, <2>2 DEF WriteSource
    <3>7. UNCHANGED <<header, cc, so, deps>>
      BY <2>2 DEF WriteSource
    <3> QED
      BY <3>3, <3>4, <3>5, <3>6, <3>7
  <2>3. CASE Printed(p)
    <3>1. tmp_cc[p] # {} /\ \A c \in tmp_cc[p] : c.code = "new" /\ c.whole = TRUE
      <4>1. \A c \in tmp_cc[p] : c.whole \in BOOLEAN /\ c.whole
        BY <1>0, <2>3 DEF Printed, Source, IInv, Renamed
      <4>2. tmp_cc[p] # {} /\ \A c \in tmp_cc[p] : c.code = "new"
        BY <2>3 DEF Printed, MadeSoFar, New
      <4> QED
        BY <4>1, <4>2
    <3>2. \A c \in cc : c.whole = TRUE
      BY DEF IInv, TypeOK, Source, OnlyWholeFiles
    <3>3. ASSUME NEW o \in so, o.code = "new" PROVE cc' = cc
      <4>1. cc # {} /\ \A c \in cc : c.code = "new"
        BY <3>3
      <4>s. \A F : F # {} /\ (\A c \in F : c.code = "new" /\ c.whole = TRUE)
                   => Contents(F) = {[code |-> "new", whole |-> TRUE]}
        <5>. SUFFICES ASSUME NEW F, F # {}, \A c \in F : c.code = "new" /\ c.whole = TRUE
                      PROVE  Contents(F) = {[code |-> "new", whole |-> TRUE]}
          OBVIOUS
        <5>1. \A c \in F : [code |-> c.code, whole |-> c.whole] = [code |-> "new", whole |-> TRUE]
          OBVIOUS
        <5>2. \A x \in Contents(F) : x = [code |-> "new", whole |-> TRUE]
          BY <5>1 DEF Contents
        <5>3. [code |-> "new", whole |-> TRUE] \in Contents(F)
          BY <5>1 DEF Contents
        <5>. QED
          BY <5>2, <5>3
      <4>2. Contents(cc) = {[code |-> "new", whole |-> TRUE]}
        BY <3>2, <4>1, <4>s
      <4>3. Contents(tmp_cc[p]) = {[code |-> "new", whole |-> TRUE]}
        BY <3>1, <4>s
      <4> QED
        BY <2>3, <4>2, <4>3 DEF Printed, Install
    <3>4. \A c \in cc' : c.at <= clock
      BY <2>3 DEF Printed, Install
    <3>5. \A q \in Proc : pc'[q] \in {"idle", "check_cmd"}
      BY <1>0, <1>d, <2>s, <2>3 DEF Printed
    <3>6. UNCHANGED <<clock, header, so, deps>>
      BY <2>3 DEF Printed
    <3> QED
      BY <3>3, <3>4, <3>5, <3>6
  <2>4. CASE CheckCmd(p)
    <3>1. \A q \in Proc : pc[q] \notin Building
      BY <2>s, <2>4 DEF CheckCmd, Building
    <3>2. \A o \in so : cmd = {o.sig}
      BY <3>1 DEF Signed
    <3> QED
      BY <1>0, <2>4, <3>2 DEF CheckCmd, Dated
  <2>5. CASE CheckDeps(p)
    <3>1. pc'[p] = "save_cmd" => ~ UpToDate
      BY <1>0, <2>5 DEF CheckDeps
    <3>2. pc'[p] = "save_cmd" => \A o \in so : o.code = "new" => o.header # header.version
      BY <3>1, NotUpToDateLemma DEF IInv
    <3> QED
      BY <1>0, <2>5, <3>2 DEF CheckDeps, Dated
  <2>6. CASE SaveCmd(p)
    BY <1>0, <2>6 DEF SaveCmd, Dated
  <2>7. CASE ReadSources(p)
    BY <1>0, <2>7 DEF ReadSources, Dated
  <2>8. CASE WriteDeps(p)
    BY <2>8 DEF WriteDeps, OneByOne
  <2>9. CASE Compile(p)
    BY <1>0, <1>d, <2>9, LenNames DEF Compile, Dated
  <2>10. CASE Linking(p)
    <3>1. PICK w \in BOOLEAN, o \in obj[p] :
            tmp_so' = [tmp_so EXCEPT ![p] = {Linked(o, w)}]
      BY <2>10 DEF Linking, Link
    <3>2. tmp_so'[p] = {Linked(o, w)}
      BY <1>0, <3>1
    <3>3. o.header = header.version
      BY <2>10 DEF Linking, MadeSoFar
    <3>4. header.at <= clock + 1 /\ \A c \in cc : c.at <= clock + 1
      BY <1>0 DEF TimesTell
    <3>5. \A e \in tmp_so'[p] : /\ e.header = header.version /\ header.at <= e.at
                                /\ \A c \in cc : c.at <= e.at
      BY <3>2, <3>3, <3>4 DEF Linked
    <3>6. UNCHANGED <<header, cc, so, deps>> /\ clock' = clock + 1
      BY <2>10 DEF Linking, Link
    <3>7. \A q \in Proc : pc'[q] \in {"idle", "linking", "move"}
      BY <1>0, <2>s, <2>10 DEF Linking
    <3>8. \A q \in Proc : pc'[q] # "idle" => q = p
      BY <1>0, <2>s, <2>10 DEF Linking
    <3>9. deps = {3}
      BY <2>10 DEF Linking
    <3> QED
      BY <3>4, <3>5, <3>6, <3>7, <3>8, <3>9 DEF Dated
  <2>11. CASE Move(p)
    <3>1. /\ \A o \in so' : /\ o.header = header.version /\ header.at <= o.at
                            /\ \A c \in cc : c.at <= o.at
          /\ deps = {3}
      BY <2>11 DEF Move, Dated
    <3>2. cc # {} /\ \A c \in cc : c.code = "new"
      BY <2>11 DEF Move, MadeSoFar, Installed, New
    <3>3. \A q \in Proc : pc'[q] \in {"idle", "load"}
      BY <1>0, <2>s, <2>11 DEF Move
    <3>4. UNCHANGED <<clock, header, cc, deps>>
      BY <2>11 DEF Move
    <3>5. header.version <= header.version
      BY <1>0
    <3> QED
      BY <3>1, <3>2, <3>3, <3>4, <3>5
  <2>12. CASE Load(p)
    BY <1>0, <2>12 DEF Load, Dated
  <2>13. CASE Exit(p)
    BY <1>0, <2>13 DEF Exit, Dated
  <2>14. CASE Fail(p)
    BY <2>14 DEF Fail, OneByOne
  <2>15. CASE Kill(p)
    BY <2>15 DEF Kill, OneByOne
  <2> QED
    BY <1>3, <2>1, <2>2, <2>3, <2>4, <2>5, <2>6, <2>7, <2>8, <2>9, <2>10,
       <2>11, <2>12, <2>13, <2>14, <2>15 DEF Step
<1> QED
  BY <1>1, <1>2, <1>3 DEF Next

\* When builds are neither concurrent nor interrupted, nothing is built when
\* the library in place is that of the current source, of the current headers
\* and of the signature of the caller.
THEOREM NothingIsRebuilt == Spec => []NoNeedlessBuild
<1> DEFINE Inv == IInv /\ CInv /\ SInv /\ NInv
<1>1. Init => Inv
  BY InitType, InitWhole, InitCurrent, InitOne DEF IInv
<1>2. Inv /\ [Next]_vars => Inv'
  <2> SUFFICES ASSUME Inv, [Next]_vars PROVE Inv'
    OBVIOUS
  <2>1. IInv'
    BY TypeLemma, StepWhole DEF IInv
  <2>2. (OneByOne' => OneByOne) /\ (Calm' => Calm)
    BY PerilsStay DEF OneByOne, Calm
  <2>3. OneByOne => Calm
    BY DEF OneByOne, Calm
  <2>4. CInv'
    BY <2>2, TimesLemma, MadeLemma, LoadedLemma DEF CInv, IInv
  <2>5. SInv'
    BY <2>2, SoloLemma, SignedLemma DEF SInv, IInv
  <2>6. NInv'
    BY <2>2, <2>3, NoneNewerLemma DEF NInv, CInv, SInv
  <2> QED
    BY <2>1, <2>4, <2>5, <2>6
<1>3. Inv => NoNeedlessBuild
  BY DEF NInv, NoneNewer, OneByOne, NoNeedlessBuild
<1> HIDE DEF Inv
<1> QED
  BY <1>1, <1>2, <1>3, PTL DEF Spec
=============================================================================
