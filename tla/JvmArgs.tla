------------------------------ MODULE JvmArgs ------------------------------
(***************************************************************************)
(* The JVM arguments of a pack.  Every preparation reads the argument      *)
(* file, drops the flags the panel owns, puts its own around the rest and  *)
(* writes the file back, so what it writes is what it reads next time.     *)
(*                                                                         *)
(* An argument is a flag and its value.  One the pack had to quote, a path *)
(* with a space, is read as one argument and written without its quotes.   *)
(***************************************************************************)
EXTENDS Naturals, SequencesExt

CONSTANTS
  PackArgs,  \* what packs ship: sequences of arguments
  Heaps      \* heap plans a server's settings can give: [min, max]

ArgsAssumption == PackArgs \subseteq Seq(UNION {Range(args): args \in PackArgs})

VARIABLES
  shipped,   \* the arguments the pack came with
  file,      \* the arguments in the file
  plan,      \* the heap plan of the server's settings
  applied    \* the file was written for this plan

argsVars == <<shipped, file, plan, applied>>

Arg(flag, value) == [flag |-> flag, value |-> value, spaced |-> FALSE]

\* Broken on purpose (for TuningHolds): only the heap is the panel's.
IsHeapFlag(arg) == arg.flag \in {"-Xms", "-Xmx"}

\* A flag is managed by its name, with whatever value.
MANAGED_PREFIXES == {"-Xms", "-Xmx", "AlwaysPreTouch", "IgnoreUnrecognizedVMOptions", "G1PeriodicGC"}
IsManagedFlag(arg) == arg.flag \in MANAGED_PREFIXES

\* The first governs how the JVM takes every flag after it.
ElasticHeapFlags ==
  <<Arg("IgnoreUnrecognizedVMOptions", TRUE), Arg("AlwaysPreTouch", FALSE), Arg("G1PeriodicGC", TRUE)>>

Kept(args) == FlattenSeq([i \in DOMAIN args |-> IF IsManagedFlag(args[i]) THEN <<>> ELSE <<args[i]>>])

MergeJvmArgs(existing, heap) ==
  ElasticHeapFlags \o Kept(existing) \o <<Arg("-Xms", heap.min), Arg("-Xmx", heap.max)>>

\* What the next reading finds: an argument with a space is two words.
Written(args) ==
  FlattenSeq([i \in DOMAIN args |->
    IF args[i].spaced THEN <<Arg(args[i].flag, args[i].value), Arg("the rest", args[i].value)>> ELSE <<args[i]>>])

Init ==
  /\ shipped \in PackArgs /\ file = shipped
  /\ plan \in Heaps /\ applied = FALSE

\* applyVariablesTxt, applyUserJvmArgs
Apply ==
  /\ file' = Written(MergeJvmArgs(file, plan)) /\ applied' = TRUE
  /\ UNCHANGED <<shipped, plan>>

ChangeSettings(heap) ==
  /\ plan' = heap /\ plan' # plan /\ applied' = FALSE
  /\ UNCHANGED <<shipped, file>>

ReplacePack(args) ==
  /\ shipped' = args /\ file' = args /\ applied' = FALSE
  /\ UNCHANGED plan

Next ==
  \/ Apply
  \/ \E heap \in Heaps: ChangeSettings(heap)
  \/ \E args \in PackArgs: ReplacePack(args)

Spec == Init /\ [][Next]_argsVars

(***************************************************************************)
(* What the file holds when the server starts.                             *)
(***************************************************************************)
\* The last of two equal flags counts; a flag that is not there is off.
Effective(flag) ==
  IF \E i \in DOMAIN file: file[i].flag = flag
  THEN file[CHOOSE i \in DOMAIN file: file[i].flag = flag /\ \A j \in i + 1 .. Len(file): file[j].flag # flag].value
  ELSE FALSE

\* Whatever the pack shipped and however often the file was rewritten, the JVM
\* gets the heap of the current settings and does not touch it all at once,
\* the flag that makes the others harmless stands first, no flag of the panel
\* piles up, and the pack's own arguments are all there in their order, those
\* with a space in them excepted.
TuningHolds ==
  applied =>
    /\ Effective("-Xms") = plan.min /\ Effective("-Xmx") = plan.max
    /\ Effective("AlwaysPreTouch") = FALSE
    /\ Head(file).flag = "IgnoreUnrecognizedVMOptions"
    /\ Len(file) = Len(ElasticHeapFlags) + 2 + Len(Kept(file))
    /\ (\A i \in DOMAIN shipped: ~shipped[i].spaced) => Kept(file) = Kept(shipped)
=============================================================================
