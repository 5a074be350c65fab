-------------------------- MODULE MCConfiguration --------------------------
(* Two servers, two packs and two requests on three ports; packs of up to  *)
(* three arguments; two mods in two versions each; two hosts, one with an  *)
(* observed peak.                                                          *)
EXTENDS Configuration, TLC

Arg(name, is, inPath) == [flag |-> name, value |-> is, spaced |-> inPath]
Words ==
  {Arg("-Xmx", 9, FALSE), Arg("AlwaysPreTouch", TRUE, FALSE),
   Arg("gc", TRUE, FALSE), Arg("netty", 4, FALSE), Arg("agent", 1, TRUE)}
MCPackArgs == UNION {[1 .. n -> Words]: n \in 0 .. 3}
MCHeaps == {[min |-> 1, max |-> 4], [min |-> 2, max |-> 6]}

\* What the pack requires, and what each file may require of the other mod; a
\* newer file takes no more than one version of it.
Needed == {<<{1, 2}, {}>>, <<{1}, {2}>>}
MCWishes ==
  {[o \in {OwnMods} \cup (Id \X Version) |->
      IF o = OwnMods THEN ("a" :> n[1]) @@ ("b" :> n[2])
      ELSE [id \in Id |-> IF id = o[1] THEN {} ELSE w[o]]]:
     n \in Needed, w \in {x \in [Id \X Version -> SUBSET Version]: \A id \in Id: x[<<id, 2>>] # Version}}

MCHistories == {("h1" :> 0) @@ ("h2" :> 2)}
=============================================================================
