---------------------------- MODULE MCBuildRunner ----------------------------
(***************************************************************************)
(* BuildRunner on a graph of three providers: "base" provides an image and    *)
(* a tool, "lib" has no Dockerfile and makes two outputs in that image, with  *)
(* the tool, and "app" has a Dockerfile whose build mounts the tool, and an   *)
(* output that requires those of lib as well.                                 *)
(***************************************************************************)
EXTENDS BuildRunner, TLC

CONSTANTS tool, liba, libh, exe, v1, v2

MCOrder == <<"base", "lib", "app">>
MCOutputs == {tool, liba, libh, exe}
MCImages == {"base-image"}
MCProviderOf == [a \in MCOutputs \cup MCImages |->
    CASE a \in {"base-image", tool} -> "base" [] a = exe -> "app" [] OTHER -> "lib"]
MCRequires == [p \in {"base", "lib", "app"} |->
    CASE p = "base" -> {} [] p = "lib" -> {"base-image", tool} [] p = "app" -> {}]
MCBuildRequires == [p \in {"base", "lib", "app"} |-> IF p = "app" THEN {tool} ELSE {}]
MCOutputRequires == [o \in MCOutputs |-> IF o = exe THEN {liba, libh} ELSE {}]
MCRunsOn == [p \in {"base", "lib", "app"} |-> IF p = "app" THEN "app" ELSE "base"]
MCDockerfile == {"base", "app"}

NoDirectories == {}
LibraryDirectory == {libh}

(* A build of everything, and of an output that is not all of its provider. *)
MCGoals == {{exe}, {libh}}

MCVersions == {v1, v2}
SizesDiffer == {}
SizesAgree == {<<v1, v2>>, <<v2, v1>>}

MCSymmetry == Permutations(MCVersions)
=============================================================================
