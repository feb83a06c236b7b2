------------------------------- MODULE MCBuilds -------------------------------
(* Two compilers, the build trees named for them, in which either may be, and  *)
(* the tree called build.                                                      *)
EXTENDS Builds, TLC

CONSTANTS gcc, clang

MCCompilers == {gcc, clang}
MCDirs == {Bare}
MCSymmetry == Permutations(MCCompilers)
=============================================================================
