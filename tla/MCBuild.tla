------------------------------ MODULE MCBuild ------------------------------
(* Instances of Build for TLC: build.sh as it is, and without coreutils.   *)
EXTENDS Build

BuildSh ==
  <<"m4", "make", "sqlite", "apr", "libxml2", "expat", "bash", "json",
    "libosip", "libyaml", "coreutils">>

\* One benchmark for each kind of Makefile.
Kinds == <<"m4", "make", "sqlite", "apr", "json", "libosip", "coreutils">>
=============================================================================
