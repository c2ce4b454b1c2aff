---------------------------- MODULE MCBuildSteps -----------------------------
(* An instance of BuildSteps for TLC. *)
EXTENDS BuildSteps

Settings(p, c, r, z) == [project |-> p, cluster |-> c, region |-> r, zone |-> z]
Env(p, c, r, z, v) ==
  [project |-> p, cluster |-> c, region |-> r, zone |-> z, version |-> v]
SomeEnvs == { Env("", "", "", "", ""), Env("", "prod", "", "z1", "1.17"),
              Env("mine", "test", "r1", "", ""), Env("mine", "test", "r1", "z1", "0") }
SomeConfigs == { Settings("", "", "", ""), Settings("theirs", "old", "", "z2"),
                 Settings("theirs", "old", "r2", "") }
SomeContexts == { [project |-> "theirs", cluster |-> "old", place |-> "z2"] }
OneVersion == {"1.17"}

\* Roots side by side, and one inside another; one is called like a directory
\* of the source.  A source may have a gopath of its own, too.
SomeRoots == { <<"a">>, <<"a", "b">>, <<"c">> }
SomeComments == { NoPath, <<"c">> }
OwnGopath == { <<"gopath">>, <<"gopath", "src">>, <<"gopath", "src", "a">> }
SomeSources == { {}, {<<"src">>}, {<<"b">>}, OwnGopath }
NoDirectories == { {} }
=============================================================================
