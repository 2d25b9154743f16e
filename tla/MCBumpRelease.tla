---------------------------- MODULE MCBumpRelease ----------------------------
(***************************************************************************)
(* The three targets, two versions and an argument that only starts like   *)
(* one, files with one place that matches, with two, and with none.        *)
(***************************************************************************)
EXTENDS BumpRelease

MCTargets == <<"docker-compose.yml", "README.md", "README.ja.md">>
MCSemVer == {"v1.0.0", "v1.1.0"}
MCArguments == MCSemVer \cup {"v1.1.0-rc1"}

Holds(places, mode) == [places |-> places, rest |-> "text", mode |-> mode]
MCContents == {Holds(<<"v1.0.0">>, "0644"), Holds(<<"v1.0.0", "v1.0.0">>, "0755"),
               Holds(<<"v1.1.0-rc1">>, "0644")}

=============================================================================
