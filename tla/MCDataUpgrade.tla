---------------------------- MODULE MCDataUpgrade ----------------------------
(***************************************************************************)
(* A small instance of DataUpgrade: two packages that are newer, with      *)
(* different files, one that is older in its first number and newer in a   *)
(* later one, one with a version that is not a number, and one whose       *)
(* version file does not begin with the version.                           *)
(***************************************************************************)
EXTENDS DataUpgrade

MCPackages == {"newer", "newest", "older", "odd", "titled"}
MCFiles == {"version", "data", "rules"}

MCManifest ==
    [p \in MCPackages |-> IF p = "newest" THEN <<"data", "version">>
                          ELSE <<"version", "data", "rules">>]

VersionLine(v) == <<"version", v>>
TypeLine == <<"type", "TIMEZONE">>

MCVersionLines ==
    [p \in MCPackages \cup {"built in"} |->
        CASE p = "built in" -> <<VersionLine("1.10.24.99"), TypeLine>>
          [] p = "newer" -> <<VersionLine("1.10.24.100"), TypeLine>>
          [] p = "newest" -> <<VersionLine("1.11.0.0"), TypeLine>>
          [] p = "older" -> <<VersionLine("1.9.25.0"), TypeLine>>
          [] p = "odd" -> <<VersionLine("1.10.24.x"), TypeLine>>
          [] p = "titled" -> <<TypeLine, VersionLine("1.11.0.0")>>]

MCNumbers ==
    [v \in {"1.10.24.99", "1.10.24.100", "1.11.0.0", "1.9.25.0", "1.10.24.x"} |->
        CASE v = "1.10.24.99" -> <<1, 10, 24, 99>>
          [] v = "1.10.24.100" -> <<1, 10, 24, 100>>
          [] v = "1.11.0.0" -> <<1, 11, 0, 0>>
          [] v = "1.9.25.0" -> <<1, 9, 25, 0>>
          [] v = "1.10.24.x" -> <<1, 10, 24, NotNumber>>]
=============================================================================
