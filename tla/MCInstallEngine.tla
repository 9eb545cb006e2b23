---------------------------- MODULE MCInstallEngine ----------------------------
(***************************************************************************)
(* Small instances of InstallEngine for TLC: one inline file, the binary,  *)
(* an asset directory of two files, the unit and the nginx site, on paths  *)
(* of their own.  The env file is written like the inline file.            *)
(***************************************************************************)
EXTENDS InstallEngine, TLC

MCLeaves == {"inline", "binary", "page", "style", "unit", "site"}
MCInline == {"inline"}
MCManaged == <<"binary", "assets", "unit", "site">>
MCCovers ==
  [t \in {"inline", "binary", "unit", "site"} |-> {t}] @@ ("assets" :> {"page", "style"})
=============================================================================
