---------------------------- MODULE MCStartup ----------------------------
(* Small instances of Startup for TLC: prod and one other environment, since *)
(* staging and dev are treated alike by the configuration.                   *)
EXTENDS Startup

AllEnvironments == {"prod", "dev"}
==========================================================================
