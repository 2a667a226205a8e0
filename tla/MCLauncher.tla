---------------------------- MODULE MCLauncher ----------------------------
(* Values for the launcher's constants. *)
EXTENDS Launcher
MCWorkerModules == <<"detection_worker">>
=============================================================================
