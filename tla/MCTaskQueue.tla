----------------------------- MODULE MCTaskQueue -----------------------------
(* Instances of TaskQueue for TLC: two of the error classes. *)
EXTENDS TaskQueue

TwoClasses == {"command_source_api", "provider_api"}

==============================================================================
