------------------------------- MODULE MCWorker -------------------------------
(* Instances of Worker for TLC: two error classes; responses report no usage. *)
EXTENDS Worker

TwoClasses == {"command_source_api", "provider_api"}

==============================================================================
