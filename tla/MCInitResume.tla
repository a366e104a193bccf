---------------------------- MODULE MCInitResume ----------------------------
(* An instance of InstanceLifecycle on its own, for the promise that an
   interrupted init resumes at the step it had reached. *)
EXTENDS InstanceLifecycle

MCLineOrder == <<"dev", "main">>
=============================================================================
