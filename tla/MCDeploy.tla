------------------------------ MODULE MCDeploy ------------------------------
(* A deployment, finished or aborted, and the run of the script that the   *)
(* operator makes after it.                                                *)
EXTENDS Deploy
=============================================================================
