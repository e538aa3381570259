-------------------------- MODULE MCPodLifecycle --------------------------
(* Instances of PodLifecycle for TLC.                                      *)
EXTENDS PodLifecycle, TLC

TwoSteps == <<1, 3>>
Everything == {"check", "enqueue", "mail", "pipeline", "merge", "analyse", "persist", "trim",
               "s3", "document", "score", "push", "timeout", "raise"}
=============================================================================
