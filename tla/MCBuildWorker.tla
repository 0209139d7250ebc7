---------------------------- MODULE MCBuildWorker ----------------------------
\* The worker as it is, with the constants of Worker.cfg.
EXTENDS BuildWorker

=============================================================================
