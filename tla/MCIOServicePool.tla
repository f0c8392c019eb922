-------------------------- MODULE MCIOServicePool --------------------------
(* Instances of ThreadPool and IOServicePool for TLC.                      *)
EXTENDS IOServicePool
=============================================================================
