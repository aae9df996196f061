------------------------------ MODULE MC_Session ------------------------------
(* One session whose peer sends up to three frames: enough for two        *)
(* handler tasks to be live when the session ends, and for a bad frame to *)
(* arrive after them or a data frame to block the receiver first.         *)
EXTENDS Session

MCMaxFrames == 3
=============================================================================
