-------------------------- MODULE MCServiceSessions --------------------------
(* Instances of ServiceSessions for TLC.                                    *)
EXTENDS ServiceSessions
=============================================================================
