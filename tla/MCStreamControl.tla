----------------------------- MODULE MCStreamControl ---------------------------
(***************************************************************************)
(* StreamControl with the surroundings the runs need.                      *)
(***************************************************************************)
EXTENDS StreamControl

\* One client after the other; clients at once, that may be served on each other's
\* socket and whose disconnects clear the map together; files that do not open.
PassEnvs == { {"pause"}, {"pause", "delete"}, {"overlap"}, {"nofile"} }

\* One client after the other.
SingleEnvs == { {"pause", "delete"} }

\* Clients with a stream each.
OverlapEnvs == { {"overlap"} }
================================================================================
