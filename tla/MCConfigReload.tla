---------------------------- MODULE MCConfigReload ----------------------------
(* Instances of ConfigReload for TLC. *)
EXTENDS ConfigReload, TLC

CONSTANTS factory, edited

\* Submitted as a whole: one that a start without a file has, another, the other with an
\* inline secret, and one that no services can be built from.
MCSubmitted ==
  {[version |-> factory, auth |-> "elsewhere", builds |-> TRUE],
   [version |-> edited, auth |-> "elsewhere", builds |-> TRUE],
   [version |-> edited, auth |-> "inline", builds |-> TRUE],
   [version |-> edited, auth |-> "elsewhere", builds |-> FALSE]}
=============================================================================
