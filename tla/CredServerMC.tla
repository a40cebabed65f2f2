---------------------------- MODULE CredServerMC ----------------------------
(* Small instances of CredServer for TLC. *)
EXTENDS CredServer

CONSTANTS c1, c2, c3

(* Two greeters run as root and one as a user (a screen saver). *)
Greeters == {c1, c2, c3}
RootGreeters == {c1, c2}

One == {c1}
=============================================================================
