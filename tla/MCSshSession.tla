----------------------------- MODULE MCSshSession -----------------------------
(* One shell, one command and one tunnelled connection, or fewer of them.     *)
EXTENDS SshSession, TLC

CONSTANTS sh, ex, t1

MCShells == {sh}
MCExecs  == {ex}
MCTunnel == {t1}
MCNone   == {}
===============================================================================
