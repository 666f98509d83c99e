------------------------------ MODULE SshChannel ------------------------------
(***************************************************************************)
(* The buffers of a channel (src/SshChannel.cpp), and the requests by      *)
(* which a channel of each kind comes up (SshChannelShell, SshChannelExec, *)
(* SshChannelPort, SshChannelFtp).  A channel is a record and its methods  *)
(* are functions on it.  Data is a sequence of pieces.                     *)
(***************************************************************************)
EXTENDS Integers, Sequences, SequencesExt

CONSTANTS
    ReadSize,       \* read0_bufsize
    WriteSize,      \* write_bufsize
    ChunkSize       \* maxIOChunkSize

ASSUME SizeAssumption == /\ ReadSize \in Nat \ {0} /\ WriteSize \in Nat \ {0}
                         /\ ChunkSize \in Nat \ {0}

(* dev: QIODevice::isOpen.  lib: the channel of libssh is open.  later: what  *)
(* callLater is to do.                                                        *)
NewChannel(first) ==
    [dev |-> TRUE, lib |-> FALSE, rd |-> <<>>, wr |-> <<>>, timer |-> FALSE,
     eofSent |-> FALSE, later |-> first]

isChannelOpen(c) == c.dev /\ c.lib
First(n, data)   == SubSeq(data, 1, n)
Rest(n, data)    == SubSeq(data, n + 1, Len(data))

(* What does not fit is left out, and the caller is told how much fitted. *)
Fits(c, data) == IF Len(data) < ReadSize - Len(c.rd) THEN Len(data) ELSE ReadSize - Len(c.rd)
appendBuffer(c, data) == [c EXCEPT !.rd = @ \o First(Fits(c, data), data)]

clearBuffers(c) == [c EXCEPT !.rd = <<>>, !.wr = <<>>, !.timer = FALSE]

closeReceived(c) == [clearBuffers(c) EXCEPT !.dev = FALSE, !.lib = FALSE]

(* The channel of libssh stays open: isChannelOpen is asked when the device   *)
(* is closed already.                                                         *)
close(c) == [clearBuffers(c) EXCEPT !.dev = FALSE]

sendEof(c) == IF ~c.eofSent /\ isChannelOpen(c) THEN [c EXCEPT !.eofSent = TRUE] ELSE c

--------------------------------------------------------------------------------
(* What comes after a request that was granted; channelOpened is emitted      *)
(* after the last one.                                                        *)
Chain(kind) ==
    CASE kind = "shell" -> <<"open", "env", "pty", "shell">>
      [] kind = "exec"  -> <<"open", "exec">>
      [] kind = "port"  -> <<"forward">>
      [] kind = "ftp"   -> <<"open", "sftp">>
After(kind, request) ==
    LET chain == Chain(kind)
        i == CHOOSE j \in DOMAIN chain : chain[j] = request
    IN  IF i = Len(chain) THEN "none" ELSE chain[i + 1]
================================================================================
