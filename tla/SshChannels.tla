------------------------------ MODULE SshChannels ------------------------------
(***************************************************************************)
(* What goes through a session once its key is shared: a terminal          *)
(* (src/SshChannelShell.cpp), a command (src/SshChannelExec.cpp) or a      *)
(* forwarded port (src/SshChannelPort.cpp), over the buffers of            *)
(* src/SshChannel.cpp.  The network may be unable to take data for a while *)
(* and takes as much as it likes.                                          *)
(*                                                                         *)
(* An operator whose name ends in _f... is the operator of the same name   *)
(* with one plausible fault; the properties are shown to notice it.        *)
(***************************************************************************)
EXTENDS KeyShare

CONSTANTS
    Talker,         \* the session that opens a channel
    Sizes,          \* of the terminal
    MaxTyped        \* bound: pieces of output

ASSUME TalkerAssumption == Talker \in Sharers
ASSUME TypedAssumption  == MaxTyped \in Nat

VARIABLES
    kind,           \* of the channel, or "none"
    ch,             \* the channel
    ready,          \* shell_ready, or that the channel was opened
    size,           \* term_size, and the size the server knows
    net,            \* external: "free", "pending" or "dead" (ssh_get_status)
    typed,          \* pieces 1..typed were given to write
    sent,           \* external: what the server got
    odd             \* history: what happened to pieces that did not come through

talkVars == <<kind, ch, ready, size, net, typed, sent, odd>>
vars == <<file, share, held, harm, kind, ch, ready, size, net, typed, sent, odd>>

TalkInit ==
    /\ kind = "none" /\ ch = [NewChannel("none") EXCEPT !.dev = FALSE] /\ ready = FALSE
    /\ \E z \in Sizes : size = [asked |-> z, known |-> z]
    /\ net = "free" /\ typed = 0 /\ sent = <<>> /\ odd = {}

SessionReady == share[Talker].state = "ready"

--------------------------------------------------------------------------------
(* createShell, createExec, createPort. *)
createChannel(k) ==
    /\ SessionReady /\ kind = "none"
    /\ kind' = k
    /\ ch' = NewChannel(Head(Chain(k)))
    /\ UNCHANGED <<ready, size, net, typed, sent, odd>>

(* libOpenSession and the requests after it: each is granted, or refused with *)
(* an error that ends the chain.  The size goes with the "pty" request; the   *)
(* environment may be refused without harm.  After a change of the size the   *)
(* shell is requested again.                                                  *)
libRequest ==
    /\ net # "dead" /\ ch.dev
    /\ ch.later \notin {"none", "resize"}
    /\ \/ /\ ch' = [ch EXCEPT !.lib = TRUE, !.later = After(kind, @)]
          /\ size' = IF ch.later = "pty" THEN [size EXCEPT !.known = size.asked] ELSE size
          /\ ready' = (ready \/ After(kind, ch.later) = "none")
          /\ UNCHANGED odd
       \/ /\ ch.later # "env"
          /\ ch' = [ch EXCEPT !.later = "none"]
          /\ odd' = odd \cup {"refused"}
          /\ UNCHANGED <<size, ready>>
    /\ UNCHANGED <<kind, net, typed, sent>>

libChangePtySize ==
    /\ net # "dead" /\ ch.dev
    /\ ch.later = "resize"
    /\ \/ /\ ch' = [ch EXCEPT !.later = "shell"]
          /\ size' = [size EXCEPT !.known = size.asked]
          /\ UNCHANGED odd
       \/ /\ ch' = [ch EXCEPT !.later = "none"]
          /\ odd' = odd \cup {"refused"}
          /\ UNCHANGED size
    /\ UNCHANGED <<kind, ready, net, typed, sent>>

(* A new size is told to the server when the shell runs.  Before that it goes *)
(* with the request of the terminal, unless that was made already ("early").  *)
setTermSize_fNotAgain(z) ==
    /\ kind = "shell" /\ ch.dev /\ z # size.asked
    /\ size' = [size EXCEPT !.asked = z]
    /\ ch' = IF ready /\ ch.later = "none" THEN [ch EXCEPT !.later = "resize"] ELSE ch
    /\ odd' = IF ~ready /\ ch.later = "shell" THEN odd \cup {"early"} ELSE odd
    /\ UNCHANGED <<kind, ready, net, typed, sent>>
setTermSize(z) ==
    /\ kind = "shell" /\ ch.dev /\ z # size.asked
    /\ size' = [size EXCEPT !.asked = z]
    /\ ch' = IF ready THEN [ch EXCEPT !.later = "resize"] ELSE ch
    /\ odd' = IF ~ready /\ ch.later = "shell" THEN odd \cup {"early"} ELSE odd
    /\ UNCHANGED <<kind, ready, net, typed, sent>>

--------------------------------------------------------------------------------
(* write: straight to the network if it takes data, and to the buffer if not. *)
(* What the network does not take of a direct write is lost for the caller    *)
(* that does not look ("cut"), and what does not fit into the buffer as well  *)
(* ("overflow").  A direct write overtakes what is in the buffer.             *)
writeData(data) ==
    \/ /\ net = "dead"
       /\ odd' = odd \cup {"cut"}
       /\ UNCHANGED <<ch, sent>>
    \/ /\ net = "free"
       /\ \E n \in 0..Len(data) :
             /\ sent' = sent \o First(n, data)
             /\ odd' = odd \cup (IF n < Len(data) THEN {"cut"} ELSE {})
                           \cup (IF ch.wr # <<>> THEN {"overtaken"} ELSE {})
       /\ UNCHANGED ch
    \/ /\ net = "pending"
       /\ IF Len(data) > WriteSize - Len(ch.wr)
          THEN odd' = odd \cup {"overflow"} /\ UNCHANGED ch
          ELSE ch' = [ch EXCEPT !.wr = @ \o data, !.timer = TRUE] /\ UNCHANGED odd
       /\ UNCHANGED sent

(* sendText, and readyRead of the socket in front of a port. *)
sendText ==
    /\ isChannelOpen(ch) /\ ready
    /\ \E n \in 1..2 :
          /\ typed + n <= MaxTyped
          /\ typed' = typed + n
          /\ writeData([i \in 1..n |-> typed + i])
    /\ UNCHANGED <<kind, ready, size, net>>

(* The write timer.  A write that fails is told and not tried again.          *)
LeftAfter_fWholeChunk(n, max) == Rest(max, ch.wr)
LeftAfter(n, max) == Rest(n, ch.wr)

writeDataChunk ==
    /\ ch.timer /\ ch.dev
    /\ LET max == IF ChunkSize < Len(ch.wr) THEN ChunkSize ELSE Len(ch.wr)
           off == [ch EXCEPT !.timer = FALSE]
       IN  \/ /\ ch.wr = <<>> \/ net = "dead"
              /\ ch' = off
              /\ UNCHANGED <<sent, odd>>
           \/ /\ ch.wr # <<>> /\ net = "pending"
              /\ UNCHANGED <<ch, sent, odd>>
           \/ /\ ch.wr # <<>> /\ net = "free"
              /\ \E n \in 1..max :
                    /\ sent' = sent \o First(n, ch.wr)
                    /\ ch' = [off EXCEPT !.wr = LeftAfter(n, max),
                                         !.timer = LeftAfter(n, max) # <<>>]
              /\ UNCHANGED odd
           \/ /\ ch.wr # <<>> /\ net = "free"
              /\ ch' = off
              /\ odd' = odd \cup {"failed"}
              /\ UNCHANGED sent
    /\ UNCHANGED <<kind, ready, size, net, typed>>

(* dataReceived; the reader takes everything in readyRead. *)
dataReceived ==
    /\ isChannelOpen(ch) /\ ready
    /\ ch' = [appendBuffer(ch, <<0>>) EXCEPT !.rd = <<>>]
    /\ UNCHANGED <<kind, ready, size, net, typed, sent, odd>>

(* The end: the server closes the channel, or the session does.               *)
channelEnds ==
    /\ kind # "none" /\ ch.dev
    /\ \/ ch.lib /\ ch' = [closeReceived(ch) EXCEPT !.later = "none"]
       \/ ~SessionReady /\ ch' = [close(sendEof(ch)) EXCEPT !.later = "none"]
    /\ odd' = odd \cup {"closed"}
    /\ UNCHANGED <<kind, ready, size, net, typed, sent>>

network ==
    /\ kind # "none" /\ net # "dead"
    /\ net' \in {"free", "pending", "dead"} \ {net}
    /\ UNCHANGED <<kind, ch, ready, size, typed, sent, odd>>

--------------------------------------------------------------------------------
TalkNext ==
    \/ \E k \in {"shell", "exec", "port"} : createChannel(k)
    \/ libRequest \/ libChangePtySize
    \/ \E z \in Sizes : setTermSize(z)
    \/ sendText \/ writeDataChunk \/ dataReceived \/ channelEnds \/ network

Init == KeyInit /\ TalkInit
Next == \/ \E s \in Sharers : KeyNext(s) /\ UNCHANGED talkVars
        \/ TalkNext /\ UNCHANGED keyVars
Spec == Init /\ [][Next]_vars

--------------------------------------------------------------------------------
(* What the server gets is what was typed, in that order and without gaps, as *)
(* far as it was not cut off, refused or overtaken; and what is not sent yet  *)
(* is going to be.                                                            *)
OutputInOrder ==
    odd \cap {"cut", "overtaken", "overflow", "closed"} = {}
        => /\ sent \o ch.wr = [i \in 1..typed |-> i]
           /\ ch.wr # <<>> => ch.timer \/ net = "dead" \/ "failed" \in odd

(* When nothing is left to request, the server knows the size of the terminal *)
(* that is shown, however often and whenever it changed; unless a request was *)
(* refused, or the size changed between the requests ("early").               *)
SizeArrives ==
    (kind = "shell" /\ ch.dev /\ ready /\ ch.later = "none" /\ odd \cap {"refused", "early"} = {})
        => size.known = size.asked
================================================================================
