--------------------------- MODULE SshChannelsProofs ---------------------------
(***************************************************************************)
(* The size of the terminal arrives, and the output of a channel comes in  *)
(* order and without gaps, for every size of the buffers, any amount of    *)
(* output and any behaviour of the network.  What the sessions do with     *)
(* their keys does not touch the channel.                                  *)
(***************************************************************************)
EXTENDS SshChannels, SequenceTheorems, TLAPS

Fields == {"dev", "lib", "rd", "wr", "timer", "eofSent", "later"}

Shape == DOMAIN ch = Fields /\ DOMAIN size = {"asked", "known"}

(* Of a shell whose requests were granted: the size may only be unknown while *)
(* its next request, or the one after it, is one that carries it.             *)
SizeOnItsWay ==
    (kind = "shell" /\ ch.dev /\ odd \cap {"refused", "early"} = {}) =>
        /\ ch.later \in {"open", "env", "pty", "shell", "resize", "none"}
        /\ ch.later = "none" => ready
        /\ ch.later \in {"shell", "none"} => size.known = size.asked

SizeInv == Shape /\ SizeOnItsWay

LEMMA AfterShell ==
    /\ After("shell", "open") = "env" /\ After("shell", "env") = "pty"
    /\ After("shell", "pty") = "shell" /\ After("shell", "shell") = "none"
<1> DEFINE c == <<"open", "env", "pty", "shell">>
<1>1. Chain("shell") = c
  BY DEF Chain
<1>2. DOMAIN c = 1..4 /\ Len(c) = 4 /\ c[1] = "open" /\ c[2] = "env" /\ c[3] = "pty" /\ c[4] = "shell"
  OBVIOUS
<1> HIDE DEF c
<1>3. \A j \in 1..4 : /\ c[j] = "open" => j = 1
                      /\ c[j] = "env" => j = 2
                      /\ c[j] = "pty" => j = 3
                      /\ c[j] = "shell" => j = 4
  BY <1>2
<1>4. (CHOOSE j \in DOMAIN c : c[j] = "open") = 1
  BY <1>2, <1>3
<1>5. (CHOOSE j \in DOMAIN c : c[j] = "env") = 2
  BY <1>2, <1>3
<1>6. (CHOOSE j \in DOMAIN c : c[j] = "pty") = 3
  BY <1>2, <1>3
<1>7. (CHOOSE j \in DOMAIN c : c[j] = "shell") = 4
  BY <1>2, <1>3
<1> QED BY <1>1, <1>2, <1>4, <1>5, <1>6, <1>7 DEF After

LEMMA SizeInit == Init => SizeInv
BY DEF Init, TalkInit, NewChannel, SizeInv, Shape, Fields, SizeOnItsWay

(* What leaves the channel on its way, and the size, alone.                   *)
LEMMA SizeUntouched ==
    ASSUME SizeInv, DOMAIN ch' = Fields, ch'.later = ch.later, ch'.dev = ch.dev,
           odd \subseteq odd', UNCHANGED <<kind, ready, size>>
    PROVE  SizeInv'
BY DEF SizeInv, Shape, SizeOnItsWay

LEMMA RequestKeepsSize == SizeInv /\ libRequest => SizeInv'
<1> SUFFICES ASSUME SizeInv, libRequest PROVE SizeInv'
  OBVIOUS
<1>1. kind' = kind /\ ch.dev /\ ch.later \notin {"none", "resize"} /\ DOMAIN ch = Fields
  BY DEF libRequest, SizeInv, Shape
<1>2. CASE /\ ch' = [ch EXCEPT !.lib = TRUE, !.later = After(kind, @)]
           /\ size' = IF ch.later = "pty" THEN [size EXCEPT !.known = size.asked] ELSE size
           /\ ready' = (ready \/ After(kind, ch.later) = "none")
           /\ UNCHANGED odd
  <2> DEFINE next == After(kind, ch.later)
  <2> HIDE DEF next
  <2>1. DOMAIN ch' = Fields /\ ch'.later = next /\ ch'.dev = ch.dev
    BY <1>1, <1>2 DEF next, Fields
  <2>2. /\ DOMAIN size' = {"asked", "known"} /\ size'.asked = size.asked
        /\ size'.known = IF ch.later = "pty" THEN size.asked ELSE size.known
    BY <1>2 DEF SizeInv, Shape
  <2>3. ASSUME kind = "shell", odd \cap {"refused", "early"} = {}
        PROVE  /\ ch'.later \in {"env", "pty", "shell", "none"}
               /\ ch'.later = "none" => ready'
               /\ ch'.later \in {"shell", "none"} => size'.known = size'.asked
    <3>1. /\ ch.later \in {"open", "env", "pty", "shell"}
          /\ ch.later = "shell" => size.known = size.asked
      BY <1>1, <2>3 DEF SizeInv, SizeOnItsWay
    <3>2. CASE ch.later = "open"
      BY <2>1, <2>3, <3>2, AfterShell DEF next
    <3>3. CASE ch.later = "env"
      BY <2>1, <2>3, <3>3, AfterShell DEF next
    <3>4. CASE ch.later = "pty"
      BY <2>1, <2>2, <2>3, <3>4, AfterShell DEF next
    <3>5. CASE ch.later = "shell"
      BY <1>2, <2>1, <2>2, <2>3, <3>1, <3>5, AfterShell DEF next
    <3> QED BY <3>1, <3>2, <3>3, <3>4, <3>5
  <2> QED BY <1>1, <1>2, <2>1, <2>2, <2>3 DEF SizeInv, Shape, SizeOnItsWay
<1>3. CASE /\ ch' = [ch EXCEPT !.later = "none"]
           /\ odd' = odd \cup {"refused"}
           /\ UNCHANGED <<size, ready>>
  BY <1>1, <1>3 DEF SizeInv, Shape, SizeOnItsWay
<1> QED BY <1>2, <1>3 DEF libRequest

LEMMA ResizeKeepsSize ==
    SizeInv /\ (libChangePtySize \/ \E z \in Sizes : setTermSize(z)) => SizeInv'
<1> SUFFICES ASSUME SizeInv, libChangePtySize \/ \E z \in Sizes : setTermSize(z)
             PROVE  SizeInv'
  OBVIOUS
<1>1. CASE libChangePtySize
  BY <1>1 DEF libChangePtySize, SizeInv, Shape, Fields, SizeOnItsWay
<1>2. ASSUME NEW z \in Sizes, setTermSize(z) PROVE SizeInv'
  <2>1. CASE ready
    BY <1>2, <2>1 DEF setTermSize, SizeInv, Shape, Fields, SizeOnItsWay
  <2>2. CASE ~ready
    BY <1>2, <2>2 DEF setTermSize, SizeInv, Shape, Fields, SizeOnItsWay
  <2> QED BY <2>1, <2>2
<1> QED BY <1>1, <1>2

LEMMA OtherStepsKeepSize ==
    ASSUME SizeInv,
           \/ \E k \in {"shell", "exec", "port"} : createChannel(k)
           \/ sendText \/ writeDataChunk \/ dataReceived \/ channelEnds \/ network
    PROVE  SizeInv'
<1>1. ASSUME NEW k \in {"shell", "exec", "port"}, createChannel(k) PROVE SizeInv'
  <2>1. k = "shell" => Head(Chain(k)) = "open"
    BY DEF Chain
  <2>2. DOMAIN ch' = Fields /\ ch'.later = Head(Chain(k))
    BY <1>1 DEF createChannel, NewChannel, Fields
  <2> QED BY <1>1, <2>1, <2>2 DEF createChannel, SizeInv, Shape, SizeOnItsWay
<1>2. CASE sendText
  <2> PICK n \in 1..2 : writeData([i \in 1..n |-> typed + i])
    BY <1>2 DEF sendText
  <2>1. odd \subseteq odd' /\ (ch' = ch \/ \E w : ch' = [ch EXCEPT !.wr = w, !.timer = TRUE])
    BY DEF writeData
  <2>2. DOMAIN ch' = Fields /\ ch'.later = ch.later /\ ch'.dev = ch.dev
    BY <2>1 DEF SizeInv, Shape, Fields
  <2> QED BY <1>2, <2>1, <2>2, SizeUntouched DEF sendText
<1>3. CASE writeDataChunk
  <2>1. odd \subseteq odd'
    BY <1>3 DEF writeDataChunk
  <2>2. DOMAIN ch' = Fields /\ ch'.later = ch.later /\ ch'.dev = ch.dev
    BY <1>3 DEF writeDataChunk, SizeInv, Shape, Fields
  <2> QED BY <1>3, <2>1, <2>2, SizeUntouched DEF writeDataChunk
<1>4. CASE dataReceived
  <2>1. odd' = odd /\ \E r, q : ch' = [[ch EXCEPT !.rd = r] EXCEPT !.rd = q]
    BY <1>4 DEF dataReceived, appendBuffer
  <2>2. DOMAIN ch' = Fields /\ ch'.later = ch.later /\ ch'.dev = ch.dev
    BY <2>1 DEF SizeInv, Shape, Fields
  <2> QED BY <1>4, <2>1, <2>2, SizeUntouched DEF dataReceived
<1>5. CASE channelEnds
  <2>1. DOMAIN ch' = Fields /\ ch'.dev = FALSE
    BY <1>5 DEF channelEnds, closeReceived, close, sendEof, clearBuffers, SizeInv, Shape, Fields
  <2> QED BY <1>5, <2>1 DEF channelEnds, SizeInv, Shape, SizeOnItsWay
<1>6. CASE network
  BY <1>6, SizeUntouched DEF network, SizeInv, Shape
<1> QED BY <1>1, <1>2, <1>3, <1>4, <1>5, <1>6

(* However often the user changes the window of a terminal, and whenever: if  *)
(* no request was refused and no change fell between two of them, the server  *)
(* knows the size once there is nothing left to request.                      *)
THEOREM SizeAlwaysArrives == Spec => []SizeArrives
<1>1. SizeInv /\ [Next]_vars => SizeInv'
  <2> SUFFICES ASSUME SizeInv, [Next]_vars PROVE SizeInv'
    OBVIOUS
  <2>1. CASE UNCHANGED talkVars
    BY <2>1 DEF talkVars, SizeInv, Shape, SizeOnItsWay
  <2>2. CASE TalkNext
    BY <2>2, RequestKeepsSize, ResizeKeepsSize, OtherStepsKeepSize DEF TalkNext
  <2>3. UNCHANGED vars => UNCHANGED talkVars
    BY DEF vars, talkVars
  <2> QED BY <2>1, <2>2, <2>3 DEF Next
<1>2. SizeInv => SizeArrives
  BY DEF SizeInv, SizeOnItsWay, SizeArrives
<1> QED BY <1>1, <1>2, SizeInit, PTL DEF Spec
--------------------------------------------------------------------------------
(* The output.                                                                *)

UpTo(n) == [i \in 1..n |-> i]

OutShape ==
    /\ DOMAIN ch = Fields
    /\ typed \in Nat /\ sent \in Seq(Nat) /\ ch.wr \in Seq(Nat)
    /\ kind = "none" => ~ch.dev /\ ch.wr = <<>>

OutInv == OutShape /\ OutputInOrder

LEMMA MoreTyped ==
    ASSUME NEW k \in Nat, NEW n \in Nat
    PROVE  /\ [i \in 1..n |-> k + i] \in Seq(Nat)
           /\ Len([i \in 1..n |-> k + i]) = n
           /\ UpTo(k) \in Seq(Nat)
           /\ UpTo(k) \o [i \in 1..n |-> k + i] = UpTo(k + n)
<1> DEFINE data == [i \in 1..n |-> k + i]
<1>1. data \in Seq(Nat) /\ Len(data) = n /\ \A i \in 1..n : data[i] = k + i
  OBVIOUS
<1>2. UpTo(k) \in Seq(Nat) /\ Len(UpTo(k)) = k /\ \A i \in 1..k : UpTo(k)[i] = i
  BY DEF UpTo
<1>3. UpTo(k + n) \in Seq(Nat) /\ Len(UpTo(k + n)) = k + n /\ \A i \in 1..(k + n) : UpTo(k + n)[i] = i
  BY DEF UpTo
<1> HIDE DEF data
<1>4. /\ UpTo(k) \o data \in Seq(Nat) /\ Len(UpTo(k) \o data) = k + n
      /\ \A i \in 1..(k + n) : (UpTo(k) \o data)[i] = IF i <= k THEN UpTo(k)[i] ELSE data[i - k]
  <2>1. /\ UpTo(k) \o data \in Seq(Nat) /\ Len(UpTo(k) \o data) = Len(UpTo(k)) + Len(data)
        /\ \A i \in 1..(Len(UpTo(k)) + Len(data)) :
              (UpTo(k) \o data)[i] = IF i <= Len(UpTo(k)) THEN UpTo(k)[i] ELSE data[i - Len(UpTo(k))]
    BY ONLY <1>1, <1>2, ConcatProperties, Zenon
  <2> QED BY <1>1, <1>2, <2>1
<1>5. ASSUME NEW i \in 1..(k + n) PROVE (UpTo(k) \o data)[i] = UpTo(k + n)[i]
  <2>1. CASE i <= k
    <3>1. i \in 1..k /\ (UpTo(k) \o data)[i] = UpTo(k)[i]
      BY <1>4, <2>1
    <3> QED BY <1>2, <1>3, <3>1
  <2>2. CASE ~(i <= k)
    <3>1. i - k \in 1..n /\ (UpTo(k) \o data)[i] = data[i - k]
      BY <1>4, <2>2
    <3>2. data[i - k] = k + (i - k)
      BY <1>1, <3>1
    <3> QED BY <1>3, <3>1, <3>2
  <2> QED BY <2>1, <2>2
<1>6. UpTo(k) \o data = UpTo(k + n)
  BY <1>3, <1>4, <1>5, SeqEqual
<1> QED BY <1>1, <1>2, <1>6 DEF data

LEMMA Regrouped ==
    \A s, u, v \in Seq(Nat) : (s \o u) \o v = s \o (u \o v)
BY ConcatAssociative

LEMMA PartsOf ==
    ASSUME NEW w \in Seq(Nat), NEW n \in 0..Len(w)
    PROVE  /\ First(n, w) \in Seq(Nat) /\ Rest(n, w) \in Seq(Nat)
           /\ First(n, w) \o Rest(n, w) = w
           /\ n = Len(w) => First(n, w) = w
<1>1. First(n, w) \in Seq(Nat) /\ Rest(n, w) \in Seq(Nat)
  BY DEF First, Rest
<1>2. First(n, w) \o Rest(n, w) = w
  <2>1. 1 \in 1..(Len(w) + 1) /\ n \in (1 - 1)..Len(w) /\ Len(w) \in n..Len(w)
    OBVIOUS
  <2>2. SubSeq(w, 1, n) \o SubSeq(w, n + 1, Len(w)) = SubSeq(w, 1, Len(w))
    BY ONLY <2>1, w \in Seq(Nat), ConcatAdjacentSubSeq, Zenon
  <2> QED BY <2>2, SubSeqFull DEF First, Rest
<1>3. n = Len(w) => First(n, w) = w
  BY SubSeqFull DEF First
<1> QED BY <1>1, <1>2, <1>3

LEMMA OutInit == Init => OutInv
<1> SUFFICES ASSUME Init PROVE OutInv
  OBVIOUS
<1>1. /\ DOMAIN ch = Fields /\ ch.wr = <<>> /\ ~ch.dev
      /\ typed = 0 /\ sent = <<>> /\ kind = "none"
  BY DEF Init, TalkInit, NewChannel, Fields
<1>2. sent \o ch.wr = <<>> /\ [i \in 1..typed |-> i] = <<>>
  BY <1>1
<1> QED BY <1>1, <1>2 DEF OutInv, OutShape, OutputInOrder

(* What leaves the output, and what is to be sent, alone.                     *)
LEMMA OutputUntouched ==
    ASSUME OutInv, DOMAIN ch' = Fields, ch'.wr = ch.wr, ch'.timer = ch.timer,
           odd \subseteq odd', net' = net \/ net # "dead", kind # "none",
           UNCHANGED <<kind, typed, sent>>
    PROVE  OutInv'
<1>1. OutShape'
  BY DEF OutInv, OutShape
<1>2. OutputInOrder'
  BY DEF OutInv, OutputInOrder
<1> QED BY <1>1, <1>2 DEF OutInv

(* Of the output: all that was given to write is sent or waits.               *)
Whole == sent \o ch.wr = UpTo(typed)
Timed == ch.wr # <<>> => ch.timer \/ net = "dead" \/ "failed" \in odd
Lossless == odd \cap {"cut", "overtaken", "overflow", "closed"} = {}

LEMMA OutputMeans == OutputInOrder <=> (Lossless => Whole /\ Timed)
BY DEF OutputInOrder, Lossless, Whole, Timed, UpTo

LEMMA SendKeepsOutput == OutInv /\ sendText => OutInv'
<1> SUFFICES ASSUME OutInv, sendText PROVE OutInv'
  OBVIOUS
<1> PICK n \in 1..2 : typed' = typed + n /\ writeData([i \in 1..n |-> typed + i])
  BY DEF sendText
<1> DEFINE data == [i \in 1..n |-> typed + i]
<1>1. /\ data \in Seq(Nat) /\ Len(data) = n
      /\ UpTo(typed) \in Seq(Nat) /\ UpTo(typed) \o data = UpTo(typed')
  <2>1. typed \in Nat /\ n \in Nat
    BY DEF OutInv, OutShape
  <2>2. /\ data \in Seq(Nat) /\ Len(data) = n
        /\ UpTo(typed) \in Seq(Nat) /\ UpTo(typed) \o data = UpTo(typed + n)
    BY ONLY <2>1, MoreTyped
  <2> QED BY <2>2
<1>2. writeData(data)
  OBVIOUS
<1> HIDE DEF data
<1>3. kind' = kind /\ net' = net /\ kind # "none" /\ typed' \in Nat
  BY DEF sendText, isChannelOpen, OutInv, OutShape
<1>4. Lossless => Whole /\ Timed
  BY OutputMeans DEF OutInv
<1>5. DOMAIN ch = Fields /\ sent \in Seq(Nat) /\ ch.wr \in Seq(Nat)
  BY DEF OutInv, OutShape
<1>6. CASE /\ odd' = odd \cup {"cut"}
           /\ UNCHANGED <<ch, sent>>
  BY <1>3, <1>5, <1>6, OutputMeans DEF OutInv, OutShape, OutputInOrder
<1>7. ASSUME NEW m \in 0..Len(data),
             sent' = sent \o First(m, data),
             odd' = odd \cup (IF m < Len(data) THEN {"cut"} ELSE {})
                        \cup (IF ch.wr # <<>> THEN {"overtaken"} ELSE {}),
             UNCHANGED ch
      PROVE OutInv'
  <2>1. First(m, data) \in Seq(Nat) /\ (m = Len(data) => First(m, data) = data)
    BY <1>1, <1>7, PartsOf
  <2>2. sent' \in Seq(Nat)
    BY <1>5, <1>7, <2>1, ConcatProperties
  <2>3. ASSUME Lossless' PROVE Whole' /\ Timed'
    <3>1. Lossless
      BY <1>7, <2>3 DEF Lossless
    <3>2. m = Len(data)
      <4>1. ~(m < Len(data))
        BY <1>7, <2>3 DEF Lossless
      <4> QED BY <1>1, <1>7, <4>1
    <3>3. ch.wr = <<>>
      BY <1>7, <2>3 DEF Lossless
    <3>4. sent = UpTo(typed)
      BY <1>4, <1>5, <3>1, <3>3, ConcatEmptySeq DEF Whole
    <3>5. sent' = UpTo(typed')
      BY <1>1, <1>7, <2>1, <3>2, <3>4
    <3>6. sent' \o <<>> = sent'
      BY <2>2, ConcatEmptySeq
    <3> QED BY <1>7, <3>3, <3>5, <3>6 DEF Whole, Timed
  <2>4. OutputInOrder'
    BY <2>3 DEF OutputInOrder, Lossless, Whole, Timed, UpTo
  <2> QED BY <1>3, <1>5, <1>7, <2>2, <2>4 DEF OutInv, OutShape
<1>8. CASE odd' = odd \cup {"overflow"} /\ UNCHANGED <<ch, sent>>
  BY <1>3, <1>5, <1>8, OutputMeans DEF OutInv, OutShape, OutputInOrder
<1>9. CASE ch' = [ch EXCEPT !.wr = @ \o data, !.timer = TRUE] /\ UNCHANGED <<odd, sent>>
  <2>1. DOMAIN ch' = Fields /\ ch'.wr = ch.wr \o data /\ ch'.timer
    BY <1>5, <1>9 DEF Fields
  <2>2. ch'.wr \in Seq(Nat)
    BY <1>1, <1>5, <2>1, ConcatProperties
  <2>3. ASSUME Lossless' PROVE Whole' /\ Timed'
    <3>1. sent \o ch.wr = UpTo(typed)
      BY <1>4, <1>9, <2>3 DEF Lossless, Whole
    <3>2. sent \o (ch.wr \o data) = (sent \o ch.wr) \o data
      <4>1. sent \in Seq(Nat) /\ ch.wr \in Seq(Nat) /\ data \in Seq(Nat)
        BY <1>1, <1>5
      <4> QED BY ONLY <4>1, Regrouped
    <3> QED BY <1>1, <1>9, <2>1, <3>1, <3>2 DEF Whole, Timed
  <2>4. OutputInOrder'
    BY <2>3 DEF OutputInOrder, Lossless, Whole, Timed, UpTo
  <2> QED BY <1>3, <1>9, <1>5, <2>1, <2>2, <2>4 DEF OutInv, OutShape
<1> QED BY <1>2, <1>6, <1>7, <1>8, <1>9 DEF writeData

LEMMA TimerKeepsOutput == OutInv /\ writeDataChunk => OutInv'
<1> SUFFICES ASSUME OutInv, writeDataChunk PROVE OutInv'
  OBVIOUS
<1>1. /\ kind' = kind /\ net' = net /\ typed' = typed /\ kind # "none"
      /\ DOMAIN ch = Fields /\ sent \in Seq(Nat) /\ ch.wr \in Seq(Nat) /\ typed \in Nat
  BY DEF writeDataChunk, OutInv, OutShape
<1> DEFINE max == IF ChunkSize < Len(ch.wr) THEN ChunkSize ELSE Len(ch.wr)
           off == [ch EXCEPT !.timer = FALSE]
<1>2. max \in 0..Len(ch.wr)
  BY <1>1, SizeAssumption
<1>3. DOMAIN off = Fields /\ off.wr = ch.wr
  BY <1>1 DEF Fields
<1> HIDE DEF max
<1>4. Lossless => Whole /\ Timed
  BY OutputMeans DEF OutInv
<1>5. CASE /\ ch.wr = <<>> \/ net = "dead"
           /\ ch' = off
           /\ UNCHANGED <<sent, odd>>
  <2>1. ch'.wr = ch.wr /\ DOMAIN ch' = Fields
    BY <1>3, <1>5
  <2>2. Lossless' => Whole' /\ Timed'
    BY <1>1, <1>4, <1>5, <2>1 DEF Lossless, Whole, Timed
  <2> QED BY <1>1, <1>5, <2>1, <2>2 DEF OutInv, OutShape, OutputInOrder, Lossless, Whole, Timed, UpTo
<1>6. CASE UNCHANGED <<ch, sent, odd>>
  BY <1>1, <1>6 DEF OutInv, OutShape, OutputInOrder
<1>7. ASSUME NEW n \in 1..max,
             sent' = sent \o First(n, ch.wr),
             ch' = [off EXCEPT !.wr = LeftAfter(n, max), !.timer = LeftAfter(n, max) # <<>>],
             UNCHANGED odd
      PROVE OutInv'
  <2>1. DOMAIN ch' = Fields /\ ch'.wr = Rest(n, ch.wr) /\ (ch'.wr # <<>> => ch'.timer)
    BY <1>3, <1>7 DEF LeftAfter, Fields
  <2>2. n \in 0..Len(ch.wr)
    BY <1>1, <1>2
  <2>3. /\ First(n, ch.wr) \in Seq(Nat) /\ Rest(n, ch.wr) \in Seq(Nat)
        /\ First(n, ch.wr) \o Rest(n, ch.wr) = ch.wr
    BY <1>1, <2>2, PartsOf
  <2>4. (sent \o First(n, ch.wr)) \o Rest(n, ch.wr) = sent \o (First(n, ch.wr) \o Rest(n, ch.wr))
    <3>1. sent \in Seq(Nat) /\ First(n, ch.wr) \in Seq(Nat) /\ Rest(n, ch.wr) \in Seq(Nat)
      BY <1>1, <2>3
    <3> QED BY ONLY <3>1, Regrouped
  <2>5. sent' \o ch'.wr = sent \o ch.wr
    BY <1>7, <2>1, <2>3, <2>4
  <2>6. sent' \in Seq(Nat) /\ ch'.wr \in Seq(Nat)
    BY <1>1, <1>7, <2>1, <2>3, ConcatProperties
  <2>7. Lossless' => Whole' /\ Timed'
    BY <1>1, <1>4, <1>7, <2>1, <2>5 DEF Lossless, Whole, Timed
  <2> QED BY <1>1, <2>1, <2>6, <2>7 DEF OutInv, OutShape, OutputInOrder, Lossless, Whole, Timed, UpTo
<1>8. CASE /\ ch' = off
           /\ odd' = odd \cup {"failed"}
           /\ UNCHANGED sent
  <2>1. ch'.wr = ch.wr /\ DOMAIN ch' = Fields
    BY <1>3, <1>8
  <2>2. Lossless' => Whole' /\ Timed'
    BY <1>1, <1>4, <1>8, <2>1 DEF Lossless, Whole, Timed
  <2> QED BY <1>1, <1>8, <2>1, <2>2 DEF OutInv, OutShape, OutputInOrder, Lossless, Whole, Timed, UpTo
<1> QED BY <1>5, <1>6, <1>7, <1>8 DEF writeDataChunk, max

LEMMA OtherStepsKeepOutput ==
    ASSUME OutInv,
           \/ \E k \in {"shell", "exec", "port"} : createChannel(k)
           \/ libRequest \/ libChangePtySize \/ \E z \in Sizes : setTermSize(z)
           \/ dataReceived \/ channelEnds \/ network
    PROVE  OutInv'
<1>1. DOMAIN ch = Fields /\ (kind = "none" => ~ch.dev /\ ch.wr = <<>>)
  BY DEF OutInv, OutShape
<1>2. ASSUME NEW k \in {"shell", "exec", "port"}, createChannel(k) PROVE OutInv'
  <2>1. /\ DOMAIN ch' = Fields /\ ch.wr = <<>> /\ ch'.wr = <<>> /\ kind' = k
        /\ UNCHANGED <<typed, sent, odd>>
    BY <1>1, <1>2 DEF createChannel, NewChannel, Fields
  <2>2. OutShape'
    BY <2>1 DEF OutInv, OutShape
  <2>3. OutputInOrder'
    BY <2>1 DEF OutInv, OutputInOrder
  <2> QED BY <2>2, <2>3 DEF OutInv
<1>3. CASE libRequest
  <2>1. DOMAIN ch' = Fields /\ ch'.wr = ch.wr /\ ch'.timer = ch.timer
    BY <1>1, <1>3 DEF libRequest, Fields
  <2> QED BY <1>1, <1>3, <2>1, OutputUntouched DEF libRequest
<1>4. CASE libChangePtySize
  <2>1. DOMAIN ch' = Fields /\ ch'.wr = ch.wr /\ ch'.timer = ch.timer
    BY <1>1, <1>4 DEF libChangePtySize, Fields
  <2> QED BY <1>1, <1>4, <2>1, OutputUntouched DEF libChangePtySize
<1>5. ASSUME NEW z \in Sizes, setTermSize(z) PROVE OutInv'
  <2>1. DOMAIN ch' = Fields /\ ch'.wr = ch.wr /\ ch'.timer = ch.timer
    BY <1>1, <1>5 DEF setTermSize, Fields
  <2> QED BY <1>5, <2>1, OutputUntouched DEF setTermSize
<1>6. CASE dataReceived
  <2>1. DOMAIN ch' = Fields /\ ch'.wr = ch.wr /\ ch'.timer = ch.timer
    BY <1>1, <1>6 DEF dataReceived, appendBuffer, Fields
  <2> QED BY <1>1, <1>6, <2>1, OutputUntouched DEF dataReceived, isChannelOpen
<1>7. CASE channelEnds
  <2>1. DOMAIN ch' = Fields /\ ch'.wr = <<>>
    BY <1>1, <1>7 DEF channelEnds, closeReceived, close, sendEof, clearBuffers, Fields
  <2> QED BY <1>7, <2>1 DEF channelEnds, OutInv, OutShape, OutputInOrder
<1>8. CASE network
  BY <1>1, <1>8, OutputUntouched DEF network
<1> QED BY <1>2, <1>3, <1>4, <1>5, <1>6, <1>7, <1>8

(* Whatever the network takes and when: as long as nothing was cut off,       *)
(* refused or overtaken, the server has a beginning of what was typed, the    *)
(* buffer has the rest, and its timer runs.                                   *)
THEOREM OutputAlwaysInOrder == Spec => []OutputInOrder
<1>1. OutInv /\ [Next]_vars => OutInv'
  <2> SUFFICES ASSUME OutInv, [Next]_vars PROVE OutInv'
    OBVIOUS
  <2>1. CASE UNCHANGED talkVars
    BY <2>1 DEF talkVars, OutInv, OutShape, OutputInOrder
  <2>2. CASE TalkNext
    BY <2>2, SendKeepsOutput, TimerKeepsOutput, OtherStepsKeepOutput DEF TalkNext
  <2>3. UNCHANGED vars => UNCHANGED talkVars
    BY DEF vars, talkVars
  <2> QED BY <2>1, <2>2, <2>3 DEF Next
<1>2. OutInv => OutputInOrder
  BY DEF OutInv
<1> QED BY <1>1, <1>2, OutInit, PTL DEF Spec
================================================================================
