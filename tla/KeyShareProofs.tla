---------------------------- MODULE KeyShareProofs ----------------------------
(***************************************************************************)
(* No key gets lost, and a session that is ready has its key in the file,  *)
(* for any number of sessions, any files and any sizes of the buffers, in  *)
(* the cases that KeysKept and ReadyMeansShared do not except.  The        *)
(* argument: as long as nobody else wrote, what a session has read is the  *)
(* beginning of the file, and all of it when it is searched (Reads); and a *)
(* file that gets a whole line at its end keeps its lines (LineAdded).     *)
(***************************************************************************)
EXTENDS SshChannels, TLAPS

Lines == Sharers \cup {NL, "no file", "no directory"}
         \cup UNION {{f[i] : i \in DOMAIN f} : f \in Found}
Texts == Seq(Lines)

Channels == [dev : BOOLEAN, lib : BOOLEAN, rd : Texts, wr : {<<>>}, timer : {FALSE},
             eofSent : {FALSE},
             later : {"send", "open", "sftp", "read", "mkdir", "made", "none"}]
Sharing  == [state : {"established", "ready", "error", "closed"}, error : BOOLEAN, pos : Nat,
             seen : BOOLEAN, ftp : Channels]

KeyTyped == file \in Texts /\ share \in [Sharers -> Sharing]

(* What a session has in its buffer: the beginning of the file, unless more   *)
(* was read than fits; and nothing before it reads.                           *)
Reads(r, f) ==
    /\ r.ftp.later \in {"open", "sftp", "mkdir", "made"} => r.ftp.rd = <<>>
    /\ r.ftp.later # "none" => r.state = "established"
    /\ r.ftp.later = "read" /\ r.seen =>
          /\ f \notin {NoFile, NoDir}
          /\ r.pos <= Len(f)
          /\ \/ r.ftp.rd = First(r.pos, f)
             \/ r.pos > Len(r.ftp.rd) /\ Len(r.ftp.rd) = ReadSize
    /\ r.ftp.later = "made" /\ r.seen => f \in {NoFile, <<>>}

KeyInv ==
    /\ KeyTyped
    /\ harm = {} => /\ held \subseteq Keys(file)
                    /\ \A s \in Sharers :
                          /\ Reads(share[s], file)
                          /\ share[s].state = "ready" /\ ~share[s].error => s \in Keys(file)

--------------------------------------------------------------------------------
(* Texts and their lines. *)

LEMMA NoKeys == Keys(NoFile) = {} /\ Keys(NoDir) = {} /\ Keys(<<>>) = {}
<1>1. DOMAIN <<>> = {}
  OBVIOUS
<1> QED BY <1>1 DEF Keys

LEMMA EndsAreLines == NL \in Lines /\ "no file" \in Lines /\ Sharers \subseteq Lines
BY DEF Lines

LEMMA ALine ==
    ASSUME NEW s \in Sharers
    PROVE  /\ <<s, NL>> \in Texts /\ Len(<<s, NL>>) = 2
           /\ <<s, NL>>[1] = s /\ <<s, NL>>[2] = NL
<1>1. s \in Lines /\ NL \in Lines
  BY EndsAreLines
<1> QED BY <1>1 DEF Texts

LEMMA Joined ==
    ASSUME NEW a \in Texts, NEW b \in Texts
    PROVE  a \o b \in Texts /\ Len(a \o b) = Len(a) + Len(b)
BY DEF Texts

LEMMA TextParts ==
    ASSUME NEW text \in Texts, NEW n \in 0 .. Len(text)
    PROVE  /\ First(n, text) \in Texts /\ Len(First(n, text)) = n
           /\ \A i \in 1 .. n : First(n, text)[i] = text[i]
           /\ Rest(n, text) \in Texts /\ Len(Rest(n, text)) = Len(text) - n
           /\ \A i \in 1 .. (Len(text) - n) : Rest(n, text)[i] = text[n + i]
BY DEF First, Rest, Texts

(* A file whose last line is ended keeps its lines when another one is added. *)
LEMMA LineAdded ==
    ASSUME NEW text \in Texts, NEW s \in Sharers, text = <<>> \/ Last(text) = NL
    PROVE  LET data == text \o <<s, NL>> IN
           /\ data \in Texts /\ Len(data) = Len(text) + 2
           /\ data \notin {NoFile, NoDir}
           /\ Keys(text) \cup {s} \subseteq Keys(data)
<1> DEFINE data == text \o <<s, NL>>
           n == Len(text)
<1>1. <<s, NL>> \in Texts /\ Len(<<s, NL>>) = 2 /\ <<s, NL>>[1] = s /\ <<s, NL>>[2] = NL
  BY ALine
<1>2. /\ data \in Texts /\ Len(data) = n + 2 /\ n \in Nat /\ DOMAIN data = 1 .. (n + 2)
      /\ \A i \in 1 .. n : data[i] = text[i]
      /\ data[n + 1] = s /\ data[n + 2] = NL /\ DOMAIN text = 1 .. n
  BY <1>1 DEF Texts
<1>3. data \notin {NoFile, NoDir}
  <2>1. Len(NoFile) = 1 /\ Len(NoDir) = 1 /\ Len(data) # 1
    BY <1>2 DEF NoFile, NoDir
  <2> HIDE DEF data
  <2> QED BY <2>1
<1> HIDE DEF data
<1>4. s \in Keys(data)
  <2>1. IsLine(data, n + 1)
    <3>1. n + 1 = 1 \/ data[(n + 1) - 1] = NL
      <4>1. CASE text = <<>>
        BY <4>1
      <4>2. CASE text # <<>> /\ Last(text) = NL
        <5>1. n \in 1 .. n /\ text[n] = NL
          BY <1>2, <4>2 DEF Last, Texts
        <5> QED BY <1>2, <5>1
      <4> QED BY <4>1, <4>2
    <3>2. data[(n + 1) + 1] = NL
      <4>1. (n + 1) + 1 = n + 2
        BY <1>2
      <4> QED BY <1>2, <4>1
    <3> QED BY <1>2, <3>1, <3>2, KeyAssumption DEF IsLine
  <2> QED BY <1>2, <1>3, <2>1 DEF Keys
<1>5. ASSUME NEW k \in Keys(text) PROVE k \in Keys(data)
  <2>1. PICK i \in 1 .. n : text[i] = k /\ IsLine(text, i)
    BY <1>2 DEF Keys
  <2>2. text # <<>> /\ text[n] = NL
    BY <1>2, <2>1 DEF Last
  <2> HIDE DEF n
  <2>3. /\ text[i] # NL /\ (i = 1 \/ text[i - 1] = NL) /\ (i = n \/ text[i + 1] = NL)
    BY <2>1 DEF IsLine, n
  <2>4. i \in 1 .. n /\ i # n /\ n \in Nat
    BY <1>2, <2>1, <2>2, <2>3
  <2>5. i + 1 \in 1 .. n /\ (i = 1 \/ i - 1 \in 1 .. n)
    BY <2>4
  <2>6. /\ data[i] = text[i] /\ data[i + 1] = text[i + 1]
        /\ i = 1 \/ data[i - 1] = text[i - 1]
    BY <1>2, <2>4, <2>5
  <2>7. IsLine(data, i) /\ data[i] = k
    BY <2>1, <2>3, <2>4, <2>6 DEF IsLine
  <2>8. i \in DOMAIN data
    BY <1>2, <2>4
  <2> QED BY <1>3, <2>7, <2>8 DEF Keys
<1> QED BY <1>2, <1>3, <1>4, <1>5 DEF data

--------------------------------------------------------------------------------
(* Steps of one session. *)

LEMMA OneChanges ==
    ASSUME KeyInv, NEW s \in Sharers, NEW r \in Sharing, Become(s, r), UNCHANGED <<held, harm>>,
           file' \in Texts,
           harm = {} => /\ Keys(file) \subseteq Keys(file')
                        /\ Reads(r, file')
                        /\ \A t \in Sharers \ {s} : Reads(share[t], file')
                        /\ r.state = "ready" /\ ~r.error => s \in Keys(file')
    PROVE  KeyInv'
<1>1. /\ share \in [Sharers -> Sharing] /\ share' = [share EXCEPT ![s] = r]
  BY DEF KeyInv, KeyTyped, Become
<1>2. /\ share' \in [Sharers -> Sharing] /\ share'[s] = r
      /\ \A t \in Sharers \ {s} : share'[t] = share[t]
  BY <1>1
<1>3. KeyTyped'
  BY <1>2 DEF KeyTyped
<1>4. ASSUME harm' = {}
      PROVE  /\ held' \subseteq Keys(file')
             /\ \A t \in Sharers :
                   /\ Reads(share'[t], file')
                   /\ share'[t].state = "ready" /\ ~share'[t].error => t \in Keys(file')
  BY <1>2, <1>4 DEF KeyInv
<1> QED BY <1>3, <1>4 DEF KeyInv

LEMMA FileStays ==
    ASSUME KeyInv, NEW s \in Sharers, NEW r \in Sharing, Become(s, r),
           UNCHANGED <<file, held, harm>>,
           harm = {} => /\ Reads(r, file)
                        /\ r.state = "ready" => r.error
    PROVE  KeyInv'
BY OneChanges DEF KeyInv, KeyTyped

LEMMA FailedTells ==
    ASSUME NEW r \in Sharing
    PROVE  /\ Failed(r) \in Sharing /\ Failed(r).state = r.state /\ Failed(r).error
           /\ Failed(r).ftp.later = "none"
<1> DEFINE c == [r.ftp EXCEPT !.later = "none"]
<1>1. c \in Channels /\ c.later = "none"
  BY DEF Sharing, Channels
<1>2. Failed(r) = [r EXCEPT !.error = TRUE, !.ftp = c]
  BY DEF Failed, Sharing
<1> HIDE DEF c
<1> QED BY <1>1, <1>2 DEF Sharing

(* A session that waits for nothing of its channel reads nothing.             *)
LEMMA Rests == ASSUME NEW r, NEW f, r.ftp.later = "none" PROVE Reads(r, f)
BY DEF Reads

LEMMA NewFtp ==
    /\ NewChannel("open") \in Channels /\ NewChannel("open").later = "open"
    /\ NewChannel("open").rd = <<>>
<1>1. <<>> \in Texts
  BY DEF Texts
<1> QED BY <1>1 DEF NewChannel, Channels

LEMMA SendPublicKeyInv == ASSUME KeyInv, NEW s \in Sharers, sendPublicKey(s) PROVE KeyInv'
<1>1. /\ share[s] \in Sharing /\ share[s].ftp.later = "send" /\ UNCHANGED <<file, held, harm>>
      /\ harm = {} => Reads(share[s], file)
  BY DEF KeyInv, KeyTyped, sendPublicKey
<1>2. CASE Become(s, [share[s] EXCEPT !.ftp = NewChannel("open")])
  <2> DEFINE r == [share[s] EXCEPT !.ftp = NewChannel("open")]
  <2>1. /\ r \in Sharing /\ r.ftp.later = "open" /\ r.ftp.rd = <<>> /\ r.state = share[s].state
    BY <1>1, NewFtp DEF Sharing
  <2> HIDE DEF r
  <2>2. harm = {} => Reads(r, file) /\ (r.state = "ready" => r.error)
    BY <1>1, <2>1 DEF Reads
  <2>3. Become(s, r)
    BY <1>2 DEF r
  <2> QED BY <1>1, <2>1, <2>2, <2>3, FileStays
<1>3. CASE Become(s, [share[s] EXCEPT !.state = "error", !.error = TRUE, !.ftp.later = "none"])
  <2> DEFINE c == [share[s].ftp EXCEPT !.later = "none"]
             r == [share[s] EXCEPT !.state = "error", !.error = TRUE, !.ftp = c]
  <2>1. c \in Channels /\ c.later = "none"
    BY <1>1 DEF Sharing, Channels
  <2>2. Become(s, r)
    BY <1>1, <1>3 DEF Become, Sharing
  <2> HIDE DEF c
  <2>3. r \in Sharing /\ r.ftp.later = "none" /\ r.state = "error"
    BY <1>1, <2>1 DEF Sharing
  <2> HIDE DEF r
  <2> QED BY <1>1, <2>2, <2>3, Rests, FileStays
<1> QED BY <1>2, <1>3 DEF sendPublicKey

LEMMA AfterFtp == After("ftp", "open") = "sftp" /\ After("ftp", "sftp") = "none"
<1> DEFINE c == <<"open", "sftp">>
<1>1. Chain("ftp") = c
  BY DEF Chain
<1>2. DOMAIN c = 1..2 /\ Len(c) = 2 /\ c[1] = "open" /\ c[2] = "sftp"
  OBVIOUS
<1> HIDE DEF c
<1>3. \A j \in 1..2 : (c[j] = "open" => j = 1) /\ (c[j] = "sftp" => j = 2)
  BY <1>2
<1>4. (CHOOSE j \in DOMAIN c : c[j] = "open") = 1
  BY <1>2, <1>3
<1>5. (CHOOSE j \in DOMAIN c : c[j] = "sftp") = 2
  BY <1>2, <1>3
<1> QED BY <1>1, <1>2, <1>4, <1>5 DEF After

(* A file that is there is not changed by being opened.                       *)
LEMMA Created ==
    ASSUME NEW f \in Texts, f # NoDir
    PROVE  /\ Create(f) \in Texts /\ (f # NoFile => Create(f) = f)
           /\ Create(f) \notin {NoFile, NoDir} /\ Keys(f) \subseteq Keys(Create(f))
           /\ \A r : Reads(r, f) => Reads(r, Create(f))
<1>1. <<>> \in Texts /\ <<>> \notin {NoFile, NoDir}
  <2>1. Len(NoFile) = 1 /\ Len(NoDir) = 1 /\ Len(<<>>) = 0
    BY DEF NoFile, NoDir
  <2>2. <<>> \in Seq(Lines)
    OBVIOUS
  <2> QED BY <2>1, <2>2 DEF Texts
<1>2. CASE f = NoFile
  <2>1. Create(f) = <<>>
    BY <1>2 DEF Create
  <2>2. ASSUME NEW r, Reads(r, NoFile) PROVE Reads(r, <<>>)
    <3>1. ~(r.ftp.later = "read" /\ r.seen)
      BY <2>2 DEF Reads
    <3> QED BY <2>2, <3>1 DEF Reads
  <2> QED BY <1>1, <1>2, <2>1, <2>2, NoKeys
<1>3. CASE f # NoFile
  <2>1. Create(f) = f
    BY <1>3 DEF Create
  <2> QED BY <1>3, <2>1
<1> QED BY <1>2, <1>3

LEMMA FtpRequestInv == ASSUME KeyInv, NEW s \in Sharers, ftpRequest(s) PROVE KeyInv'
<1> DEFINE c == share[s].ftp
           next == After("ftp", c.later)
           d == [c EXCEPT !.later = next, !.lib = TRUE]
           q == [share[s] EXCEPT !.ftp = d]
<1>0. /\ share[s] \in Sharing /\ c \in Channels /\ c.later \in {"open", "sftp"}
      /\ UNCHANGED <<held, harm>>
      /\ harm = {} => Reads(share[s], file)
      /\ file \in Texts
      /\ harm = {} => \A t \in Sharers : Reads(share[t], file)
  BY DEF KeyInv, KeyTyped, ftpRequest, Sharing
<1>1. next \in {"sftp", "none"} /\ d \in Channels /\ d.later = next /\ d.rd = c.rd
  BY <1>0, AfterFtp DEF Channels
<1>2. \/ next # "none" /\ Become(s, q) /\ UNCHANGED file
      \/ next = "none" /\ pull(s, q)
      \/ Become(s, Failed(share[s])) /\ UNCHANGED file
  <2>1. q = [share[s] EXCEPT !.ftp.later = next, !.ftp.lib = TRUE]
    BY <1>0 DEF Sharing, Channels
  <2> QED BY <2>1 DEF ftpRequest
<1> HIDE DEF d, next
<1>3. /\ q \in Sharing /\ q.ftp = d /\ q.state = share[s].state /\ q.error = share[s].error
  BY <1>0, <1>1 DEF Sharing
<1> HIDE DEF q
<1>4. ASSUME harm = {} PROVE d.rd = <<>> /\ q.state = "established"
  BY <1>0, <1>1, <1>3, <1>4 DEF Reads
<1>5. CASE next # "none" /\ Become(s, q) /\ UNCHANGED file
  <2>1. harm = {} => Reads(q, file)
    BY <1>1, <1>3, <1>4, <1>5 DEF Reads
  <2> QED BY <1>0, <1>3, <1>4, <1>5, <2>1, FileStays
<1>6. CASE pull(s, q)
  <2>1. CASE file # NoDir
    <3> DEFINE e == [d EXCEPT !.later = "read"]
               r == [q EXCEPT !.ftp = e, !.pos = 0, !.seen = TRUE]
    <3>1. e \in Channels /\ e.later = "read" /\ e.rd = d.rd
      BY <1>1 DEF Channels
    <3>2. file' = Create(file) /\ Become(s, r)
      <4>1. r = [q EXCEPT !.ftp.later = "read", !.pos = 0, !.seen = TRUE]
        BY <1>3 DEF Sharing
      <4> QED BY <1>6, <2>1, <4>1 DEF pull
    <3> HIDE DEF e
    <3>3. r \in Sharing /\ r.ftp = e /\ r.state = q.state /\ r.pos = 0
      BY <1>3, <3>1 DEF Sharing
    <3> HIDE DEF r
    <3>4. /\ file' \in Texts /\ file' \notin {NoFile, NoDir} /\ Keys(file) \subseteq Keys(file')
          /\ \A x : Reads(x, file) => Reads(x, file')
      BY <1>0, <2>1, <3>2, Created
    <3>5. ASSUME harm = {} PROVE Reads(r, file')
      <4>1. e.rd = <<>> /\ r.state = "established"
        BY <1>4, <3>1, <3>3, <3>5
      <4>2. First(0, file') = <<>> /\ 0 <= Len(file')
        BY <3>4 DEF First, Texts
      <4> QED BY <3>1, <3>3, <3>4, <4>1, <4>2 DEF Reads
    <3>6. harm = {} => r.state # "ready"
      BY <1>4, <3>3
    <3> QED BY <1>0, <3>2, <3>3, <3>4, <3>5, <3>6, OneChanges
  <2>2. CASE file = NoDir
    <3> DEFINE e == [d EXCEPT !.later = "mkdir"]
               r == [q EXCEPT !.ftp = e, !.seen = TRUE]
    <3>1. e \in Channels /\ e.later = "mkdir" /\ e.rd = d.rd
      BY <1>1 DEF Channels
    <3>2. UNCHANGED file /\ Become(s, r)
      <4>1. r = [q EXCEPT !.ftp.later = "mkdir", !.seen = TRUE]
        BY <1>3 DEF Sharing
      <4> QED BY <1>6, <2>2, <4>1 DEF pull
    <3> HIDE DEF e
    <3>3. r \in Sharing /\ r.ftp = e /\ r.state = q.state
      BY <1>3, <3>1 DEF Sharing
    <3> HIDE DEF r
    <3>4. harm = {} => Reads(r, file) /\ r.state # "ready"
      BY <1>4, <3>1, <3>3 DEF Reads
    <3> QED BY <1>0, <3>2, <3>3, <3>4, FileStays
  <2> QED BY <2>1, <2>2
<1>7. CASE Become(s, Failed(share[s])) /\ UNCHANGED file
  BY <1>0, <1>7, FailedTells, Rests, FileStays
<1> QED BY <1>2, <1>5, <1>6, <1>7

LEMMA ClosedTells ==
    ASSUME NEW c \in Channels
    PROVE  LET d == [close(c) EXCEPT !.later = "none"] IN
           /\ d \in Channels /\ d.later = "none"
           /\ close(c) \in Channels
<1>1. <<>> \in Texts
  BY DEF Texts
<1> QED BY <1>1 DEF close, clearBuffers, Channels

LEMMA EndSessionInv == ASSUME KeyInv, NEW s \in Sharers, endSession(s) PROVE KeyInv'
<1> DEFINE d == [close(share[s].ftp) EXCEPT !.later = "none"]
           r == [share[s] EXCEPT !.state = "closed", !.ftp = d]
<1>1. /\ share[s] \in Sharing /\ share[s].ftp \in Channels /\ Become(s, r)
      /\ UNCHANGED <<file, held, harm>>
  BY DEF KeyInv, KeyTyped, Sharing, endSession
<1>2. d \in Channels /\ d.later = "none"
  BY <1>1, ClosedTells
<1> HIDE DEF d
<1>3. r \in Sharing /\ r.ftp.later = "none" /\ r.state = "closed"
  BY <1>1, <1>2 DEF Sharing
<1> HIDE DEF r
<1> QED BY <1>1, <1>3, Rests, FileStays

(* The file is searched, and written.  text is what the session read; if      *)
(* nobody else wrote and all of it was read, it is what the file holds.       *)
LEMMA PulledInv ==
    ASSUME KeyInv, NEW s \in Sharers, NEW r, r = share[s], NEW more \in BOOLEAN,
           Pulled(s, r, more),
           (harm = {} /\ r.seen /\ ~more) => file # NoDir /\ r.ftp.rd = Create(file)
    PROVE  KeyInv'
<1> DEFINE text == r.ftp.rd
           data == text \o <<s, NL>>
           over == [r EXCEPT !.ftp = close(@)]
           Ready(q) == [q EXCEPT !.state = "ready", !.ftp = [close(@) EXCEPT !.later = "none"]]
           d == [close(r.ftp) EXCEPT !.later = "none"]
<1>0. /\ r \in Sharing /\ r.ftp \in Channels /\ text \in Texts
      /\ file \in Texts /\ share \in [Sharers -> Sharing]
      /\ harm = {} => \A t \in Sharers : Reads(share[t], file)
  BY DEF KeyInv, KeyTyped, Sharing, Channels
<1>1. d \in Channels /\ d.later = "none" /\ close(r.ftp) \in Channels
  BY <1>0, ClosedTells
<1>2. CASE /\ Become(s, [over EXCEPT !.state = "error", !.error = TRUE, !.ftp.later = "none"])
           /\ UNCHANGED <<file, held, harm>>
  <2> DEFINE q == [r EXCEPT !.state = "error", !.error = TRUE, !.ftp = d]
  <2>1. q = [over EXCEPT !.state = "error", !.error = TRUE, !.ftp.later = "none"]
    BY <1>0 DEF Sharing
  <2> HIDE DEF d
  <2>2. q \in Sharing /\ q.state = "error" /\ q.ftp.later = "none"
    BY <1>0, <1>1 DEF Sharing
  <2>3. Become(s, q)
    BY <1>2, <2>1
  <2> HIDE DEF q
  <2> QED BY <1>2, <2>2, <2>3, Rests, FileStays
<1>3. CASE /\ Become(s, [over EXCEPT !.ftp.later = "none"])
           /\ UNCHANGED <<file, held, harm>>
  <2> DEFINE q == [r EXCEPT !.ftp = d]
  <2>1. q = [over EXCEPT !.ftp.later = "none"]
    BY <1>0 DEF Sharing
  <2> HIDE DEF d
  <2>2. q \in Sharing /\ q.state = r.state /\ q.error = r.error /\ q.ftp.later = "none"
    BY <1>0, <1>1 DEF Sharing
  <2>3. Become(s, q)
    BY <1>3, <2>1
  <2>4. harm = {} => (q.state = "ready" /\ ~q.error => s \in Keys(file))
    BY <1>0, <2>2 DEF KeyInv
  <2> HIDE DEF q
  <2> QED BY <1>0, <1>3, <2>2, <2>3, <2>4, Rests, OneChanges
<1>4. CASE /\ Become(s, Ready([r EXCEPT !.error = TRUE]))
           /\ UNCHANGED <<file, held, harm>>
  <2> DEFINE q == [r EXCEPT !.error = TRUE, !.state = "ready", !.ftp = d]
  <2>1. q = Ready([r EXCEPT !.error = TRUE])
    BY <1>0 DEF Sharing
  <2> HIDE DEF d
  <2>2. q \in Sharing /\ q.error /\ q.ftp.later = "none"
    BY <1>0, <1>1 DEF Sharing
  <2>3. Become(s, q)
    BY <1>4, <2>1
  <2> HIDE DEF q
  <2> QED BY <1>4, <2>2, <2>3, Rests, FileStays
<1>5. ASSUME s \notin Keys(text), file # NoDir, NEW n \in 1..Len(data),
             file' = push(s, n, data),
             harm' = harm \cup (IF n < Len(data) THEN {"short"} ELSE {})
                          \cup (IF more THEN {"long"} ELSE {})
                          \cup (IF r.seen THEN {} ELSE {"raced"})
                          \cup (IF text # <<>> /\ Last(text) # NL THEN {"joined"} ELSE {}),
             held' = held \cup Keys(file'),
             share' = [t \in Sharers |-> IF t = s THEN Ready(r)
                                         ELSE [share[t] EXCEPT !.seen = FALSE]]
      PROVE  KeyInv'
  <2> DEFINE q == [r EXCEPT !.state = "ready", !.ftp = d]
             others == [t \in Sharers \ {s} |-> [share[t] EXCEPT !.seen = FALSE]]
  <2>1. q = Ready(r)
    BY <1>0 DEF Sharing
  <2> HIDE DEF d
  <2>2. q \in Sharing /\ q.ftp.later = "none" /\ q.state = "ready"
    BY <1>0, <1>1 DEF Sharing
  <2>3. \A t \in Sharers \ {s} :
           LET o == [share[t] EXCEPT !.seen = FALSE] IN
           /\ o \in Sharing /\ ~o.seen /\ o.state = share[t].state /\ o.error = share[t].error
           /\ o.ftp = share[t].ftp
    BY <1>0 DEF Sharing
  <2>4. share'[s] = q /\ \A t \in Sharers \ {s} : share'[t] = [share[t] EXCEPT !.seen = FALSE]
    BY <1>5, <2>1
  <2> HIDE DEF q
  <2>5. share' \in [Sharers -> Sharing]
    BY <1>5, <2>1, <2>2, <2>3
  <2>6. data \in Texts /\ Len(data) = Len(text) + 2 /\ Len(text) \in Nat
    <3>1. <<s, NL>> \in Texts /\ Len(<<s, NL>>) = 2 /\ text \in Texts
      BY <1>0, ALine
    <3> QED BY <3>1 DEF Texts
  <2>7. Create(file) \in Texts /\ Keys(file) \subseteq Keys(Create(file))
    BY <1>0, <1>5, Created
  <2>8. file' \in Texts
    <3> HIDE DEF data
    <3>0. n \in 0 .. Len(data)
      BY <2>6
    <3>1. First(n, data) \in Texts /\ Len(First(n, data)) = n
      BY <2>6, <3>0, TextParts
    <3>2. Rest(n, Create(file)) \in Texts
      BY <2>7 DEF Rest, Texts
    <3>3. file' = First(n, data) \o Rest(n, Create(file))
      BY <1>5, <3>1 DEF push, Written
    <3> QED BY <3>1, <3>2, <3>3 DEF Texts
  <2>9. KeyTyped'
    BY <2>5, <2>8 DEF KeyTyped
  <2>10. ASSUME harm' = {}
         PROVE  /\ held' \subseteq Keys(file')
                /\ \A t \in Sharers :
                      /\ Reads(share'[t], file')
                      /\ share'[t].state = "ready" /\ ~share'[t].error => t \in Keys(file')
    <3>1. harm = {} /\ ~(n < Len(data)) /\ ~more /\ r.seen /\ (text = <<>> \/ Last(text) = NL)
      BY <1>5, <2>10
    <3>2. n = Len(data) /\ text = Create(file)
      BY <2>6, <3>1
    <3>3. file' = data
      <4>1. First(n, data) = data
        BY <2>6, <3>2 DEF First, Texts
      <4>2. Rest(n, text) = <<>> /\ data \o <<>> = data
        BY <1>0, <2>6, <3>2 DEF Rest, Texts
      <4> QED BY <1>5, <2>6, <3>2, <4>1, <4>2 DEF push, Written
    <3>4. Keys(text) \cup {s} \subseteq Keys(data)
      BY <1>0, <3>1, LineAdded
    <3>5. held \subseteq Keys(file) /\ Keys(file) \subseteq Keys(file') /\ s \in Keys(file')
      BY <2>7, <3>1, <3>2, <3>3, <3>4 DEF KeyInv
    <3>6. ASSUME NEW t \in Sharers \ {s}
          PROVE  /\ Reads(share'[t], file')
                 /\ share'[t].state = "ready" /\ ~share'[t].error => t \in Keys(file')
      <4>1. Reads(share[t], file)
            /\ (share[t].state = "ready" /\ ~share[t].error => t \in Keys(file))
        BY <3>1 DEF KeyInv
      <4>2. /\ ~share'[t].seen /\ share'[t].state = share[t].state
            /\ share'[t].error = share[t].error /\ share'[t].ftp = share[t].ftp
        BY <2>3, <2>4
      <4> QED BY <3>5, <4>1, <4>2 DEF Reads
    <3>7. Reads(share'[s], file')
      BY <2>2, <2>4, Rests
    <3> QED BY <1>5, <3>5, <3>6, <3>7
  <2> QED BY <2>9, <2>10 DEF KeyInv
<1> QED BY <1>2, <1>3, <1>4, <1>5 DEF Pulled

LEMMA LibAsyncReadInv == ASSUME KeyInv, NEW s \in Sharers, libAsyncRead(s) PROVE KeyInv'
<1> DEFINE r == share[s]
           left == Len(file) - r.pos
           m == IF ChunkSize < left THEN ChunkSize ELSE left
           got == First(m, Rest(r.pos, file))
           n == Fits(r.ftp, got)
           more == got # <<>> \/ r.pos > Len(r.ftp.rd)
<1>0. /\ r \in Sharing /\ r.ftp \in Channels /\ r.ftp.rd \in Texts /\ r.pos \in Nat
      /\ file \in Texts /\ r.ftp.later = "read"
      /\ harm = {} => Reads(r, file) /\ r.state = "established"
  BY DEF KeyInv, KeyTyped, Sharing, Channels, libAsyncRead, Reads
<1>1. \/ /\ n > 0
         /\ Become(s, [r EXCEPT !.ftp = appendBuffer(@, got), !.pos = @ + Len(got)])
         /\ UNCHANGED <<file, held, harm>>
      \/ n = 0 /\ Pulled(s, r, more)
      \/ /\ Become(s, Failed([r EXCEPT !.ftp = clearBuffers(@)]))
         /\ UNCHANGED <<file, held, harm>>
  BY DEF libAsyncRead
<1>2. /\ got \in Texts
      /\ r.pos <= Len(file) => /\ Len(got) = m /\ m \in 0 .. left /\ left \in Nat
                               /\ \A i \in 1 .. m : got[i] = file[r.pos + i]
      /\ r.pos > Len(file) => got = <<>>
  <2>1. Len(file) \in Nat
    BY <1>0 DEF Texts
  <2>2. CASE r.pos <= Len(file)
    <3>1. /\ Rest(r.pos, file) \in Texts /\ Len(Rest(r.pos, file)) = left
          /\ \A i \in 1 .. left : Rest(r.pos, file)[i] = file[r.pos + i]
      <4>1. r.pos \in 0 .. Len(file) /\ file \in Texts
        BY <1>0, <2>1, <2>2
      <4>2. /\ Rest(r.pos, file) \in Texts /\ Len(Rest(r.pos, file)) = Len(file) - r.pos
            /\ \A i \in 1 .. (Len(file) - r.pos) : Rest(r.pos, file)[i] = file[r.pos + i]
        BY <4>1, TextParts
      <4> QED BY <4>2 DEF left
    <3>2. m \in 0 .. left
      BY <1>0, <2>1, <2>2, SizeAssumption
    <3> HIDE DEF m, left
    <3>3. m \in 0 .. Len(Rest(r.pos, file))
      BY <3>1, <3>2
    <3>4. got \in Texts /\ Len(got) = m /\ \A i \in 1 .. m : got[i] = Rest(r.pos, file)[i]
      BY <3>1, <3>3, TextParts
    <3>5. left \in Nat
      BY <1>0, <2>1, <2>2 DEF left
    <3> QED BY <1>0, <2>1, <2>2, <3>1, <3>2, <3>4, <3>5
  <2>3. CASE r.pos > Len(file)
    <3>1. Rest(r.pos, file) = <<>>
      BY <1>0, <2>1, <2>3 DEF Rest, Texts
    <3>2. m < 0 /\ m \in Int
      BY <1>0, <2>1, <2>3, SizeAssumption
    <3> HIDE DEF m
    <3>3. got = <<>>
      BY <3>1, <3>2 DEF First
    <3> QED BY <1>0, <2>1, <2>3, <3>3 DEF Texts
  <2> QED BY <1>0, <2>1, <2>2, <2>3
<1>3. Len(r.ftp.rd) \in Nat /\ Len(got) \in Nat /\ Len(file) \in Nat /\ r.pos + Len(got) \in Nat
  BY <1>0, <1>2 DEF Texts
<1>4. n = IF Len(got) < ReadSize - Len(r.ftp.rd) THEN Len(got) ELSE ReadSize - Len(r.ftp.rd)
  BY DEF Fits
<1> HIDE DEF n, got, more
<1>5. CASE /\ n > 0
           /\ Become(s, [r EXCEPT !.ftp = appendBuffer(@, got), !.pos = @ + Len(got)])
           /\ UNCHANGED <<file, held, harm>>
  <2> DEFINE rd == r.ftp.rd \o First(n, got)
             c == [r.ftp EXCEPT !.rd = rd]
             q == [r EXCEPT !.ftp = c, !.pos = r.pos + Len(got)]
  <2>1. n \in 0 .. Len(got) /\ First(n, got) \in Texts /\ Len(First(n, got)) = n
        /\ \A i \in 1 .. n : First(n, got)[i] = got[i]
    <3>0. ReadSize \in Nat /\ Len(r.ftp.rd) \in Nat /\ Len(got) \in Nat /\ n > 0
      BY <1>3, <1>5, SizeAssumption
    <3>1. n \in 0 .. Len(got)
      BY <3>0, <1>4
    <3>2. got \in Texts
      BY <1>2
    <3> QED BY <3>1, <3>2, TextParts
  <2>2. rd \in Texts /\ Len(rd) = Len(r.ftp.rd) + n
    <3>1. r.ftp.rd \in Texts /\ First(n, got) \in Texts /\ Len(First(n, got)) = n
      BY <1>0, <2>1
    <3>2. /\ r.ftp.rd \o First(n, got) \in Texts
          /\ Len(r.ftp.rd \o First(n, got)) = Len(r.ftp.rd) + Len(First(n, got))
      BY <3>1, Joined
    <3> QED BY <3>1, <3>2
  <2>3. c = appendBuffer(r.ftp, got)
    BY DEF appendBuffer, n
  <2>4. Become(s, q)
    BY <1>0, <1>5, <2>3
  <2>5. c \in Channels /\ c.rd = rd /\ c.later = "read"
    BY <1>0, <2>2 DEF Channels
  <2> HIDE DEF c
  <2>6. q \in Sharing /\ q.ftp = c /\ q.pos = r.pos + Len(got) /\ q.seen = r.seen /\ q.state = r.state
    BY <1>0, <1>3, <2>5 DEF Sharing
  <2> HIDE DEF q
  <2>7. ASSUME harm = {}, q.seen
        PROVE  /\ file \notin {NoFile, NoDir}
               /\ q.pos <= Len(file)
               /\ \/ rd = First(q.pos, file)
                  \/ q.pos > Len(rd) /\ Len(rd) = ReadSize
    <3>1. /\ file \notin {NoFile, NoDir} /\ r.pos <= Len(file)
          /\ \/ r.ftp.rd = First(r.pos, file)
             \/ r.pos > Len(r.ftp.rd) /\ Len(r.ftp.rd) = ReadSize
      BY <1>0, <2>6, <2>7 DEF Reads
    <3>2. Len(got) = m /\ m \in 0 .. left /\ left \in Nat /\ \A i \in 1 .. m : got[i] = file[r.pos + i]
      BY <1>2, <3>1
    <3>3. q.pos <= Len(file)
      BY <1>0, <1>3, <2>6, <3>2
    <3> HIDE DEF m, left
    <3>4. r.ftp.rd = First(r.pos, file) /\ Len(r.ftp.rd) = r.pos
          /\ \A i \in 1 .. r.pos : r.ftp.rd[i] = file[i]
      <4>1. Len(r.ftp.rd) # ReadSize
        BY <1>3, <1>4, <1>5, SizeAssumption
      <4>2. r.pos \in 0 .. Len(file)
        BY <1>0, <1>3, <3>1
      <4>3. Len(First(r.pos, file)) = r.pos /\ \A i \in 1 .. r.pos : First(r.pos, file)[i] = file[i]
        BY <1>0, <4>2, TextParts
      <4> QED BY <3>1, <4>1, <4>3
    <3>5. CASE n = Len(got)
      <4>1. First(q.pos, file) \in Texts /\ Len(First(q.pos, file)) = q.pos
            /\ \A i \in 1 .. q.pos : First(q.pos, file)[i] = file[i]
        <5>1. q.pos \in 0 .. Len(file)
          BY <1>3, <2>6, <3>3
        <5> QED BY <1>0, <5>1, TextParts
      <4>2. Len(rd) = q.pos
        BY <2>2, <2>6, <3>4, <3>5
      <4>3. ASSUME NEW i \in 1 .. q.pos PROVE rd[i] = file[i]
        <5>1. CASE i <= r.pos
          <6>1. rd[i] = r.ftp.rd[i]
            BY <1>0, <2>1, <3>4, <5>1 DEF Texts
          <6> QED BY <1>0, <3>4, <5>1, <6>1
        <5>2. CASE i > r.pos
          <6>1. i - r.pos \in 1 .. n /\ r.pos + (i - r.pos) = i
            BY <1>0, <1>3, <2>6, <3>5, <5>2
          <6>2. rd[i] = First(n, got)[i - r.pos]
            BY <1>0, <2>1, <3>4, <5>2, <6>1 DEF Texts
          <6>3. First(n, got)[i - r.pos] = got[i - r.pos]
            BY <2>1, <6>1
          <6>4. got[i - r.pos] = file[r.pos + (i - r.pos)]
            BY <3>2, <3>5, <6>1
          <6> QED BY <6>1, <6>2, <6>3, <6>4
        <5>3. r.pos \in Nat /\ i \in Int
          BY <1>0, <1>3, <2>6
        <5> HIDE DEF rd, r
        <5> QED BY <5>1, <5>2, <5>3
      <4> HIDE DEF rd
      <4>4. rd = First(q.pos, file)
        BY <2>2, <4>1, <4>2, <4>3 DEF Texts
      <4> QED BY <3>1, <3>3, <4>4
    <3>6. CASE n # Len(got)
      <4>1. n < Len(got) /\ n = ReadSize - Len(r.ftp.rd)
        BY <1>3, <1>4, <2>1, <3>6
      <4> HIDE DEF rd
      <4>2. q.pos > Len(rd) /\ Len(rd) = ReadSize
        BY <1>0, <1>3, <2>1, <2>2, <2>6, <3>4, <4>1, SizeAssumption
      <4> QED BY <3>1, <3>3, <4>2
    <3> QED BY <3>5, <3>6
  <2> HIDE DEF rd
  <2>8. harm = {} => Reads(q, file) /\ q.state # "ready"
    BY <1>0, <2>5, <2>6, <2>7 DEF Reads
  <2> QED BY <1>5, <2>4, <2>6, <2>8, FileStays
<1>6. CASE n = 0 /\ Pulled(s, r, more)
  <2>1. ASSUME harm = {}, r.seen, ~more PROVE file # NoDir /\ r.ftp.rd = Create(file)
    <3>1. /\ file \notin {NoFile, NoDir} /\ r.pos <= Len(file)
          /\ \/ r.ftp.rd = First(r.pos, file)
             \/ r.pos > Len(r.ftp.rd) /\ Len(r.ftp.rd) = ReadSize
      BY <1>0, <2>1 DEF Reads
    <3>2. got = <<>> /\ ~(r.pos > Len(r.ftp.rd))
      BY <2>1 DEF more
    <3>3. Len(got) = 0 /\ Len(got) = m /\ left \in Nat
      BY <1>2, <3>1, <3>2
    <3>4. r.pos = Len(file)
      BY <1>0, <1>3, <3>3, SizeAssumption
    <3>5. First(Len(file), file) = file
      BY <1>0 DEF First, Texts
    <3> QED BY <3>1, <3>2, <3>4, <3>5 DEF Create
  <2>2. more \in BOOLEAN
    BY DEF more
  <2> QED BY <1>6, <2>1, <2>2, PulledInv
<1>7. CASE /\ Become(s, Failed([r EXCEPT !.ftp = clearBuffers(@)]))
           /\ UNCHANGED <<file, held, harm>>
  <2> DEFINE q == [r EXCEPT !.ftp = clearBuffers(@)]
  <2>1. clearBuffers(r.ftp) \in Channels
    <3>1. <<>> \in Texts
      BY DEF Texts
    <3> QED BY <1>0, <3>1 DEF clearBuffers, Channels
  <2>2. q \in Sharing /\ q.state = r.state
    BY <1>0, <2>1 DEF Sharing
  <2> HIDE DEF q
  <2>3. Become(s, Failed(q))
    BY <1>7 DEF q
  <2> QED BY <1>7, <2>2, <2>3, FailedTells, Rests, FileStays
<1> QED BY <1>1, <1>5, <1>6, <1>7

LEMMA MakeDirPathInv == ASSUME KeyInv, NEW s \in Sharers, makeDirPath(s) PROVE KeyInv'
<1> DEFINE r == share[s]
<1>0. /\ r \in Sharing /\ r.ftp \in Channels /\ r.ftp.later \in {"mkdir", "made"} /\ file \in Texts
      /\ harm = {} => Reads(r, file) /\ r.ftp.rd = <<>> /\ r.state = "established"
      /\ harm = {} => \A t \in Sharers : Reads(share[t], file)
  BY DEF KeyInv, KeyTyped, Sharing, makeDirPath, Reads
<1>1. CASE r.ftp.later = "made"
  <2>1. Pulled(s, r, FALSE)
    BY <1>1 DEF makeDirPath
  <2>2. ASSUME harm = {}, r.seen PROVE file # NoDir /\ r.ftp.rd = Create(file)
    <3>1. file \in {NoFile, <<>>}
      BY <1>0, <1>1, <2>2 DEF Reads
    <3>2. <<>> # NoDir /\ NoFile # NoDir
      BY DEF NoFile, NoDir
    <3> QED BY <1>0, <2>2, <3>1, <3>2 DEF Create
  <2> QED BY <2>1, <2>2, PulledInv
<1>2. CASE r.ftp.later = "mkdir" /\ file = NoDir /\ file' = NoFile
           /\ Become(s, [r EXCEPT !.ftp.later = "made"]) /\ UNCHANGED <<held, harm>>
  <2> DEFINE c == [r.ftp EXCEPT !.later = "made"]
             q == [r EXCEPT !.ftp = c]
  <2>1. c \in Channels /\ c.later = "made" /\ c.rd = r.ftp.rd
    BY <1>0 DEF Channels
  <2>2. Become(s, q)
    BY <1>0, <1>2 DEF Sharing
  <2> HIDE DEF c
  <2>3. q \in Sharing /\ q.ftp = c /\ q.state = r.state
    BY <1>0, <2>1 DEF Sharing
  <2> HIDE DEF q
  <2>4. NoFile \in Texts /\ NoFile # <<>>
    BY DEF NoFile, Texts, Lines
  <2>5. harm = {} => Reads(q, file') /\ q.state # "ready"
    BY <1>0, <1>2, <2>1, <2>3 DEF Reads
  <2>6. ASSUME NEW t \in Sharers \ {s}, Reads(share[t], NoDir) PROVE Reads(share[t], NoFile)
    <3>1. NoDir # <<>> /\ NoDir # NoFile
      BY DEF NoFile, NoDir
    <3> QED BY <2>6, <3>1 DEF Reads
  <2> QED BY <1>0, <1>2, <2>2, <2>3, <2>4, <2>5, <2>6, NoKeys, OneChanges
<1>3. CASE Become(s, Failed(r)) /\ UNCHANGED <<file, held, harm>>
  <2>1. harm = {} => Failed(r).state # "ready"
    BY <1>0, FailedTells
  <2> QED BY <1>0, <1>3, <2>1, FailedTells, Rests, FileStays
<1> QED BY <1>0, <1>1, <1>2, <1>3 DEF makeDirPath

LEMMA KeyStep == ASSUME KeyInv, NEW s \in Sharers, KeyNext(s) PROVE KeyInv'
BY SendPublicKeyInv, FtpRequestInv, LibAsyncReadInv, MakeDirPathInv, EndSessionInv DEF KeyNext

LEMMA KeyStart == Init => KeyInv
<1> SUFFICES ASSUME Init PROVE KeyInv
  OBVIOUS
<1>1. file \in Texts
  <2> DEFINE S == UNION {{f[i] : i \in DOMAIN f} : f \in Found}
  <2>0. S \subseteq Lines
    BY DEF Lines
  <2> HIDE DEF S
  <2>2. ASSUME NEW t \in Seq(S) PROVE t \in Seq(Lines)
    <3>1. t \in [1 .. Len(t) -> S] /\ Len(t) \in Nat
      OBVIOUS
    <3>2. t \in [1 .. Len(t) -> Lines]
      BY <3>1, <2>0
    <3> QED BY <3>1, <3>2
  <2>1. Seq(S) \subseteq Texts
    BY <2>2 DEF Texts
  <2> USE DEF S
  <2> QED BY <2>1, FoundAssumption DEF Init, KeyInit
<1>2. NewSharer \in Sharing /\ NewSharer.state = "established" /\ NewSharer.ftp.later = "send"
  <2>1. <<>> \in Texts
    BY DEF Texts
  <2> DEFINE c == [NewChannel("send") EXCEPT !.dev = FALSE]
  <2>2. c \in Channels /\ c.later = "send"
    BY <2>1 DEF NewChannel, Channels
  <2> HIDE DEF c
  <2>3. NewSharer = [state |-> "established", error |-> FALSE, pos |-> 0, seen |-> TRUE, ftp |-> c]
    BY DEF NewSharer, c
  <2> QED BY <2>2, <2>3 DEF Sharing
<1>3. share = [s \in Sharers |-> NewSharer] /\ held = Keys(file)
  BY DEF Init, KeyInit
<1>4. \A s \in Sharers : Reads(share[s], file) /\ share[s].state # "ready"
  BY <1>2, <1>3 DEF Reads
<1> QED BY <1>1, <1>2, <1>3, <1>4 DEF KeyInv, KeyTyped

LEMMA KeyInvariant == Spec => []KeyInv
<1>1. KeyInv /\ [Next]_vars => KeyInv'
  <2> SUFFICES ASSUME KeyInv, [Next]_vars PROVE KeyInv'
    OBVIOUS
  <2>1. CASE UNCHANGED keyVars
    BY <2>1 DEF keyVars, KeyInv, KeyTyped
  <2>2. UNCHANGED vars => UNCHANGED keyVars
    BY DEF vars, keyVars
  <2> QED BY <2>1, <2>2, KeyStep DEF Next
<1> QED BY <1>1, KeyStart, PTL DEF Spec

(* onPullDone writes what it read with its own key behind it: every key that  *)
(* was ever in the file stays there, unless one of the exceptions happened.   *)
THEOREM NoKeyIsLost == Spec => []KeysKept
<1>1. KeyInv => KeysKept
  BY DEF KeyInv, KeysKept
<1> QED BY <1>1, KeyInvariant, PTL

(* A session that gets ready without an error has its key in the file.        *)
THEOREM ReadyHasItsKey == Spec => []ReadyMeansShared
<1>1. KeyInv => ReadyMeansShared
  BY DEF KeyInv, ReadyMeansShared
<1> QED BY <1>1, KeyInvariant, PTL
================================================================================

