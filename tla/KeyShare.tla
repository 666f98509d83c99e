------------------------------- MODULE KeyShare -------------------------------
(***************************************************************************)
(* How a session puts its public key on the server: sendPublicKey and      *)
(* onPullDone (src/SshSession.cpp) over an sftp channel                    *)
(* (src/SshChannelFtp.cpp).  The file authorized_keys is read into memory, *)
(* searched, and written again with the key at its end.  Several sessions  *)
(* may do so on one server; the file has no lock.                          *)
(*                                                                         *)
(* An operator whose name ends in _f... is the operator of the same name   *)
(* with one plausible fault; the properties are shown to notice it.        *)
(***************************************************************************)
EXTENDS SshChannel

CONSTANTS
    Sharers,        \* sessions to one server; each stands for its key as well
    Found           \* the files that may be on the server at the start

NL == "\n"
ASSUME KeyAssumption   == NL \notin Sharers
ASSUME FoundAssumption == Found \subseteq Seq(UNION {{f[i] : i \in DOMAIN f} : f \in Found})

NoFile == <<"no file">>
NoDir  == <<"no directory">>

VARIABLES
    file,           \* external: the content of authorized_keys: keys and ends of lines
    share,          \* the sessions: state, lastError, and the sftp channel
    held,           \* history: keys that were in the file
    harm            \* history: what may take a key out of the file again

keyVars == <<file, share, held, harm>>

(* A line that holds two keys is neither.  *)
IsLine(text, i) ==
    /\ text[i] # NL
    /\ i = 1 \/ text[i - 1] = NL
    /\ i = Len(text) \/ text[i + 1] = NL
Keys(text) == {text[i] : i \in {j \in DOMAIN text : text \notin {NoFile, NoDir} /\ IsLine(text, j)}}

(* pos: what was read.  seen: the file has not been written by another since  *)
(* the reading began.                                                         *)
NewSharer ==
    [state |-> "established", error |-> FALSE, pos |-> 0, seen |-> TRUE,
     ftp |-> [NewChannel("send") EXCEPT !.dev = FALSE]]

KeyInit ==
    /\ file \in Found
    /\ share = [s \in Sharers |-> NewSharer]
    /\ held = Keys(file)
    /\ harm = {}

Become(s, r) == share' = [share EXCEPT ![s] = r]

(* setLastError: the session keeps its state, and the channel stays. *)
Failed(r) == [r EXCEPT !.error = TRUE, !.ftp.later = "none"]

--------------------------------------------------------------------------------
(* sendPublicKey. *)
sendPublicKey(s) ==
    /\ share[s].ftp.later = "send"
    /\ \/ Become(s, [share[s] EXCEPT !.ftp = NewChannel("open")])
       \/ Become(s, [share[s] EXCEPT !.state = "error", !.error = TRUE, !.ftp.later = "none"])
    /\ UNCHANGED <<file, held, harm>>

(* The requests; after the last one pull is called. *)
Create(text) == IF text = NoFile THEN <<>> ELSE text
pull(s, r) ==
    IF file # NoDir
    THEN /\ file' = Create(file)
         /\ Become(s, [r EXCEPT !.ftp.later = "read", !.pos = 0, !.seen = TRUE])
    ELSE /\ Become(s, [r EXCEPT !.ftp.later = "mkdir", !.seen = TRUE])
         /\ UNCHANGED file

ftpRequest(s) ==
    /\ share[s].ftp.later \in {"open", "sftp"}
    /\ LET r == share[s]
           next == After("ftp", r.ftp.later)
           q == [r EXCEPT !.ftp.later = next, !.ftp.lib = TRUE]
       IN  \/ /\ next # "none" /\ Become(s, q)
              /\ UNCHANGED file
           \/ next = "none" /\ pull(s, q)
           \/ Become(s, Failed(r)) /\ UNCHANGED file
    /\ UNCHANGED <<held, harm>>

(* push: from the beginning of the file, whose rest stays.  A short write is  *)
(* not noticed; a failed one is told by lastError only.                       *)
Written(text, data) == data \o Rest(Len(data), text)

push_fKeyOnly(s, n, data) == Written(Create(file), <<s, NL>>)
push_fWithoutKey(s, n, data) == Written(Create(file), First(Len(data) - 2, data))
push(s, n, data) == Written(Create(file), First(n, data))

(* onPullDone, in readyRead.  It may find the own key unreadable; and it      *)
(* leaves the session as it is if the key is already there.                   *)
Pulled(s, r, more) ==
    LET text == r.ftp.rd
        data == text \o <<s, NL>>
        over == [r EXCEPT !.ftp = close(@)]
        Ready(q) == [q EXCEPT !.state = "ready", !.ftp = [close(@) EXCEPT !.later = "none"]]
        others == [t \in Sharers \ {s} |-> [share[t] EXCEPT !.seen = FALSE]]
    IN  \/ /\ Become(s, [over EXCEPT !.state = "error", !.error = TRUE, !.ftp.later = "none"])
           /\ UNCHANGED <<file, held, harm>>
        \/ /\ s \in Keys(text)
           /\ Become(s, [over EXCEPT !.ftp.later = "none"])
           /\ UNCHANGED <<file, held, harm>>
        \/ /\ s \notin Keys(text) /\ file # NoDir
           /\ \E n \in 1..Len(data) :
                 /\ file' = push(s, n, data)
                 /\ harm' = harm \cup (IF n < Len(data) THEN {"short"} ELSE {})
                                 \cup (IF more THEN {"long"} ELSE {})
                                 \cup (IF r.seen THEN {} ELSE {"raced"})
                                 \cup (IF text # <<>> /\ Last(text) # NL THEN {"joined"} ELSE {})
           /\ held' = held \cup Keys(file')
           /\ share' = [t \in Sharers |-> IF t = s THEN Ready(r) ELSE others[t]]
        \/ /\ s \notin Keys(text)
           /\ Become(s, Ready([r EXCEPT !.error = TRUE]))
           /\ UNCHANGED <<file, held, harm>>

(* libAsyncRead: the reading ends with the file, or with a full buffer. *)
libAsyncRead(s) ==
    /\ share[s].ftp.later = "read"
    /\ LET r == share[s]
           got == First(IF ChunkSize < Len(file) - r.pos THEN ChunkSize ELSE Len(file) - r.pos,
                        Rest(r.pos, file))
           n == Fits(r.ftp, got)
       IN  \/ /\ n > 0
              /\ Become(s, [r EXCEPT !.ftp = appendBuffer(@, got), !.pos = @ + Len(got)])
              /\ UNCHANGED <<file, held, harm>>
           \/ n = 0 /\ Pulled(s, r, got # <<>> \/ r.pos > Len(r.ftp.rd))
           \/ /\ Become(s, Failed([r EXCEPT !.ftp = clearBuffers(@)]))
              /\ UNCHANGED <<file, held, harm>>

(* makeDirPath, one directory; and then as if an empty file had been read. *)
makeDirPath(s) ==
    /\ share[s].ftp.later \in {"mkdir", "made"}
    /\ IF share[s].ftp.later = "made" THEN Pulled(s, share[s], FALSE)
       ELSE /\ \/ /\ file = NoDir /\ file' = NoFile
                  /\ Become(s, [share[s] EXCEPT !.ftp.later = "made"])
               \/ Become(s, Failed(share[s])) /\ UNCHANGED file
            /\ UNCHANGED <<held, harm>>

(* The user, or the network: the session ends, and its channel with it. *)
endSession(s) ==
    /\ share[s].state # "closed"
    /\ Become(s, [share[s] EXCEPT !.state = "closed", !.ftp = [close(@) EXCEPT !.later = "none"]])
    /\ UNCHANGED <<file, held, harm>>

KeyNext(s) ==
    \/ sendPublicKey(s) \/ ftpRequest(s) \/ libAsyncRead(s) \/ makeDirPath(s)
    \/ endSession(s)

--------------------------------------------------------------------------------
(* A key that was in the file stays there, whoever adds another.  The ways to *)
(* lose one: the file does not fit into the buffer, its last line has no end, *)
(* a write falls between the reading and the writing of another session, or a *)
(* short write leaves such a last line.                                       *)
KeysKept == harm = {} => held \subseteq Keys(file)

(* A session that says it is ready without an error has its key in the file,  *)
(* so that the next one needs no password; the exceptions are the same.       *)
ReadyMeansShared ==
    \A s \in Sharers :
        (share[s].state = "ready" /\ ~share[s].error /\ harm = {}) => s \in Keys(file)
================================================================================
