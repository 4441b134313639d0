----------------------------- MODULE FileDownload -----------------------------
(* A download of the web client's file panel (src/webclient/src/ui/file-panel.ts):
   the remote device announces each file and waits for our word, sends its
   blocks and an empty one for its end, and says when all is done.  The page
   writes through a chain of tasks, one after the other, each of which waits for
   the browser to open or to write the local file; the user, the device and the
   connection may stop the transfer while a task waits.

   Abstracted: a file is `Blocks` blocks, and a local stream the number of them
   it was given; a target in the browser's Downloads folder is collected in
   memory and saved when it is closed. *)
EXTENDS Integers, Sequences, FiniteSets

CONSTANTS MaxFiles, Blocks

ASSUME DownloadAssumption == MaxFiles \in Nat \ {0} /\ Blocks \in Nat \ {0}

VARIABLES
    dlFiles,   \* the files of the transfer are 1 .. dlFiles
    dlStatus,  \* job.status
    inMemory,  \* there is no local folder to write to
    policy,    \* job.policy: "ask", or the answer given for all files
    digests,   \* announced files whose fate is not decided: [f, at "checking" or "asking"]
    chain,     \* job.writeChain: tasks not yet finished
    opening,   \* the first task waits for the browser to open its file
    writing,   \* the first task waits for the browser to write
    cur,       \* job.curFileNum; 0: none
    writable,  \* job.writable: [f, n] of the file and the blocks given; f = 0: none
    memBuf,    \* blocks collected in memory
    place,     \* what the local files are: "old", "part" or "whole"
    skipped,   \* files the user left out
    wasStopped,\* the transfer was cancelled, refused or cut off
    fromPeer,  \* what the device sent and the page has not handled
    toPeer,    \* what the page sent and the device has not handled
    sender     \* the device: "listing", at file f "announcing", "awaiting" our word,
               \* having "sent" n blocks, or "over"; n is -1 after a skipped file

dlLocal == <<opening, writing, cur, writable, memBuf, place>>
dlVars == <<dlFiles, dlStatus, inMemory, policy, digests, chain, dlLocal, skipped,
            wasStopped, fromPeer, toPeer, sender>>

DlFiles == 1 .. dlFiles
NoStream == [f |-> 0, n |-> 0]
Failed == -1  \* what a stream was given once writing to it has failed
Ended == {"error", "cancelled"}
-----------------------------------------------------------------------------
(* The local file. *)

\* Mutant: what was collected in memory is kept.
CloseKeepsMemory(commit) ==
    LET content(n) == IF n = Blocks THEN "whole" ELSE "part" IN
    /\ place' =
         IF commit /\ writable.f # 0 /\ writable.n # Failed
         THEN [place EXCEPT ![writable.f] = content(writable.n)]
         ELSE IF commit /\ inMemory /\ cur # 0 THEN [place EXCEPT ![cur] = content(memBuf)]
         ELSE place
    /\ writable' = NoStream
    /\ UNCHANGED memBuf

\* closeJobFile(commit): a stream is committed or given up, and what was
\* collected in memory is saved.
CloseJobFile(commit) ==
    LET content(n) == IF n = Blocks THEN "whole" ELSE "part" IN
    /\ place' =
         IF commit /\ writable.f # 0 /\ writable.n # Failed
         THEN [place EXCEPT ![writable.f] = content(writable.n)]
         ELSE IF commit /\ inMemory /\ cur # 0 THEN [place EXCEPT ![cur] = content(memBuf)]
         ELSE place
    /\ writable' = NoStream
    /\ memBuf' = 0

\* The transfer stops: what is open is given up.  A file the browser is still
\* opening is not known yet.
StopAs(status) ==
    /\ dlStatus' = status
    /\ wasStopped' = TRUE
    /\ CloseJobFile(FALSE)
    /\ UNCHANGED <<opening, writing, cur>>

TaskEnds == chain' = Tail(chain) /\ writing' = FALSE

\* The first task begins.  Another file than the current one is opened first.
BeginTask ==
    /\ chain # <<>> /\ ~opening /\ ~writing
    /\ LET t == Head(chain) IN
       \/ /\ t.k \in {"block", "eof"} /\ cur # t.f
          /\ CloseJobFile(TRUE)
          /\ cur' = t.f
          /\ opening' = ~inMemory
          /\ UNCHANGED <<chain, writing, dlStatus>>
       \/ /\ t.k = "block" /\ cur = t.f
          /\ IF writable.f # 0
             THEN writing' = TRUE /\ UNCHANGED <<chain, memBuf>>
             ELSE memBuf' = memBuf + 1 /\ TaskEnds
          /\ UNCHANGED <<cur, opening, writable, place, dlStatus>>
       \/ /\ t.k = "eof" /\ cur = t.f
          /\ CloseJobFile(TRUE)
          /\ cur' = 0
          /\ TaskEnds
          /\ UNCHANGED <<opening, dlStatus>>
       \/ /\ t.k = "done"
          /\ CloseJobFile(TRUE)
          /\ cur' = 0
          /\ dlStatus' = IF dlStatus \in Ended THEN dlStatus ELSE "done"
          /\ TaskEnds
          /\ UNCHANGED opening
    /\ UNCHANGED <<dlFiles, inMemory, policy, digests, skipped, wasStopped, fromPeer, toPeer, sender>>

\* createLocalWritable answers, the transfer stopped meanwhile or not.
Opened ==
    /\ opening
    /\ opening' = FALSE
    /\ writable' = [f |-> cur, n |-> 0]
    /\ UNCHANGED <<dlFiles, dlStatus, inMemory, policy, digests, chain, writing, cur, memBuf,
                   place, skipped, wasStopped, fromPeer, toPeer, sender>>

Written ==
    /\ writing /\ writable.f # 0 /\ writable.n # Failed
    /\ writable' = [writable EXCEPT !.n = @ + 1]
    /\ TaskEnds
    /\ UNCHANGED <<dlFiles, dlStatus, inMemory, policy, digests, opening, cur, memBuf, place,
                   skipped, wasStopped, fromPeer, toPeer, sender>>

\* Mutant: a local file that cannot be opened or written is passed over.
LocalFileFailsQuietly ==
    /\ opening \/ writing
    /\ opening' = FALSE
    /\ writable' = IF writable.f = 0 THEN writable ELSE [writable EXCEPT !.n = Failed]
    /\ TaskEnds
    /\ UNCHANGED <<dlFiles, dlStatus, inMemory, policy, digests, cur, memBuf, place, skipped,
                   wasStopped, fromPeer, toPeer, sender>>

\* Opening or writing fails, by itself or because the stream was given up: an
\* error whatever the transfer was before.
LocalFileFails ==
    /\ opening \/ writing
    /\ dlStatus' = "error"
    /\ wasStopped' = TRUE
    /\ toPeer' = Append(toPeer, [k |-> "cancel", f |-> 0])
    /\ opening' = FALSE
    /\ writable' = IF writable.f = 0 THEN writable ELSE [writable EXCEPT !.n = Failed]
    /\ TaskEnds
    /\ UNCHANGED <<dlFiles, inMemory, policy, digests, cur, memBuf, place, skipped, fromPeer, sender>>
-----------------------------------------------------------------------------
(* What the device sends. *)

\* onFtDir, onFtDigest, onFtBlock, onFtDone and onFtError: blocks of a stopped
\* transfer are dropped, the end of it is not.
Received ==
    /\ fromPeer # <<>>
    /\ fromPeer' = Tail(fromPeer)
    /\ LET m == Head(fromPeer) IN
       \/ /\ m.k \in {"block", "eof"}
          /\ chain' = IF dlStatus \in Ended THEN chain ELSE Append(chain, m)
          /\ UNCHANGED <<dlStatus, digests, dlLocal, wasStopped>>
       \/ /\ m.k = "done"
          /\ chain' = Append(chain, m)
          /\ UNCHANGED <<dlStatus, digests, dlLocal, wasStopped>>
       \/ /\ m.k = "digest"
          /\ dlStatus' = "running"
          /\ digests' = digests \cup {[f |-> m.f, at |-> "checking"]}
          /\ UNCHANGED <<chain, dlLocal, wasStopped>>
       \/ /\ m.k = "dir"
          /\ dlStatus' = "running"
          /\ UNCHANGED <<chain, digests, dlLocal, wasStopped>>
       \/ /\ m.k = "skipped"
          /\ dlStatus' = "done"
          /\ UNCHANGED <<chain, digests, dlLocal, wasStopped>>
       \/ /\ m.k = "error"
          /\ StopAs("error")
          /\ UNCHANGED <<chain, digests>>
    /\ UNCHANGED <<dlFiles, inMemory, policy, skipped, toPeer, sender>>

Decide(d, action) ==
    /\ digests' = digests \ {d}
    /\ toPeer' = Append(toPeer, [k |-> action, f |-> d.f])
    /\ skipped' = IF action = "skip" THEN skipped \cup {d.f} ELSE skipped

\* localTargetExists answers: an existing file is asked about, unless the user
\* has answered for all of them.
TargetLookedUp(d, exists) ==
    /\ d \in digests /\ d.at = "checking"
    /\ exists => ~inMemory
    /\ IF exists /\ policy = "ask"
       THEN /\ digests' = (digests \ {d}) \cup {[d EXCEPT !.at = "asking"]}
            /\ UNCHANGED <<toPeer, skipped>>
       ELSE Decide(d, IF exists THEN policy ELSE "overwrite")
    /\ UNCHANGED <<dlFiles, dlStatus, inMemory, policy, chain, dlLocal, wasStopped, fromPeer, sender>>

\* The user answers the question, for this file or for all.
Answered(d, action, applyAll) ==
    /\ d \in digests /\ d.at = "asking"
    /\ Decide(d, action)
    /\ policy' = IF applyAll THEN action ELSE policy
    /\ UNCHANGED <<dlFiles, dlStatus, inMemory, chain, dlLocal, wasStopped, fromPeer, sender>>

\* cancelJob, by its button, answering nothing, or as the answer to a question.
Cancel(answering) ==
    /\ \A d \in answering : d.at = "asking"
    /\ digests' = digests \ answering
    /\ IF dlStatus \in {"done", "cancelled"}
       THEN answering # {} /\ UNCHANGED <<dlStatus, wasStopped, dlLocal, toPeer>>
       ELSE StopAs("cancelled") /\ toPeer' = Append(toPeer, [k |-> "cancel", f |-> 0])
    /\ UNCHANGED <<dlFiles, inMemory, policy, chain, skipped, fromPeer, sender>>

\* The panel's teardown, when the file connection is lost.
ChannelLost ==
    /\ sender.k # "over"
    /\ IF dlStatus \in {"starting", "running"}
       THEN StopAs("error")
       ELSE UNCHANGED <<dlStatus, wasStopped, dlLocal>>
    /\ fromPeer' = <<>> /\ toPeer' = <<>>
    /\ sender' = [sender EXCEPT !.k = "over"]
    /\ UNCHANGED <<dlFiles, inMemory, policy, digests, chain, skipped>>
-----------------------------------------------------------------------------
(* The device, as the panel relies on it. *)

NextFile(f) == [k |-> "announcing", f |-> f + 1, n |-> 0]

PeerSendsFile ==
    /\ \/ /\ sender.k = "listing"
          /\ fromPeer' = Append(fromPeer, [k |-> "dir", f |-> 0])
          /\ sender' = NextFile(0)
       \/ /\ sender.k = "announcing" /\ sender.f <= dlFiles
          /\ fromPeer' = Append(fromPeer, [k |-> "digest", f |-> sender.f])
          /\ sender' = [sender EXCEPT !.k = "awaiting"]
       \/ /\ sender.k = "announcing" /\ sender.f > dlFiles
          /\ fromPeer' = Append(fromPeer,
                [k |-> IF dlFiles = 1 /\ sender.n < 0 THEN "skipped" ELSE "done", f |-> 0])
          /\ sender' = [sender EXCEPT !.k = "over"]
       \/ /\ sender.k = "sent" /\ sender.n < Blocks
          /\ fromPeer' = Append(fromPeer, [k |-> "block", f |-> sender.f])
          /\ sender' = [sender EXCEPT !.n = @ + 1]
       \/ /\ sender.k = "sent" /\ sender.n = Blocks
          /\ fromPeer' = Append(fromPeer, [k |-> "eof", f |-> sender.f])
          /\ sender' = NextFile(sender.f)
       \/ /\ sender.k # "over"
          /\ fromPeer' = Append(fromPeer, [k |-> "error", f |-> 0])
          /\ sender' = [sender EXCEPT !.k = "over"]
    /\ UNCHANGED <<dlFiles, dlStatus, inMemory, policy, digests, chain, dlLocal, skipped,
                   wasStopped, toPeer>>

\* Our word on the file it waits for; a cancelled transfer is over.
PeerHears ==
    /\ toPeer # <<>>
    /\ toPeer' = Tail(toPeer)
    /\ LET m == Head(toPeer) IN
       sender' =
         IF sender.k = "over" THEN sender
         ELSE CASE m.k = "cancel" -> [sender EXCEPT !.k = "over"]
                [] m.k = "skip" -> [NextFile(m.f) EXCEPT !.n = -1]
                [] m.k = "overwrite" -> [k |-> "sent", f |-> m.f, n |-> 0]
    /\ UNCHANGED <<dlFiles, dlStatus, inMemory, policy, digests, chain, dlLocal, skipped,
                   wasStopped, fromPeer>>
-----------------------------------------------------------------------------
DlInit ==
    /\ dlFiles \in 1 .. MaxFiles
    /\ inMemory \in BOOLEAN
    /\ dlStatus = "starting" /\ policy = "ask" /\ digests = {} /\ chain = <<>>
    /\ opening = FALSE /\ writing = FALSE /\ cur = 0 /\ writable = NoStream /\ memBuf = 0
    /\ place = [f \in DlFiles |-> "old"] /\ skipped = {} /\ wasStopped = FALSE
    /\ fromPeer = <<>> /\ toPeer = <<>>
    /\ sender = [k |-> "listing", f |-> 0, n |-> 0]

DlNext ==
    \/ BeginTask \/ Opened \/ Written \/ LocalFileFails \/ Received
    \/ \E answering \in SUBSET digests : Cancel(answering)
    \/ ChannelLost \/ PeerSendsFile \/ PeerHears
    \/ \E d \in digests :
         \/ \E exists \in BOOLEAN : TargetLookedUp(d, exists)
         \/ \E action \in {"overwrite", "skip"}, applyAll \in BOOLEAN : Answered(d, action, applyAll)

DlSpec == DlInit /\ [][DlNext]_dlVars
-----------------------------------------------------------------------------
(* Properties. *)

\* The types of the variables.
DlTypeOK ==
    /\ dlFiles \in 1 .. MaxFiles /\ inMemory \in BOOLEAN
    /\ dlStatus \in {"starting", "running", "done"} \cup Ended
    /\ policy \in {"ask", "overwrite", "skip"}
    /\ digests \subseteq [f : DlFiles, at : {"checking", "asking"}]
    /\ opening \in BOOLEAN /\ writing \in BOOLEAN /\ wasStopped \in BOOLEAN
    /\ cur \in 0 .. dlFiles /\ memBuf \in 0 .. Blocks
    /\ writable \in [f : 0 .. dlFiles, n : Failed .. Blocks]
    /\ place \in [DlFiles -> {"old", "part", "whole"}] /\ skipped \subseteq DlFiles

\* What the panel reports as received is there in full, file by file, except
\* what the user skipped; and before the transfer was stopped no file was ever
\* put in place short of its end.
ReceivedIsWhole ==
    /\ dlStatus = "done" => \A f \in DlFiles \ skipped : place[f] = "whole"
    /\ ~wasStopped => \A f \in DlFiles : place[f] # "part"
=============================================================================
