------------------------------- MODULE Files -------------------------------
(***************************************************************************)
(* A folder that is kept in sync: the outbox watcher polls a root and      *)
(* distributes the files it finds stable (attachments/outbox.rs); on the   *)
(* other side the receive watcher hands what arrives to a sink that puts   *)
(* it under the same relative path into an inbox (attachments/inbox.rs; in *)
(* the command line, peat attach watch has the same sink).  The content of *)
(* a file is a version, and every write makes a new one with a new mtime,  *)
(* so that a version also stands for its (size, mtime).  Processes may     *)
(* die at any point; power loss is not modelled.                           *)
(***************************************************************************)
EXTENDS Naturals, Sequences

CONSTANTS
  Paths,     \* relative paths in the root and in the inbox
  Sizes,     \* file sizes
  MaxWrites, \* bound on writes to the outbox, and so on versions
  MaxMishaps  \* bound on process deaths, short copies and refused requests

ASSUME FilesBounds == MaxWrites \in Nat /\ MaxMishaps \in Nat

Versions == 1..MaxWrites
Nothing == 0

VARIABLES
  size,      \* the size of every version written so far
  outbox,    \* the version of every file in the root
  seen,      \* last_seen
  sent,      \* last_sent
  poll,      \* the watcher: files left to look at, the one it is sending
  dists,      \* the distribution documents
  tried,     \* versions a request has been made for
  inbox,     \* what is published in the inbox: a version and its bytes
  recv,      \* the receiving process
  mishaps

outboxVars == <<size, outbox, seen, sent, poll, tried>>
inboxVars == <<inbox, recv>>
filesVars == <<outboxVars, dists, inboxVars, mishaps>>

NoFiles == [p \in Paths |-> Nothing]
Asleep == [pc |-> "sleep", found |-> NoFiles, todo |-> {}, path |-> Nothing, hash |-> Nothing]
NoFile == [ver |-> Nothing, len |-> 0]

\* peat attach watch --dist-id waits for one distribution; the watcher of the
\* node waits for none.
FilesInit ==
  /\ size = <<>> /\ outbox = NoFiles /\ seen = NoFiles /\ sent = NoFiles
  /\ poll = Asleep /\ dists = <<>> /\ tried = {} /\ mishaps = 0
  /\ inbox = [p \in Paths |-> NoFile]
  /\ recv \in [pc : {"sweep"}, handled : {{}}, dist : {Nothing}, tmp : {NoFile}, target : {Nothing, 1}]

--------------------------------------------------------------------------
\* Applications write and remove files at any time.
Write(p, n) ==
  /\ Len(size) < MaxWrites /\ size' = Append(size, n)
  /\ outbox' = [outbox EXCEPT ![p] = Len(size) + 1]
  /\ UNCHANGED <<seen, sent, poll, dists, tried, inboxVars, mishaps>>

Remove(p) ==
  /\ outbox[p] # Nothing /\ outbox' = [outbox EXCEPT ![p] = Nothing]
  /\ UNCHANGED <<size, seen, sent, poll, dists, tried, inboxVars, mishaps>>

--------------------------------------------------------------------------
\* walk_files lists the files of the root with their (size, mtime).
Walk ==
  /\ poll.pc = "sleep"
  /\ poll' = [poll EXCEPT !.pc = "decide", !.found = outbox,
                          !.todo = {p \in Paths : outbox[p] # Nothing}]
  /\ UNCHANGED <<size, outbox, seen, sent, dists, tried, inboxVars, mishaps>>

OutboxDecision(current, lastSeen, lastSent) ==
  IF lastSent = current THEN "skip" ELSE IF lastSeen = current THEN "send" ELSE "wait"

\* One file after the other
Decide(p) ==
  /\ poll.pc = "decide" /\ p \in poll.todo
  /\ seen' = [seen EXCEPT ![p] = poll.found[p]]
  /\ poll' = IF OutboxDecision(poll.found[p], seen[p], sent[p]) = "send"
             THEN [poll EXCEPT !.pc = "hash", !.path = p, !.todo = @ \ {p}]
             ELSE [poll EXCEPT !.todo = @ \ {p}]
  /\ UNCHANGED <<size, outbox, sent, dists, tried, inboxVars, mishaps>>

\* sha256_file reads the file as it is by now.  A file that is gone is left for
\* the next poll.
Hash ==
  /\ poll.pc = "hash"
  /\ poll' = IF outbox[poll.path] = Nothing
             THEN [poll EXCEPT !.pc = "decide", !.path = Nothing]
             ELSE [poll EXCEPT !.pc = "send", !.hash = outbox[poll.path]]
  /\ UNCHANGED <<size, outbox, seen, sent, dists, tried, inboxVars, mishaps>>

\* send_attachments reads the file once more: its size must be the one that was
\* listed and its content the one that was hashed.
Accepted ==
  /\ outbox[poll.path] = poll.hash
  /\ size[poll.hash] = size[poll.found[poll.path]]

SendMarks(ver) ==
  /\ poll.pc = "send" /\ sent' = [sent EXCEPT ![poll.path] = ver]
  /\ tried' = tried \cup (IF Accepted THEN {poll.hash} ELSE {})
  /\ \/ /\ dists' = IF Accepted THEN Append(dists, [path |-> poll.path, ver |-> poll.hash]) ELSE dists
        /\ UNCHANGED mishaps
     \/ mishaps < MaxMishaps /\ mishaps' = mishaps + 1 /\ UNCHANGED dists
  /\ poll' = [poll EXCEPT !.pc = "decide", !.path = Nothing, !.hash = Nothing]
  /\ UNCHANGED <<size, outbox, seen, inboxVars>>

SendMarksLatest == SendMarks(outbox[poll.path])
\* The listed (size, mtime) is recorded as sent, whatever the answer was.
Send == SendMarks(poll.found[poll.path])

EndPollKeepsSent ==
  /\ poll.pc = "decide" /\ poll.todo = {} /\ poll' = Asleep
  /\ seen' = [p \in Paths |-> IF poll.found[p] = Nothing THEN Nothing ELSE seen[p]]
  /\ UNCHANGED <<size, outbox, sent, dists, tried, inboxVars, mishaps>>
\* prune_to_observed forgets files that were not listed.
EndPoll ==
  /\ poll.pc = "decide" /\ poll.todo = {} /\ poll' = Asleep
  /\ seen' = [p \in Paths |-> IF poll.found[p] = Nothing THEN Nothing ELSE seen[p]]
  /\ sent' = [p \in Paths |-> IF poll.found[p] = Nothing THEN Nothing ELSE sent[p]]
  /\ UNCHANGED <<size, outbox, dists, tried, inboxVars, mishaps>>

\* The sender keeps none of this over a restart.
SenderRestarts ==
  /\ mishaps < MaxMishaps /\ mishaps' = mishaps + 1
  /\ seen' = NoFiles /\ sent' = NoFiles /\ poll' = Asleep
  /\ UNCHANGED <<size, outbox, dists, tried, inboxVars>>

--------------------------------------------------------------------------
SizeOf(d) == size[dists[d].ver]

\* A regular file of the declared size is there.
AlreadyDelivered(d) ==
  inbox[dists[d].path] # NoFile /\ inbox[dists[d].path].len = SizeOf(d)

\* The receive watcher takes what it has not dealt with since its start, in any
\* order.
Skip(d) ==
  /\ recv.pc = "sweep" /\ d \in DOMAIN dists \ recv.handled /\ AlreadyDelivered(d)
  /\ recv' = [recv EXCEPT !.handled = @ \cup {d}]
  /\ UNCHANGED <<outboxVars, dists, inbox, mishaps>>

\* deliver copies the fetched blob to .name.partial, which it truncates first.
Copy(d) ==
  /\ recv.pc = "sweep" /\ d \in DOMAIN dists \ recv.handled /\ ~AlreadyDelivered(d)
  /\ \/ /\ recv' = [recv EXCEPT !.pc = "copied", !.dist = d,
                      !.tmp = [ver |-> dists[d].ver, len |-> SizeOf(d)]]
        /\ UNCHANGED mishaps
     \/ /\ mishaps < MaxMishaps /\ mishaps' = mishaps + 1
        /\ recv' = [recv EXCEPT !.pc = "copied", !.dist = d,
                      !.tmp = [ver |-> dists[d].ver, len |-> SizeOf(d) - 1]]
  /\ UNCHANGED <<outboxVars, dists, inbox>>

Rename(d) ==
  /\ inbox' = [inbox EXCEPT ![dists[d].path] = recv.tmp]
  /\ recv' = [recv EXCEPT !.pc = IF d = recv.target THEN "ended" ELSE "sweep",
                          !.handled = @ \cup {d}, !.dist = Nothing, !.tmp = NoFile]

PublishUnchecked ==
  /\ recv.pc = "copied" /\ Rename(recv.dist) /\ UNCHANGED <<outboxVars, dists, mishaps>>
PublishGivesUp ==
  /\ recv.pc = "copied"
  /\ IF recv.tmp.len = SizeOf(recv.dist) THEN Rename(recv.dist)
     ELSE /\ recv' = [recv EXCEPT !.pc = "sweep", !.dist = Nothing, !.tmp = NoFile,
                                  !.handled = @ \cup {recv.dist}]
          /\ UNCHANGED inbox
  /\ UNCHANGED <<outboxVars, dists, mishaps>>
PublishSignalsFirst ==
  /\ recv.pc = "copied"
  /\ IF recv.dist = recv.target
     THEN recv' = [recv EXCEPT !.pc = "ended"] /\ UNCHANGED inbox ELSE Rename(recv.dist)
  /\ UNCHANGED <<outboxVars, dists, mishaps>>
\* Only a copy of the declared size is renamed into place, and then the target
\* is signalled; anything else is dropped and left for the next sweep.
Publish ==
  /\ recv.pc = "copied"
  /\ IF recv.tmp.len = SizeOf(recv.dist) THEN Rename(recv.dist)
     ELSE recv' = [recv EXCEPT !.pc = "sweep", !.dist = Nothing, !.tmp = NoFile] /\ UNCHANGED inbox
  /\ UNCHANGED <<outboxVars, dists, mishaps>>

\* What the receiver has dealt with is not kept; a partial file stays behind.
ReceiverRestarts ==
  /\ recv.pc # "ended" /\ mishaps < MaxMishaps /\ mishaps' = mishaps + 1
  /\ recv' = [recv EXCEPT !.pc = "sweep", !.handled = {}, !.dist = Nothing, !.tmp = NoFile]
  /\ UNCHANGED <<outboxVars, dists, inbox>>

--------------------------------------------------------------------------
Watcher == Walk \/ (\E p \in Paths : Decide(p)) \/ Hash \/ Send \/ EndPoll
Receiver == (\E d \in DOMAIN dists : Skip(d) \/ Copy(d)) \/ Publish

FilesNext ==
  \/ \E p \in Paths : Remove(p) \/ \E n \in Sizes : Write(p, n)
  \/ Watcher \/ SenderRestarts \/ Receiver \/ ReceiverRestarts

FilesSpec == FilesInit /\ [][FilesNext]_filesVars

--------------------------------------------------------------------------
\* The state has its type; between polls the watcher remembers only files of the
\* last one, and no version as sent that it has not seen.
FilesTyped ==
  /\ size \in Seq(Sizes) /\ Len(size) <= MaxWrites
  /\ outbox \in [Paths -> 0..MaxWrites] /\ seen \in [Paths -> 0..MaxWrites]
  /\ sent \in [Paths -> 0..MaxWrites] /\ tried \subseteq Versions
  /\ \A d \in DOMAIN dists : dists[d] \in [path : Paths, ver : Versions]
  /\ recv.handled \subseteq DOMAIN dists /\ mishaps \in 0..MaxMishaps
  /\ poll.pc = "sleep" => \A p \in Paths : sent[p] # Nothing => seen[p] # Nothing

\* A file that stays as it is is offered to the mesh with this content, although
\* it may change between the listing, the hash and the read, and whatever was
\* recorded as sent then (outbox.rs: "a content change bumps mtime and
\* re-triggers").
SettledIsOffered == \A p \in Paths, v \in Versions :
  []<>(outbox[p] = v => v \in tried)

\* What is published in the inbox is the whole content of a distribution of that
\* path, whenever a process dies and however short a copy comes out (inbox.rs:
\* "readers never see a partial file").
InboxIsWhole == \A p \in Paths :
  inbox[p] # NoFile =>
    /\ inbox[p].len = size[inbox[p].ver]
    /\ \E d \in DOMAIN dists : dists[d] = [path |-> p, ver |-> inbox[p].ver]

\* The receiver gets done with every distribution, by a file of exactly its size in its
\* place: a failed delivery is tried again (inbox.rs: "return Err so the receive watcher
\* retries on the next sweep"), unless the command that received it has ended.  That the
\* file has the distribution's content is another matter (RedeliversContent).
Arrives ==
  /\ []<>(DOMAIN dists \subseteq recv.handled \/ recv.pc = "ended")
  /\ [][\A d \in recv'.handled \ recv.handled : inbox'[dists[d].path].len = SizeOf(d)]_filesVars

\* The receiver is done with a distribution only when its content is in place: on the
\* "same-path/same-size-but-different-content case" it "re-delivers rather than silently
\* skipping a file that should land" (inbox.rs, already_delivered, which compares sizes).
RedeliversContent ==
  [][\A d \in recv'.handled \ recv.handled : inbox'[dists[d].path].ver = dists[d].ver]_filesVars

\* peat attach watch --dist-id ends only when that distribution is in the inbox.
EndedHasLanded ==
  recv.pc = "ended" => inbox[dists[recv.target].path].ver = dists[recv.target].ver

\* What is published in the inbox is whole, whatever dies when, and peat attach watch
\* --dist-id ends only with its file in place (inbox.rs).
InboxIsSound == FilesTyped /\ InboxIsWhole /\ EndedHasLanded
============================================================================
