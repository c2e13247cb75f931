----------------------------- MODULE StreamClient -----------------------------
(* async_stream_transcribe of the Python client (src/client): it sends the *)
(* chunks of an audio source over a WebSocket and, when the connection is  *)
(* lost, opens another one and goes on.  The source is an iterator or an   *)
(* asynchronous generator, which a cancelled __anext__ closes.             *)
EXTENDS Naturals, Sequences

CONSTANTS Chunks,            \* how many chunks the source has
          ReconnectAttempts

ASSUME ClientAssumption == Chunks \in Nat /\ ReconnectAttempts \in Nat

VARIABLES client,       \* the generator's own task
          sender,       \* the task that sends
          link,         \* the connection: "none", "up", "lost"
          attempts, pending, sourceDone,
          source,       \* "iterator" or "generator"
          given,        \* how many chunks it has given
          closed,       \* it gives no more
          raised,       \* it failed
          sent,         \* the chunks whose send returned
          stopSent

clientVars == <<client, sender, link, attempts, pending, sourceDone, source, given, closed,
                raised, sent, stopSent>>

ClientInit ==
  /\ client = "connect" /\ sender = "none" /\ link = "none"
  /\ attempts = 0 /\ pending = 0 /\ sourceDone = FALSE
  /\ source \in {"iterator", "generator"}
  /\ given = 0 /\ closed = FALSE /\ raised = FALSE
  /\ sent = <<>> /\ stopSent = FALSE

(* A connection that cannot be opened ends everything: only one that was   *)
(* open is retried.                                                        *)
Open ==
  /\ client = "connect"
  /\ \/ client' = "reading" /\ sender' = "resend" /\ link' = "up"
     \/ client' = "raised" /\ UNCHANGED <<sender, link>>
  /\ stopSent' = FALSE
  /\ UNCHANGED <<attempts, pending, sourceDone, source, given, closed, raised, sent>>

-----------------------------------------------------------------------------
(* The sender: first the chunk whose send did not return the last time.    *)
NothingPending ==
  /\ sender = "resend" /\ pending = 0
  /\ sender' = "next"
  /\ UNCHANGED <<client, link, attempts, pending, sourceDone, source, given, closed, raised,
                 sent, stopSent>>

(* As a bug: a chunk counts as sent however its send ended.                *)
SendForgetting ==
  /\ sender = "send" \/ (sender = "resend" /\ pending # 0)
  /\ pending' = 0
  /\ IF link = "up" THEN sent' = Append(sent, pending) /\ sender' = "next"
                    ELSE sender' = "failed" /\ UNCHANGED sent
  /\ UNCHANGED <<client, link, attempts, sourceDone, source, given, closed, raised, stopSent>>

Send ==
  /\ sender = "send" \/ (sender = "resend" /\ pending # 0)
  /\ IF link = "up"
     THEN sent' = Append(sent, pending) /\ pending' = 0 /\ sender' = "next"
     ELSE sender' = "failed" /\ UNCHANGED <<sent, pending>>
  /\ UNCHANGED <<client, link, attempts, sourceDone, source, given, closed, raised, stopSent>>

TakeChunk ==
  /\ sender = "next" /\ given < Chunks /\ ~closed
  /\ given' = given + 1 /\ pending' = given + 1
  /\ sender' = "send"
  /\ UNCHANGED <<client, link, attempts, sourceDone, source, closed, raised, sent, stopSent>>

SourceFails ==
  /\ sender = "next" /\ ~closed
  /\ raised' = TRUE
  /\ closed' \in IF source = "generator" THEN {TRUE} ELSE BOOLEAN
  /\ sender' = "failed"
  /\ UNCHANGED <<client, link, attempts, pending, sourceDone, source, given, sent, stopSent>>

Exhausted ==
  /\ sender = "next" /\ (given = Chunks \/ closed)
  /\ sourceDone' = TRUE
  /\ sender' = "stop"
  /\ UNCHANGED <<client, link, attempts, pending, source, given, closed, raised, sent, stopSent>>

SendStop ==
  /\ sender = "stop"
  /\ IF link = "up" THEN sender' = "done" /\ stopSent' = TRUE
                    ELSE sender' = "failed" /\ UNCHANGED stopSent
  /\ UNCHANGED <<client, link, attempts, pending, sourceDone, source, given, closed, raised, sent>>

-----------------------------------------------------------------------------
(* The connection: lost or closed by the server at any time; a server that *)
(* has been told to stop flushes and answers with session.end.             *)
LoseLink ==
  /\ link = "up"
  /\ link' = "lost"
  /\ UNCHANGED <<client, sender, attempts, pending, sourceDone, source, given, closed, raised,
                 sent, stopSent>>

SessionEnd ==
  /\ client = "reading" /\ link = "up" /\ stopSent
  /\ client' = "leaving"
  /\ UNCHANGED <<sender, link, attempts, pending, sourceDone, source, given, closed, raised,
                 sent, stopSent>>

NoticeLoss ==
  /\ client = "reading" /\ link = "lost"
  /\ client' = "leaving"
  /\ UNCHANGED <<sender, link, attempts, pending, sourceDone, source, given, closed, raised,
                 sent, stopSent>>

SenderOver == sender \in {"done", "failed", "cancelled"}

(* The sender has half a second to finish and is cancelled then.           *)
CancelSender ==
  /\ client = "leaving" /\ ~SenderOver
  /\ closed' = (closed \/ (sender = "next" /\ source = "generator"))
  /\ sender' = "cancelled"
  /\ UNCHANGED <<client, link, attempts, pending, sourceDone, source, given, raised, sent,
                 stopSent>>

(* As a bug: lost connections are not counted.                             *)
JudgeTireless ==
  /\ client = "leaving" /\ SenderOver
  /\ link' = "none" /\ sender' = "none"
  /\ client' = IF sourceDone /\ pending = 0 THEN "returned" ELSE "connect"
  /\ UNCHANGED <<attempts, pending, sourceDone, source, given, closed, raised, sent, stopSent>>

(* Done, or another connection while attempts are left.                    *)
Judge ==
  /\ client = "leaving" /\ SenderOver
  /\ link' = "none" /\ sender' = "none"
  /\ IF sourceDone /\ pending = 0
     THEN client' = "returned" /\ UNCHANGED attempts
     ELSE /\ attempts' = attempts + 1
          /\ client' = IF attempts + 1 > ReconnectAttempts THEN "raised" ELSE "connect"
  /\ UNCHANGED <<pending, sourceDone, source, given, closed, raised, sent, stopSent>>

ClientStep == \/ Open \/ NothingPending \/ Send \/ TakeChunk \/ Exhausted \/ SendStop
              \/ SessionEnd \/ NoticeLoss \/ CancelSender \/ Judge

ClientNext == ClientStep \/ SourceFails \/ LoseLink

-----------------------------------------------------------------------------
(* The chunks leave in order and none is sent off twice, over however many *)
(* connections; and a call that returns without an error has sent off all  *)
(* that it took from its source, which was all there is unless the source  *)
(* raised, or is an asynchronous generator that was closed by cancelling   *)
(* the wait for its next chunk: the code cannot tell that from its end     *)
(* (client/__init__.py:150, 214-224).                                      *)
NothingSkipped ==
  /\ \A i \in 1..Len(sent) : sent[i] = i
  /\ client = "returned" =>
       /\ Len(sent) = given
       /\ given = Chunks \/ (closed /\ (raised \/ source = "generator"))
=============================================================================
