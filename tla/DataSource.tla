----------------------------- MODULE DataSource -----------------------------
(***************************************************************************)
(* A data source behind its C vtable: the file and stream base classes     *)
(* (pj_base/sdk/data_source_patterns), the trampolines that stop whatever  *)
(* an override throws, the ledger of a batch import with the completion    *)
(* the host keeps of it, and the hand-over from a receive thread to poll() *)
(* (pj_plugins/sdk/streaming_source.hpp).                                  *)
(*                                                                         *)
(* The host's main thread binds, starts and stops; its stream thread polls *)
(* a running source, also while the main thread stops it.  The overrides   *)
(* are the plugin author's and may succeed, fail or throw at any point.    *)
(* pause() and resume(), which the bases refuse, change nothing.           *)
(***************************************************************************)
EXTENDS Naturals, Sequences, SequencesExt, FiniteSets

CONSTANTS
  Topics,        \* topics of an import and of a stream
  MaxMessages    \* messages the receive thread buffers

ASSUME SourceAssumption == IsFiniteSet(Topics) /\ MaxMessages \in Nat

VARIABLES
  kind,        \* which base class: "file" or "stream"
  views,       \* the host views the source has bound
  state, told, \* state_, and what notify_state said last
  inside,      \* where the main thread is: "host", "import", "starting", "gone"
  returned,    \* the last answer: "none", "ok", "error", "threw"
  progress,    \* a progress bar is open
  stop,        \* the user pressed Stop
  declared,    \* the topics the import declared, in order
  outcomes,    \* the ledger's outcomes_
  sealed,      \* complete_ingest was called
  evidence,    \* what the host kept of it: no completion, or one
  queue,       \* the DrainQueue
  batch,       \* what a poll drained and has not handled
  polling,     \* the stream thread is inside poll()
  bindings,    \* topics in the DelegatedIngestCache
  sent,        \* messages received so far
  pushed, lost \* what the host took, and what was given up

sourceVars ==
  <<kind, views, state, told, inside, returned, progress, stop, declared, outcomes, sealed, evidence,
    queue, batch, polling, bindings, sent, pushed, lost>>
lifecycle == <<kind, views, state, told, inside, returned, stop>>
import == <<progress, declared, outcomes, sealed, evidence>>
stream == <<queue, batch, polling, bindings, sent, pushed, lost>>

Required == {"write", "runtime"}
Optional == {"object"}
Messages == [id : 1..MaxMessages, topic : Topics]
TopicOutcomes == {"pending", "ok", "emptyOk", "failed"}

\* PJ_ingest_completion_t: an outcome or flag outside the known ones is "unknown", and
\* a topic name may be empty.
Completions ==
  [outcome : {"failed", "cancelled", "completed", "unknown"},
   flags : SUBSET {"attestsEmpty", "unknown"},
   topics : UNION {[1..n -> Topics \cup {""}] : n \in 0..2}]

SourceTypeOK ==
  /\ kind \in {"file", "stream"} /\ views \subseteq Required \cup Optional
  /\ {state, told} \subseteq {"idle", "starting", "running", "stopped", "failed"}
  /\ inside \in {"host", "import", "starting", "gone"}
  /\ returned \in {"none", "ok", "error", "threw"}
  /\ {progress, stop, sealed, polling} \subseteq BOOLEAN
  /\ declared \in Seq(Topics) /\ outcomes \in [Range(declared) -> TopicOutcomes]
  /\ evidence \subseteq Completions
  /\ {queue, batch, pushed} \subseteq Seq(Messages) /\ lost \subseteq Messages
  /\ bindings \subseteq Topics /\ sent \in 0..MaxMessages

\* A source that was just created, of either kind.
Fresh ==
  /\ views = {} /\ state = "idle" /\ told = "idle"
  /\ inside = "host" /\ returned = "none" /\ progress = FALSE /\ stop = FALSE
  /\ declared = <<>> /\ outcomes = <<>> /\ sealed = FALSE /\ evidence = {}
  /\ queue = <<>> /\ batch = <<>> /\ polling = FALSE
  /\ bindings = {} /\ sent = 0 /\ pushed = <<>> /\ lost = {}

SourceInit == kind \in {"file", "stream"} /\ Fresh

-----------------------------------------------------------------------------
(* The main thread.                                                        *)

\* state_ and notifyState(); a source without a runtime host tells nobody.
Enter(s) ==
  /\ state' = s
  /\ told' = IF "runtime" \in views THEN s ELSE told

Returns(answer) == inside' = "host" /\ returned' = answer

\* bind(), once: the services are taken one by one, up to the first required one
\* that the registry does not offer.
Bind(offered) ==
  /\ inside = "host" /\ returned = "none"
  /\ views' = CASE "write" \notin offered -> {}
                [] "write" \in offered /\ "runtime" \notin offered -> {"write"}
                [] OTHER -> offered
  /\ Returns(IF Required \subseteq offered THEN "ok" ELSE "error")
  /\ UNCHANGED <<kind, state, told, stop, import, stream>>

\* A source that could not be bound is destroyed, not used.
Usable == inside = "host" /\ Required \subseteq views

\* start(), on a source that was bound; a host starts an instance once.  A file source
\* declares the topics of its import.
Start(topics) ==
  /\ Usable /\ state = "idle"
  /\ Enter("starting")
  /\ inside' = IF kind = "file" THEN "import" ELSE "starting"
  /\ declared' = topics /\ outcomes' = [t \in Range(topics) |-> "pending"]
  /\ UNCHANGED <<kind, views, returned, stop, progress, sealed, evidence, stream>>

StartFile == kind = "file" /\ \E n \in 0..2 : \E topics \in [1..n -> Topics] : Start(topics)

StartStream == kind = "stream" /\ Start(<<>>)

\* Mutant: a failed import is not announced.
EndImport_silent(how) ==
  /\ inside = "import" /\ Returns(how)
  /\ IF how = "threw"
     THEN UNCHANGED <<state, told, progress, stop>>
     ELSE /\ progress' = FALSE /\ stop' = (stop \/ how = "ok")
          /\ state' = IF how = "ok" THEN "stopped" ELSE "failed"
          /\ told' = IF how = "ok" THEN "stopped" ELSE told
  /\ UNCHANGED <<kind, views, declared, outcomes, sealed, evidence, stream>>

\* importData() is over: progress is finished and the state announced, and a complete
\* import asks to be stopped.  What it throws ends in the trampoline, past all that.
EndImport(how) ==
  /\ inside = "import" /\ Returns(how)
  /\ IF how = "threw"
     THEN UNCHANGED <<state, told, progress, stop>>
     ELSE /\ progress' = FALSE
          /\ Enter(IF how = "ok" THEN "stopped" ELSE "failed")
          /\ stop' = (stop \/ how = "ok")
  /\ UNCHANGED <<kind, views, declared, outcomes, sealed, evidence, stream>>

\* onStart() is over.
EndStart(how) ==
  /\ inside = "starting" /\ Returns(how)
  /\ IF how = "threw"
     THEN UNCHANGED <<state, told>>
     ELSE Enter(IF how = "ok" THEN "running" ELSE "failed")
  /\ UNCHANGED <<kind, views, stop, import, stream>>

\* FileSourceBase::stop() sets the state and says nothing.
StopFile ==
  /\ kind = "file" /\ Usable
  /\ state' = "stopped"
  /\ UNCHANGED <<kind, views, told, inside, returned, stop, import, stream>>

\* StreamSourceBase::stop(): onStop() ends the receive thread and clears the queue
\* first; what it throws leaves the state alone.
StopStream(throws) ==
  /\ kind = "stream" /\ Usable
  /\ IF throws
     THEN UNCHANGED <<state, told, queue, lost>>
     ELSE /\ Enter("stopped")
          /\ queue' = <<>> /\ lost' = lost \cup Range(queue)
  /\ UNCHANGED <<kind, views, inside, returned, stop, import, batch, polling, bindings, sent, pushed>>

\* destroy(): the host has ended the polling before.
Destroy ==
  /\ inside = "host" /\ ~polling /\ inside' = "gone"
  /\ UNCHANGED <<kind, views, state, told, returned, stop, import, stream>>

\* The user presses Stop.
PressStop ==
  /\ inside # "gone" /\ ~stop /\ stop' = TRUE
  /\ UNCHANGED <<kind, views, state, told, inside, returned, import, stream>>

-----------------------------------------------------------------------------
(* What importData() does: progress, the ledger and the completion.        *)

ProgressStart ==
  /\ inside = "import" /\ ~progress /\ progress' = TRUE
  /\ UNCHANGED <<lifecycle, declared, outcomes, sealed, evidence, stream>>

\* record(): a topic that was not declared changes nothing, the last report counts.
Record(t, o) ==
  /\ inside = "import" /\ ~sealed
  /\ outcomes' = IF t \in DOMAIN outcomes THEN [outcomes EXCEPT ![t] = o] ELSE outcomes
  /\ UNCHANGED <<lifecycle, progress, declared, sealed, evidence, stream>>

\* Mutant: a topic that was never visited does not count.
ComputeCompletion_visited(cancelled) ==
  LET kinds == {outcomes[t] : t \in DOMAIN outcomes}
      Verdict(outcome, flags) == [outcome |-> outcome, flags |-> flags, topics |-> declared]
  IN CASE cancelled -> Verdict("cancelled", {})
       [] ~cancelled /\ "failed" \in kinds -> Verdict("failed", {})
       [] OTHER -> Verdict("completed", IF "emptyOk" \in kinds THEN {"attestsEmpty"} ELSE {})

\* computeCompletion(): cancelled, else failed by any topic that is not done.
ComputeCompletion(cancelled) ==
  LET kinds == {outcomes[t] : t \in DOMAIN outcomes}
      Verdict(outcome, flags) == [outcome |-> outcome, flags |-> flags, topics |-> declared]
  IN CASE cancelled -> Verdict("cancelled", {})
       [] ~cancelled /\ ~(kinds \subseteq {"ok", "emptyOk"}) -> Verdict("failed", {})
       [] OTHER -> Verdict("completed", IF "emptyOk" \in kinds THEN {"attestsEmpty"} ELSE {})

\* Mutant: the flag is taken with any outcome.
CopyIngestCompletion_anyFlag(c) ==
  IF /\ c.outcome # "unknown" /\ "unknown" \notin c.flags
     /\ "" \notin Range(c.topics) /\ IsInjective(c.topics)
  THEN {c} ELSE {}

\* copyIngestCompletion(): what the host keeps, or why it keeps nothing.
CopyIngestCompletion(c) ==
  IF /\ c.outcome # "unknown" /\ "unknown" \notin c.flags
     /\ "attestsEmpty" \in c.flags => c.outcome = "completed"
     /\ "" \notin Range(c.topics) /\ IsInjective(c.topics)
  THEN {c} ELSE {}

\* completeIngest() with the ledger's verdict and a live look at Stop, or with
\* whatever a plugin that keeps no ledger makes up.
CompleteIngest ==
  /\ inside = "import" /\ ~sealed
  /\ sealed' = TRUE /\ evidence' = CopyIngestCompletion(ComputeCompletion(stop))
  /\ UNCHANGED <<lifecycle, progress, declared, outcomes, stream>>

CompleteByHand(c) ==
  /\ inside = "import" /\ ~sealed /\ declared = <<>>
  /\ sealed' = TRUE /\ evidence' = CopyIngestCompletion(c)
  /\ UNCHANGED <<lifecycle, progress, declared, outcomes, stream>>

-----------------------------------------------------------------------------
(* The receive thread and poll().                                          *)

\* DrainQueue::push() on the receive thread, which lives from onStart() to onStop().
Receive(t) ==
  /\ kind = "stream" /\ state = "running" /\ inside # "gone" /\ sent < MaxMessages
  /\ sent' = sent + 1
  /\ queue' = Append(queue, [id |-> sent', topic |-> t])
  /\ UNCHANGED <<lifecycle, import, batch, polling, bindings, pushed, lost>>

\* Mutant: only the first message is taken out of the queue that is dropped.
Drain_overwrites ==
  /\ polling /\ batch = <<>> /\ queue # <<>>
  /\ batch' = <<Head(queue)>> /\ queue' = <<>>
  /\ UNCHANGED <<lifecycle, import, polling, bindings, sent, pushed, lost>>

\* DrainQueue::drain(): the whole queue is swapped out under the mutex.
Drain ==
  /\ polling /\ batch = <<>> /\ queue # <<>>
  /\ batch' = queue /\ queue' = <<>>
  /\ UNCHANGED <<lifecycle, import, polling, bindings, sent, pushed, lost>>

\* The host polls a source that runs.
Poll ==
  /\ kind = "stream" /\ state = "running" /\ inside = "host" /\ ~polling
  /\ polling' = TRUE
  /\ UNCHANGED <<lifecycle, import, queue, batch, bindings, sent, pushed, lost>>

\* DelegatedIngestCache::push() of the next message: a topic without a binding gets
\* one first; the host may have none, and may refuse the message.
Push(found, taken) ==
  /\ polling /\ batch # <<>>
  /\ LET m == Head(batch)
         has == m.topic \in bindings \/ found
     IN /\ bindings' = IF has THEN bindings \cup {m.topic} ELSE bindings
        /\ pushed' = IF has /\ taken THEN Append(pushed, m) ELSE pushed
        /\ lost' = IF has /\ taken THEN lost ELSE lost \cup {m}
  /\ batch' = Tail(batch)
  /\ UNCHANGED <<lifecycle, import, queue, polling, sent>>

\* poll() returns, or throws with the rest of its batch on the stack.
EndPoll ==
  /\ polling /\ polling' = FALSE
  /\ batch' = <<>> /\ lost' = lost \cup Range(batch)
  /\ UNCHANGED <<lifecycle, import, queue, bindings, sent, pushed>>

-----------------------------------------------------------------------------
SourceFinished == inside = "gone" /\ UNCHANGED sourceVars

SourceNext ==
  \/ \E offered \in SUBSET (Required \cup Optional) : Bind(offered)
  \/ StartFile \/ StartStream
  \/ \E how \in {"ok", "error", "threw"} : EndImport(how) \/ EndStart(how)
  \/ StopFile \/ (\E throws \in BOOLEAN : StopStream(throws))
  \/ Destroy \/ PressStop
  \/ ProgressStart \/ CompleteIngest
  \/ \E t \in Topics : Receive(t) \/ (\E o \in TopicOutcomes \ {"pending"} : Record(t, o))
  \/ \E c \in Completions : CompleteByHand(c)
  \/ Poll \/ Drain \/ EndPoll
  \/ \E found, taken \in BOOLEAN : Push(found, taken)
  \/ SourceFinished

SourceSpec == SourceInit /\ [][SourceNext]_sourceVars

-----------------------------------------------------------------------------
(* Properties.                                                             *)

\* Between calls the host was told the state that current_state() returns, whatever
\* the overrides did; a stopped file source is the exception.
ToldIsState ==
  inside = "host" => told = state \/ (kind = "file" /\ state = "stopped")

\* Until the source is stopped its state says how start() ended: a failed one is
\* one that returned an error and has closed its progress bar, and one that stays
\* "starting" is one whose override threw.
StateIsAnswer ==
  inside = "host" =>
    /\ state = "running" => returned = "ok"
    /\ state = "failed" => returned = "error" /\ ~progress
    /\ state = "starting" => returned = "threw"

\* The host keeps as complete only an import of which every declared topic was fetched,
\* that attests empty topics exactly when there are some, and a list without repetition.
EvidenceIsEarned ==
  \A e \in evidence :
    /\ IsInjective(e.topics) /\ "" \notin Range(e.topics)
    /\ "attestsEmpty" \in e.flags => e.outcome = "completed"
    /\ (declared # <<>> /\ e.outcome = "completed") =>
         /\ \A t \in Range(declared) : outcomes[t] \in {"ok", "emptyOk"}
         /\ "attestsEmpty" \in e.flags <=> \E t \in Range(declared) : outcomes[t] = "emptyOk"

\* Every message received is queued, in the poll's batch, with the host or given up,
\* and the host gets them in the order of their arrival.
MessagesAccounted ==
  LET flow == pushed \o batch \o queue
  IN /\ \A i, j \in DOMAIN flow : i < j => flow[i].id < flow[j].id
     /\ {m.id : m \in Range(flow) \cup lost} = 1..sent
     /\ Range(flow) \cap lost = {}

\* What a host learns from a source is so: its state, its completion and its messages.
SourceReportsTruly ==
  SourceTypeOK /\ ToldIsState /\ StateIsAnswer /\ EvidenceIsEarned /\ MessagesAccounted
=============================================================================
