----------------------------- MODULE OpcUaStream -----------------------------
(***************************************************************************)
(* A streaming session of the OPC UA client (crates/instro-opcua):         *)
(* client.rs's poll_loop and subscription_loop on a thread of their own,   *)
(* and the StreamSession handle of client/stream.rs that ends them.        *)
(*                                                                         *)
(* The subscription loop merges two sources that know nothing of each      *)
(* other: notifications, which the server queues and delivers late, and    *)
(* its own reads of the nodes that went quiet, held back for one tick so   *)
(* that a late notification can take their place.                          *)
(*                                                                         *)
(* A sample is the version of the node's value it shows: versions grow     *)
(* with the source timestamp, and 0 stands for no sample.  Whether a       *)
(* notification bears a later server timestamp than the last read of its   *)
(* node is kept with it (`after`).  Between two awaits the loop runs       *)
(* undisturbed, so a step goes from one await to the next.                 *)
(***************************************************************************)
EXTENDS Naturals, Sequences, FiniteSets

CONSTANTS
    Nodes,      \* the nodes the session was started for
    MaxVersion, \* bound: versions of each node's value
    QueueSize,  \* notifications of a node on their way, at most
    Brisk,      \* reads are answered before the next tick is due
    Prompt      \* a notification sampled before a read of its node arrives
                \* before the tick that follows the read

ASSUME StreamAssumption ==
    /\ Nodes # {} /\ MaxVersion \in [Nodes -> Nat \ {0}] /\ QueueSize \in Nat \ {0}
    /\ Brisk \in BOOLEAN /\ Prompt \in BOOLEAN

VARIABLES
    mode,       \* "poll": start_polling; "subscribe", "both": start_subscription
                \* without and with a background_poll_interval
    monitored,  \* nodes with a monitored item: at least one, or no subscription
    stamps,     \* the timestamps the server puts on samples
    value,      \* at the server: the version each node has
    reported,   \* at the server: the version last sampled for a notification
    inbox,      \* notifications of each node that the loop has not taken
    connected,  \* the client has not been disconnected or dropped
    pc,         \* where the loop awaits, or how it ended
    due,        \* the timer's next tick is due
    quiet,      \* quiet_nodes
    polled,     \* polled_nodes: the version read for a node, or 0
    last,       \* the version last handed to on_data for each node
    disordered, \* history: nodes for which on_data was given a version older
                \* than an earlier one
    session,    \* the handle: open, stopping, stopped, timed_out, dropped
    stopSent,   \* the oneshot stop signal was sent
    term        \* the watch channel: FALSE, TRUE, or its sender is gone

configVars == <<mode, monitored, stamps>>
serverVars == <<value, reported, inbox>>
pumpVars == <<pc, due, quiet, polled>>
outVars == <<last, disordered>>
sessionVars == <<session, stopSent, term>>
vars == <<configVars, serverVars, connected, pumpVars, outVars, sessionVars>>

Versions == UNION {1..MaxVersion[n] : n \in Nodes}
Ticks == mode # "subscribe"
NothingPolled == [n \in Nodes |-> 0]

\* What is in an inbox: a version, and whether it was sampled after the last
\* read of its node, which is what the server timestamps tell.
Notice == [version : Versions, after : BOOLEAN]

TypeOK ==
    /\ mode \in {"poll", "subscribe", "both"}
    /\ monitored \subseteq Nodes /\ stamps \subseteq {"source", "server"}
    /\ value \in [Nodes -> Versions] /\ reported \in [Nodes -> Versions \cup {0}]
    /\ \A n \in Nodes : inbox[n] \in Seq(Notice) /\ Len(inbox[n]) <= QueueSize
    /\ connected \in BOOLEAN /\ due \in BOOLEAN
    /\ pc \in {"select", "reading", "ended", "done", "panicked"}
    /\ quiet \subseteq Nodes
    /\ polled \in [Nodes -> Versions \cup {0}]
    \* A sample is held back by the loop with a timer only, and never over a read.
    /\ polled # NothingPolled => mode = "both" /\ pc = "select"
    /\ last \in [Nodes -> Versions \cup {0}] /\ disordered \subseteq Nodes
    /\ session \in {"open", "stopping", "stopped", "timed_out", "dropped"}
    /\ stopSent \in BOOLEAN /\ term \in {"running", "set", "closed"}

Init ==
    /\ mode \in {"poll", "subscribe", "both"}
    /\ monitored \in IF mode = "poll" THEN {{}} ELSE (SUBSET Nodes) \ {{}}
    /\ stamps \in SUBSET {"source", "server"}
    /\ value = [n \in Nodes |-> 1]
    /\ reported = [n \in Nodes |-> 0]
    /\ inbox = [n \in Nodes |-> <<>>]
    /\ connected = TRUE
    /\ pc = "select" /\ due = FALSE
    /\ quiet = Nodes /\ polled = NothingPolled
    /\ last = [n \in Nodes |-> 0] /\ disordered = {}
    /\ session = "open" /\ stopSent = FALSE /\ term = "running"

(***************************************************************************)
(* The server and the client it is reached through.                        *)
(***************************************************************************)

Change(n) ==
    /\ value[n] < MaxVersion[n]
    /\ value' = [value EXCEPT ![n] = @ + 1]
    /\ UNCHANGED <<configVars, reported, inbox, connected, pumpVars, outVars, sessionVars>>

\* The server samples the item; a full queue loses its oldest notification or
\* this one (discard_oldest).
Sample(n) ==
    LET notice == [version |-> value[n], after |-> TRUE]
    IN  /\ connected
        /\ n \in monitored /\ reported[n] < value[n]
        /\ reported' = [reported EXCEPT ![n] = value[n]]
        /\ \/ /\ Len(inbox[n]) < QueueSize
              /\ inbox' = [inbox EXCEPT ![n] = Append(@, notice)]
           \/ /\ Len(inbox[n]) = QueueSize
              /\ \/ inbox' = [inbox EXCEPT ![n] = Append(Tail(@), notice)]
                 \/ inbox' = inbox
        /\ UNCHANGED <<configVars, value, connected, pumpVars, outVars, sessionVars>>

Disconnect ==
    /\ connected /\ connected' = FALSE
    /\ UNCHANGED <<configVars, serverVars, pumpVars, outVars, sessionVars>>

(***************************************************************************)
(* The loop.  select_biased! looks at the timer first: a tick that is due  *)
(* is always taken before the notifications that wait.                     *)
(***************************************************************************)

\* Samples handed to on_data, a sequence of versions for each node.
Deliver(samples) ==
    /\ last' = [n \in Nodes |-> IF samples[n] = <<>> THEN last[n]
                                ELSE samples[n][Len(samples[n])]]
    /\ disordered' = disordered \cup
         {n \in Nodes : LET seen == <<last[n]>> \o samples[n]
                        IN  \E i \in 2..Len(seen) : seen[i] < seen[i - 1]}

\* The samples read for `read`, a sequence of at most one version per node.
Alone(read) == [n \in Nodes |-> IF read[n] = 0 THEN <<>> ELSE <<read[n]>>]

\* Notifications the next tick would wait for.
Overdue(n) == polled[n] # 0 /\ \E i \in 1..Len(inbox[n]) : ~inbox[n][i].after

\* Time passes.
TickDue ==
    /\ Ticks /\ ~due
    /\ pc = "select" \/ (pc = "reading" /\ ~Brisk)
    /\ Prompt => \A n \in Nodes : ~Overdue(n)
    /\ due' = TRUE
    /\ UNCHANGED <<configVars, serverVars, connected, pc, quiet, polled, outVars, sessionVars>>

\* The tick of subscription_loop: what was held back goes out, and the nodes
\* without a notification since the last tick are read.
Tick ==
    /\ mode = "both" /\ pc = "select" /\ due
    /\ Deliver(Alone(polled))
    /\ polled' = NothingPolled /\ due' = FALSE
    /\ IF quiet = {} THEN quiet' = Nodes /\ pc' = pc
                     ELSE quiet' = quiet /\ pc' = "reading"
    /\ UNCHANGED <<configVars, serverVars, connected, sessionVars>>

PollTick ==
    /\ mode = "poll" /\ pc = "select" /\ due
    /\ due' = FALSE /\ pc' = "reading"
    /\ UNCHANGED <<configVars, serverVars, connected, quiet, polled, outVars, sessionVars>>

\* The values the server has now; notifications sampled so far are older.
Answer(nodes) ==
    /\ pc = "reading" /\ connected /\ pc' = "select"
    /\ inbox' = [n \in Nodes |-> IF n \notin nodes THEN inbox[n]
                   ELSE [i \in 1..Len(inbox[n]) |-> [inbox[n][i] EXCEPT !.after = FALSE]]]
    /\ UNCHANGED <<configVars, value, reported, connected, due, sessionVars>>

\* Faulty: a node that notified once is never read again.
ReadQuietForgets ==
    /\ mode = "both" /\ Answer(quiet)
    /\ polled' = [n \in Nodes |-> IF n \in quiet THEN value[n] ELSE polled[n]]
    /\ UNCHANGED <<quiet, outVars>>

ReadQuiet ==
    /\ mode = "both" /\ Answer(quiet)
    /\ polled' = [n \in Nodes |-> IF n \in quiet THEN value[n] ELSE polled[n]]
    /\ quiet' = Nodes
    /\ UNCHANGED outVars

ReadAll ==
    /\ mode = "poll" /\ Answer(Nodes)
    /\ Deliver(Alone(value))
    /\ UNCHANGED <<quiet, polled>>

\* An error is logged; the quiet nodes are not reset.
ReadError ==
    /\ pc = "reading" /\ connected /\ pc' = "select"
    /\ UNCHANGED <<configVars, serverVars, connected, due, quiet, polled, outVars, sessionVars>>

\* ClientDisconnected: the loop breaks.
ReadDisconnected ==
    /\ pc = "reading" /\ ~connected /\ pc' = "ended"
    /\ Deliver(Alone(polled)) /\ polled' = NothingPolled
    /\ UNCHANGED <<configVars, serverVars, connected, due, quiet, sessionVars>>

\* Faulty: the sample held back is kept whatever arrives.
OlderAlways(n, notice) == polled[n] # 0

\* polled_sample_filter: the sample held back is kept when one of the two
\* timestamps says that the notification is newer.
Older(n, notice) ==
    \/ "source" \in stamps /\ polled[n] < notice.version
    \/ "server" \in stamps /\ notice.after

\* What `count` notifications of a node make of it and of the sample held back.
Merged(n, count) ==
    (IF count > 0 /\ polled[n] # 0 /\ Older(n, inbox[n][1]) THEN <<polled[n]>> ELSE <<>>)
        \o [i \in 1..count |-> inbox[n][i].version]

\* ready_chunks: those notifications that have arrived.
Chunk ==
    /\ mode # "poll" /\ pc = "select" /\ ~due
    /\ \E count \in [Nodes -> 0..QueueSize] :
        /\ \A n \in Nodes : count[n] <= Len(inbox[n])
        /\ \E n \in Nodes : count[n] > 0
        /\ Deliver([n \in Nodes |-> Merged(n, count[n])])
        /\ quiet' = {n \in quiet : count[n] = 0}
        /\ polled' = [n \in Nodes |-> IF count[n] > 0 THEN 0 ELSE polled[n]]
        /\ inbox' = [n \in Nodes |-> SubSeq(inbox[n], count[n] + 1, Len(inbox[n]))]
    /\ UNCHANGED <<configVars, value, reported, connected, pc, due, sessionVars>>

\* The streams of a client that is gone end after their last notification.
StreamEnd ==
    /\ mode # "poll" /\ pc = "select" /\ ~due
    /\ ~connected /\ \A n \in Nodes : inbox[n] = <<>>
    /\ Deliver(Alone(polled)) /\ polled' = NothingPolled
    /\ pc' = "ended"
    /\ UNCHANGED <<configVars, serverVars, connected, due, quiet, sessionVars>>

(***************************************************************************)
(* The session's thread: the loop against the stop signal.                 *)
(***************************************************************************)

\* Faulty: the signal is looked at between two turns of the loop.
CancelBetweenTurns ==
    /\ stopSent /\ pc = "select"
    /\ pc' = "ended" /\ polled' = NothingPolled
    /\ UNCHANGED <<configVars, serverVars, connected, due, quiet, outVars, sessionVars>>

\* The signal drops the loop where it awaits, with the samples it held back.
Cancel ==
    /\ stopSent /\ pc \in {"select", "reading"}
    /\ pc' = "ended" /\ polled' = NothingPolled
    /\ UNCHANGED <<configVars, serverVars, connected, due, quiet, outVars, sessionVars>>

Finish ==
    /\ pc = "ended" /\ pc' = "done" /\ term' = "set"
    /\ UNCHANGED <<configVars, serverVars, connected, due, quiet, polled, outVars, session, stopSent>>

\* on_data panics: the thread unwinds and both ends of the channels it holds go.
Panic ==
    /\ \/ pc = "select" /\ (due \/ ~connected \/ \E n \in Nodes : inbox[n] # <<>>)
       \/ pc = "reading" /\ mode = "poll" /\ connected
    /\ pc' = "panicked" /\ term' = "closed" /\ polled' = NothingPolled
    /\ UNCHANGED <<configVars, serverVars, connected, due, quiet, outVars, session, stopSent>>

Loop == \/ Tick \/ PollTick \/ Chunk \/ StreamEnd \/ ReadDisconnected
        \/ Cancel \/ Finish

(***************************************************************************)
(* StreamSession.                                                          *)
(***************************************************************************)

\* Faulty: the signal is sent and nobody waits.
StopOnlySignals ==
    /\ session = "open"
    /\ session' = "stopped" /\ stopSent' = TRUE
    /\ UNCHANGED <<configVars, serverVars, connected, pumpVars, outVars, term>>

\* stop() and stop_timeout(): a session that ended needs no signal.
Stop ==
    /\ session = "open"
    /\ IF term = "set" THEN session' = "stopped" /\ UNCHANGED stopSent
                       ELSE session' = "stopping" /\ stopSent' = TRUE
    /\ UNCHANGED <<configVars, serverVars, connected, pumpVars, outVars, term>>

StopDone ==
    /\ session = "stopping" /\ term # "running"
    /\ session' = "stopped"
    /\ UNCHANGED <<configVars, serverVars, connected, pumpVars, outVars, stopSent, term>>

StopTimeout ==
    /\ session = "stopping" /\ session' = "timed_out"
    /\ UNCHANGED <<configVars, serverVars, connected, pumpVars, outVars, stopSent, term>>

Drop ==
    /\ session = "open" /\ session' = "dropped" /\ stopSent' = TRUE
    /\ UNCHANGED <<configVars, serverVars, connected, pumpVars, outVars, term>>

Next ==
    \/ \E n \in Nodes : Change(n) \/ Sample(n)
    \/ Disconnect
    \/ TickDue \/ ReadQuiet \/ ReadAll \/ ReadError
    \/ Loop \/ Panic
    \/ Stop \/ StopDone \/ StopTimeout \/ Drop

Spec == Init /\ [][Next]_vars

(***************************************************************************)
(* Time passes, and the loop's thread takes the steps that are open to it; *)
(* each time it gets to look at the notifications, it takes those it finds *)
(* (SF).  Nothing obliges the server to answer a read or to sample a node. *)
(***************************************************************************)
Fairness ==
    /\ WF_vars(TickDue) /\ WF_vars(Tick) /\ WF_vars(PollTick)
    /\ SF_vars(Chunk) /\ WF_vars(StreamEnd) /\ WF_vars(ReadDisconnected)
    /\ WF_vars(Cancel) /\ WF_vars(Finish) /\ WF_vars(StopDone)

FairSpec == Spec /\ Fairness

Over == pc \in {"ended", "done", "panicked"} \/ ~connected

\* As long as notifications and reads are faster than the ticks, on_data never
\* sees a node go back in time, whichever timestamps the server sends: the
\* merge of subscription_loop keeps the order of the two sources.
Ordered == Brisk /\ Prompt => disordered = {}

\* The server answers reads: of those it is asked again and again, some succeed.
Answers == SF_vars(ReadQuiet \/ ReadAll)

\* With a timer, every node's newest value is handed to on_data in the end,
\* also when the server never notifies it, its monitored item was refused or
\* its notifications were lost, as long as the server answers.
KeepsUp == Answers => \A n \in Nodes : []<>(~Ticks \/ Over \/ last[n] = value[n])

\* Every notification is emitted in the end ("Notifications are emitted as they
\* arrive", client.rs:389), as long as the server answers.
NotificationsEmitted == Answers => \A n \in Nodes : []<>(Over \/ inbox[n] = <<>>)

\* After stop() has returned on_data is not called again: the loop is over, or
\* its thread is gone.
StopEndsSession == session = "stopped" => pc \in {"done", "panicked"}

\* stop() returns, also when the server never answers the read the loop awaits
\* and when on_data has panicked.
StopReturns == session = "stopping" ~> session # "stopping"
=============================================================================
