------------------------- MODULE NotificationQueue --------------------------
(***************************************************************************)
(* Block notifications on their way to the user: santad's queue            *)
(* (SNTNotificationQueue.mm over RingBuffer.h), the connections on which   *)
(* GUI processes register (setNotificationListener, MOLXPCConnection.mm),  *)
(* and the GUI's list of windows (SNTNotificationManager.mm).              *)
(*                                                                         *)
(* A notification in Asking carries the reply block of a held process; the *)
(* process stays suspended until somebody calls the block.  The blocks     *)
(* that run on pendingQueue are atomic; registrations, invalidation        *)
(* handlers, replies and GUIs run concurrently with them.                  *)
(***************************************************************************)
EXTENDS Naturals, Sequences, FiniteSets, SequencesExt

CONSTANTS
  Notes,       \* notifications
  Asking,      \* the ones with a reply block
  NoEvent,     \* the ones whose event is missing
  HashOf,      \* notification -> messageHash of its window
  Guis,        \* GUI processes: one for each user session
  Conns,       \* connections, each used for one registration
  GuiOf,       \* connection -> the GUI that registers with it
  Capacity,    \* of the ring buffer
  SilentMode,  \* EnableSilentMode
  Silences,    \* EnableNotificationSilences
  Overlap,     \* registrations of two GUIs may overlap
  MaxRuns,     \* bound: runs of one connection's invalidation handler
  NoGui

Hashes == {HashOf[n] : n \in Notes}

ASSUME ConstantsAssumption ==
  /\ Asking \subseteq Notes /\ NoEvent \subseteq Notes /\ HashOf \in [Notes -> Hashes]
  /\ GuiOf \in [Conns -> Guis] /\ NoGui \notin Conns
  /\ Capacity \in Nat \ {0} /\ MaxRuns \in Nat
  /\ SilentMode \in BOOLEAN /\ Silences \in BOOLEAN /\ Overlap \in BOOLEAN

VARIABLES
  added,    \* notifications passed to addEvent
  pending,  \* pendingNotifications, the ring buffer
  sent,     \* sentToUser
  conn,     \* notifierConnection
  reg,      \* connection -> progress of its registration
  link,     \* connection -> its state
  handler,  \* connections whose invalidationHandler is set
  runs,     \* connection -> runs of the handler
  via,      \* notification -> connection it was sent on
  reply,    \* notification -> the GUI's reply and the wrapped block
  calls,    \* notification -> calls of its reply block
  inbox,    \* GUI -> notifications received and not yet handled
  windows,  \* GUI -> its pendingNotifications; the first one is shown
  silenced  \* GUI -> hashes the user silenced

queue == <<added, pending, sent, via, calls>>
links == <<conn, reg, link, handler, runs>>
gui == <<inbox, windows, silenced>>
queueVars == <<queue, links, reply, gui>>

QueueInit ==
  /\ added = {} /\ pending = <<>> /\ sent = {} /\ conn = NoGui
  /\ reg = [c \in Conns |-> "none"] /\ link = [c \in Conns |-> "none"]
  /\ handler = {} /\ runs = [c \in Conns |-> 0]
  /\ via = [n \in Notes |-> NoGui] /\ reply = [n \in Notes |-> "none"]
  /\ calls = [n \in Notes |-> <<>>]
  /\ inbox = [g \in Guis |-> <<>>] /\ windows = [g \in Guis |-> <<>>]
  /\ silenced = [g \in Guis |-> {}]

-----------------------------------------------------------------------------
(* Blocks on pendingQueue *)

(* Answer the notifications of S, on top of the calls f. *)
Call(f, S, value) ==
  [n \in Notes |-> IF n \in S \intersect Asking THEN Append(f[n], value) ELSE f[n]]

(* What remove_if leaves of the ring buffer: the notifications without a    *)
(* reply block, in their order.                                             *)
Unasking(q) ==
  LET Kept[i \in 0..Len(q)] ==
        IF i = 0 THEN <<>>
        ELSE IF q[i] \in Asking THEN Kept[i - 1] ELSE Append(Kept[i - 1], q[i])
  IN  Kept[Len(q)]

(* Mutant of ClearAll: what was sent to the GUI is forgotten. *)
ClearAllPendingOnly(q, f) ==
  /\ calls' = Call(f, ToSet(q), FALSE)
  /\ sent' = {}
  /\ pending' = Unasking(q)
  /\ UNCHANGED <<via, inbox>>

(* clearAllPendingWithRepliesSerialized; q is the ring buffer's content. *)
ClearAll(q, f) ==
  /\ calls' = Call(f, sent \union ToSet(q), FALSE)
  /\ sent' = {}
  /\ pending' = Unasking(q)
  /\ UNCHANGED <<via, inbox>>

(* isConnected: the interface is set until the handler takes it away. *)
IsConnected(c) == c # NoGui /\ link[c] \in {"up", "broken"}

(* flushQueueSerialized: send everything, or answer what asks. *)
Flush(q, f) ==
  \/ /\ ~IsConnected(conn)
     /\ ClearAll(q, f)
  \/ /\ IsConnected(conn)
     /\ pending' = <<>>
     /\ sent' = sent \union ToSet(q)
     /\ via' = [n \in Notes |-> IF n \in ToSet(q) THEN conn ELSE via[n]]
     /\ inbox' = IF link[conn] = "up" THEN [inbox EXCEPT ![GuiOf[conn]] = @ \o q] ELSE inbox
     /\ calls' = f

Full == Len(pending) = Capacity

(* RingBuffer's Enqueue: a full buffer loses its oldest element. *)
Enqueue(n) == Append(IF Full THEN Tail(pending) ELSE pending, n)
Dropped == IF Full THEN {Head(pending)} ELSE {}

(* addEvent. *)
AddEvent(n) ==
  /\ n \notin added
  /\ added' = added \union {n}
  /\ \/ /\ n \in NoEvent
        /\ calls' = Call(calls, {n}, FALSE)
        /\ UNCHANGED <<pending, sent, via, inbox>>
     \/ /\ n \notin NoEvent
        /\ Flush(Enqueue(n), Call(calls, Dropped, FALSE))
  /\ UNCHANGED <<links, reply, windows, silenced>>

-----------------------------------------------------------------------------
(* setNotificationListener, step by step, on the thread of the GUI's call. *)

Registering(c) == reg[c] \notin {"none", "done"}
SetReg(c, l) == reg' = [reg EXCEPT ![c] = l]

(* resume: the connection is established, or the wait times out. *)
Resume(c) ==
  /\ reg[c] = "none"
  /\ Overlap \/ \A d \in Conns : ~Registering(d)
  /\ \E l \in {"up", "down"} : link' = [link EXCEPT ![c] = l]
  /\ SetReg(c, "resumed")
  /\ UNCHANGED <<queue, conn, handler, runs, reply, gui>>

(* setNotifierConnection: assign the connection ... *)
Assign(c) ==
  /\ reg[c] = "resumed"
  /\ conn' = c
  /\ SetReg(c, "assigned")
  /\ UNCHANGED <<queue, link, handler, runs, reply, gui>>

(* ... set the handler of whatever the connection is by now (nil ignores    *)
(* it) ...                                                                  *)
SetHandler(c) ==
  /\ reg[c] = "assigned"
  /\ handler' = handler \union ({conn} \ {NoGui})
  /\ SetReg(c, "handled")
  /\ UNCHANGED <<queue, conn, link, runs, reply, gui>>

(* ... and flush. *)
FlushOnRegister(c) ==
  /\ reg[c] = "handled"
  /\ Flush(pending, calls)
  /\ SetReg(c, "done")
  /\ UNCHANGED <<added, conn, link, handler, runs, reply, windows, silenced>>

-----------------------------------------------------------------------------
(* The end of a connection *)

(* A GUI process exits: what it had is gone, its connections break. *)
GuiQuits(g) ==
  /\ \E c \in Conns : GuiOf[c] = g /\ link[c] = "up"
  /\ link' = [c \in Conns |-> IF GuiOf[c] = g /\ link[c] = "up" THEN "broken" ELSE link[c]]
  /\ inbox' = [inbox EXCEPT ![g] = <<>>]
  /\ windows' = [windows EXCEPT ![g] = <<>>]
  /\ UNCHANGED <<queue, conn, reg, handler, runs, reply, silenced>>

(* The interruption or invalidation handler of the connection runs, after   *)
(* the replies that arrived before: it takes the interface away ...         *)
Invalidated(c) ==
  /\ link[c] \in {"broken", "down"}
  /\ runs[c] < MaxRuns
  /\ \A n \in Notes : via[n] = c => reply[n] \in {"none", "done"}
  /\ runs' = [runs EXCEPT ![c] = @ + 1]
  /\ link' = [link EXCEPT ![c] = IF c \in handler THEN "lost" ELSE "down"]
  /\ UNCHANGED <<queue, conn, reg, handler, reply, gui>>

(* ... and calls invalidationHandler, which forgets the current connection  *)
(* ...                                                                      *)
DropConnection(c) ==
  /\ link[c] = "lost"
  /\ conn' = NoGui
  /\ link' = [link EXCEPT ![c] = "clearing"]
  /\ UNCHANGED <<queue, reg, handler, runs, reply, gui>>

(* ... and answers everything that asks. *)
ClearOnInvalidation(c) ==
  /\ link[c] = "clearing"
  /\ ClearAll(pending, calls)
  /\ link' = [link EXCEPT ![c] = "down"]
  /\ UNCHANGED <<added, conn, reg, handler, runs, reply, windows, silenced>>

-----------------------------------------------------------------------------
(* The GUI *)

(* The GUI calls the reply block of n; it reaches santad while the          *)
(* connection is up.                                                        *)
UserSays(n, value) ==
  reply' = [reply EXCEPT ![n] = IF link[via[n]] # "up" THEN "done" ELSE value]

(* Mutant of QueueMessage: a duplicate is dropped without an answer. *)
QueueMessageDropsDuplicate(g) ==
  /\ inbox[g] # <<>>
  /\ inbox' = [inbox EXCEPT ![g] = Tail(@)]
  /\ windows' = IF \E m \in ToSet(windows[g]) : HashOf[m] = HashOf[Head(inbox[g])]
                THEN windows ELSE [windows EXCEPT ![g] = Append(@, Head(inbox[g]))]
  /\ UNCHANGED <<queue, links, reply, silenced>>

(* queueMessage: nothing is shown in silent mode, for a duplicate (which is *)
(* answered) and for a silenced hash.                                       *)
QueueMessage(g) ==
  /\ inbox[g] # <<>>
  /\ inbox' = [inbox EXCEPT ![g] = Tail(@)]
  /\ LET n == Head(inbox[g])
         Queued == \E m \in ToSet(windows[g]) : HashOf[m] = HashOf[n]
     IN  \/ /\ ~SilentMode /\ Queued
            /\ UserSays(n, "no")
            /\ UNCHANGED windows
         \/ /\ SilentMode \/ (~Queued /\ Silences /\ HashOf[n] \in silenced[g])
            /\ UNCHANGED <<reply, windows>>
         \/ /\ ~SilentMode /\ ~Queued /\ ~(Silences /\ HashOf[n] \in silenced[g])
            /\ windows' = [windows EXCEPT ![g] = Append(@, n)]
            /\ UNCHANGED reply
  /\ UNCHANGED <<queue, links, silenced>>

(* The user answers the window that is shown, perhaps silencing its hash;   *)
(* the next one is shown.                                                   *)
CloseWindow(g) ==
  /\ windows[g] # <<>>
  /\ LET n == Head(windows[g])
     IN  \/ /\ n \in Asking /\ UserSays(n, "yes")
            /\ UNCHANGED silenced
         \/ /\ UserSays(n, "no")
            /\ \/ UNCHANGED silenced
               \/ Silences /\ silenced' = [silenced EXCEPT ![g] = @ \union {HashOf[n]}]
  /\ windows' = [windows EXCEPT ![g] = Tail(@)]
  /\ UNCHANGED <<queue, links, inbox>>

SilenceExpires(g) ==
  /\ \E h \in silenced[g] : silenced' = [silenced EXCEPT ![g] = @ \ {h}]
  /\ UNCHANGED <<queue, links, reply, inbox, windows>>

(* The wrapped reply block, on the connection's queue: forget that n was    *)
(* sent ...                                                                 *)
Forget(n) ==
  /\ reply[n] \in {"yes", "no"}
  /\ sent' = sent \ {n}
  /\ reply' = [reply EXCEPT ![n] = IF @ = "yes" THEN "approve" ELSE "refuse"]
  /\ UNCHANGED <<added, pending, via, calls, links, gui>>

(* ... and call the reply block. *)
CallReply(n) ==
  /\ reply[n] \in {"approve", "refuse"}
  /\ calls' = Call(calls, {n}, reply[n] = "approve")
  /\ reply' = [reply EXCEPT ![n] = "done"]
  /\ UNCHANGED <<added, pending, sent, via, links, gui>>

-----------------------------------------------------------------------------
Daemon(c) ==
  \/ Assign(c) \/ SetHandler(c) \/ FlushOnRegister(c)
  \/ Invalidated(c) \/ DropConnection(c) \/ ClearOnInvalidation(c)
Wrapped(n) == Forget(n) \/ CallReply(n)

(* All notifications were added and nothing is left to do. *)
QueueQuiet ==
  /\ added = Notes /\ \A c \in Conns : reg[c] = "done"
  /\ \A n \in Notes : reply[n] \in {"none", "done"}
  /\ \A g \in Guis : inbox[g] = <<>> /\ windows[g] = <<>>
  /\ UNCHANGED queueVars

QueueNext ==
  \/ \E n \in Notes : AddEvent(n) \/ Wrapped(n)
  \/ \E c \in Conns : Resume(c) \/ Daemon(c)
  \/ \E g \in Guis : GuiQuits(g) \/ QueueMessage(g) \/ CloseWindow(g) \/ SilenceExpires(g)
  \/ QueueQuiet

QueueSpec == QueueInit /\ [][QueueNext]_queueVars

(* Queued blocks run, and users answer the windows they are shown. *)
QueueFairSpec ==
  /\ QueueSpec
  /\ \A c \in Conns : WF_queueVars(Daemon(c))
  /\ \A n \in Notes : WF_queueVars(Wrapped(n))
  /\ \A g \in Guis : WF_queueVars(QueueMessage(g)) /\ WF_queueVars(CloseWindow(g))

-----------------------------------------------------------------------------
(* Every variable has its type; the ring buffer stays within its capacity   *)
(* (RingBuffer.h), holds nothing that was sent already, and only            *)
(* notifications that were added are known to anybody.                      *)
QueueTypeOK ==
  /\ added \subseteq Notes /\ sent \subseteq added
  /\ pending \in Seq(added) /\ Len(pending) <= Capacity /\ ToSet(pending) \intersect sent = {}
  /\ conn \in Conns \union {NoGui} /\ handler \subseteq Conns
  /\ reg \in [Conns -> {"none", "resumed", "assigned", "handled", "done"}]
  /\ link \in [Conns -> {"none", "up", "broken", "lost", "clearing", "down"}]
  /\ runs \in [Conns -> 0..MaxRuns]
  /\ via \in [Notes -> Conns \union {NoGui}]
  /\ reply \in [Notes -> {"none", "yes", "no", "approve", "refuse", "done"}]
  /\ calls \in [Notes -> Seq(BOOLEAN)]
  /\ inbox \in [Guis -> Seq(added)] /\ windows \in [Guis -> Seq(added)]
  /\ silenced \in [Guis -> SUBSET Hashes]

(* Somebody still has to call the reply block of every held process whose   *)
(* block was not called: santad is calling it, or remembers it as sent, and *)
(* once no registration is under way the end of the current connection is   *)
(* going to answer for what was sent on it, although the handler was set on *)
(* whatever the connection was by then.  An overflow drops no held process. *)
Watched == (\A c \in Conns : ~Registering(c)) /\ conn # NoGui => conn \in handler
NoReplyLost ==
  \A n \in Asking \intersect added :
    calls[n] = <<>> => (n \in sent /\ Watched) \/ reply[n] \in {"approve", "refuse"}

(* Every held process whose notification no user silences is answered, if   *)
(* GUIs register one after the other.  (When registrations overlap, a       *)
(* connection can stay without a handler, and what was sent on it meanwhile *)
(* waits for another connection to end.)                                    *)
Unsilenced(n) == \A g \in Guis : HashOf[n] \notin silenced[g]
OneAtATime == \A c, d \in Conns : Registering(c) /\ Registering(d) => c = d
UnsilencedAnswered ==
  \A n \in Asking : [](Unsilenced(n) /\ OneAtATime) => (n \in added ~> calls[n] # <<>>)

-----------------------------------------------------------------------------
(* "Check if the dropped notification had a reply block and if so, call it  *)
(* so any resources can be cleaned up." (addEvent): every held process is   *)
(* answered, also one whose notification the GUI drops.                     *)
EveryoneAnswered == \A n \in Asking : n \in added ~> calls[n] # <<>>

(* "... call the reply block if set then clear the reply so it won't be     *)
(* called again when the notification is eventually sent"                   *)
(* (clearAllPendingWithRepliesSerialized).                                  *)
RepliedOnce == \A n \in Asking : Len(calls[n]) <= 1
=============================================================================
