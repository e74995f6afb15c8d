------------------------------ MODULE ProcessTree ------------------------------
(***************************************************************************)
(* The tree of running processes that annotates telemetry                  *)
(* (ProcessTree/process_tree.cc, process.h, annotations/originator.cc) and *)
(* the ES client that feeds it (SNTEndpointSecurityAdapter.mm).            *)
(*                                                                         *)
(* santad fills the tree twice while it starts (CreateTree and main), then *)
(* subscribes; from then on every fork, exec and exit the kernel logs is   *)
(* delivered to the one tree-aware client, whose handler runs serially: a  *)
(* handler is one action.  ES orders the events of related processes only, *)
(* which is why Step keeps a window of timestamps.  After it informed the  *)
(* tree, the handler makes a ProcessToken that lives as long as the        *)
(* message; the token's destructor runs on any thread, between any two     *)
(* critical sections of mtx_.  What the destructor of a token that was     *)
(* moved from does (its tree_ is null, Message.mm:67 and 78) is undefined  *)
(* in C++ and left out.                                                    *)
(*                                                                         *)
(* A Pid of the source is a pair (pid, pidversion); here it is the index   *)
(* of an incarnation in `kproc`, which records its pid.  A timestamp is    *)
(* the event's index in the kernel's log.                                  *)
(***************************************************************************)
EXTENDS Integers, Sequences, FiniteSets, SequencesExt

CONSTANTS
    W,          \* length of seen_timestamps_ (32 in the source)
    MaxProcs,   \* bound: incarnations the kernel creates
    MaxEvents   \* bound: events the kernel logs

ASSUME WAssumption == W \in Nat \ {0}
ASSUME BoundsAssumption == MaxProcs \in Nat \ {0} /\ MaxEvents \in Nat

VARIABLES
    kproc,      \* kernel: [pid, ppid, prog] of every incarnation so far
    alive,      \* kernel: the incarnations that run
    log,        \* kernel: the events since the subscription, [type, p, n]
    boot,       \* "none", "created", "filled" or "subscribed"
    pending,    \* events ES has still to deliver to the client
    handling,   \* the event whose handler has informed the tree, or NoEvent
    proc,       \* the Process objects, by Pid (they outlive map_)
    map,        \* the Pids that are keys of map_
    removeAt,   \* remove_at_: a sequence of [ts, pid]
    seen,       \* seen_timestamps_
    token       \* pids_ of the token of every message that is still alive

kernel == <<kproc, alive, log>>
tree == <<proc, map, removeAt, seen>>
client == <<pending, handling>>
treeVars == <<kernel, boot, client, tree, token>>

(***************************************************************************)
(* The data of a process: what Pid, Program and Process keep of it.        *)
(***************************************************************************)
Pid == 1..MaxProcs
NoPid == 0
NoEvent == 0
Root == 1

\* Program: the executables the originator knows, and any other.
Program == {"login", "cron", "other"}

\* Annotations::Originator; "none" is the absence of an annotation.
Originator == {"none", "LOGIN", "CRON"}

\* Process: effective_cred_ is copied and never looked at, and left out.
Process == [program: Program, parent: Pid \cup {NoPid}, ann: Originator,
            refcnt: Int, tombstoned: BOOLEAN]

NewProcess(prog, parent) ==
    [program |-> prog, parent |-> parent, ann |-> "none", refcnt |-> 0,
     tombstoned |-> FALSE]

\* OriginatorAnnotator::AnnotateExec's table.
OriginatorPrograms(prog) ==
    CASE prog = "login" -> "LOGIN" [] prog = "cron" -> "CRON" [] OTHER -> "none"

\* emplace into annotations_: an annotation that is there stays.
AnnotateProcess(old, a) == IF old = "none" THEN a ELSE old

\* AnnotateFork: what the child is given.
AnnotateFork(parentAnn) == parentAnn

(* Mutant of AnnotateExec: the program decides before what is inherited. *)
ProgramFirst(origAnn, prog) ==
    IF OriginatorPrograms(prog) # "none" THEN OriginatorPrograms(prog) ELSE origAnn

\* AnnotateExec: what the new image is given.
AnnotateExec(origAnn, prog) ==
    IF origAnn # "none" THEN origAnn ELSE OriginatorPrograms(prog)

(***************************************************************************)
(* Step                                                                    *)
(***************************************************************************)

\* Whether an event is applied: not older than the window, not in it.  The
\* newest timestamp is not looked for.
Novel(ts) ==
    /\ ts >= Head(seen)
    /\ ts < Last(seen) => \A i \in 1..W : seen[i] # ts

\* The entry ts replaces: the last one below it; the ones before move down.
InsertPoint(ts) == CHOOSE i \in 1..W :
                       seen[i] < ts /\ \A j \in (i + 1)..W : seen[j] >= ts

Slide(ts) ==
    LET k == InsertPoint(ts)
    IN  [i \in 1..W |-> IF i < k THEN seen[i + 1] ELSE IF i = k THEN ts ELSE seen[i]]

(* Mutant of Due: a removal is due with the next event. *)
DueInWindow == {r \in Range(removeAt) : r.ts <= Last(seen)}

\* Removals whose timestamp fell out of the window.
Due == {r \in Range(removeAt) : r.ts < Head(seen)}
DuePids == {r.pid : r \in Due}

\* A due process that is retained is only marked; any other one is erased.
Tombstoned == {p \in DuePids \cap map : proc[p].refcnt > 0}
Erased == DuePids \ Tombstoned

\* The loop over remove_at_ keeps what is not due, in its order.
Remaining ==
    LET kept[i \in 0..Len(removeAt)] ==
            IF i = 0 THEN <<>>
            ELSE IF removeAt[i] \in Due THEN kept[i - 1] ELSE Append(kept[i - 1], removeAt[i])
    IN  kept[Len(removeAt)]

\* The tree after Step returned true, with `more` removals scheduled by the
\* handler that called it.
StepRemovals(more) == removeAt' = Remaining \o more
Marked == [p \in DOMAIN proc |->
              IF p \in Tombstoned THEN [proc[p] EXCEPT !.tombstoned = TRUE] ELSE proc[p]]

(***************************************************************************)
(* The handlers, called by InformFromESEvent                               *)
(***************************************************************************)
\* emplace: an entry of the map that is there stays.
Emplace(objects, kept, n, p) == IF n \in kept THEN objects
                                ELSE [q \in DOMAIN objects \cup {n} |->
                                         IF q = n THEN p ELSE objects[q]]

\* map_[parent] finds the parent, which is not removed before its own exit or
\* exec was delivered; of an unknown parent it would insert a null entry.
HandleFork(ts, p, n) ==
    /\ Novel(ts)
    /\ seen' = Slide(ts)
    /\ StepRemovals(<<>>)
    /\ LET kept == map \ Erased
           child == [NewProcess(Marked[p].program, p) EXCEPT !.ann = AnnotateFork(Marked[p].ann)]
       IN  /\ proc' = Emplace(Marked, kept, n, child)
           /\ map' = kept \cup {n}

HandleExec(ts, p, n, prog) ==
    /\ Novel(ts)
    /\ seen' = Slide(ts)
    /\ StepRemovals(<<[ts |-> ts, pid |-> p]>>)
    /\ LET kept == map \ Erased
           image == [NewProcess(prog, Marked[p].parent)
                         EXCEPT !.ann = AnnotateExec(Marked[p].ann, prog)]
       IN  /\ proc' = Emplace(Marked, kept, n, image)
           /\ map' = kept \cup {n}

HandleExit(ts, p) ==
    /\ Novel(ts)
    /\ seen' = Slide(ts)
    /\ StepRemovals(<<[ts |-> ts, pid |-> p]>>)
    /\ proc' = Marked
    /\ map' = map \ Erased

\* InformFromESEvent: an event of a process the tree does not know is
\* ignored, and so is one that Step refuses.
InformFromESEvent(ts) ==
    LET e == log[ts]
    IN  \/ /\ e.p \notin map \/ ~Novel(ts)
           /\ UNCHANGED tree
        \/ e.p \in map /\ e.type = "fork" /\ HandleFork(ts, e.p, e.n)
        \/ e.p \in map /\ e.type = "exec" /\ HandleExec(ts, e.p, e.n, kproc[e.n].prog)
        \/ e.p \in map /\ e.type = "exit" /\ HandleExit(ts, e.p)

\* ES delivers an event once all earlier ones of its processes were delivered.
Touches(ts) == {log[ts].p, log[ts].n} \ {NoPid}
Deliverable(ts) ==
    /\ ts \in pending
    /\ \A d \in pending : d < ts => Touches(d) \cap Touches(ts) = {}

\* The first half of handleContextMessage.
InformTree == \E ts \in pending :
    /\ handling = NoEvent
    /\ Deliverable(ts)
    /\ InformFromESEvent(ts)
    /\ pending' = pending \ {ts}
    /\ handling' = ts
    /\ UNCHANGED <<kernel, boot, token>>

(***************************************************************************)
(* Tokens                                                                  *)
(***************************************************************************)
RefDelta(pids, d) == [p \in DOMAIN proc |->
    IF p \in pids \cap map THEN [proc[p] EXCEPT !.refcnt = @ + d] ELSE proc[p]]

RetainProcess(pids) == proc' = RefDelta(pids, 1) /\ map' = map

ReleaseProcess(pids) ==
    LET less == RefDelta(pids, -1)
    IN  /\ proc' = less
        /\ map' = map \ {p \in pids \cap map : less[p].refcnt = 0 /\ less[p].tombstoned}

\* What the constructor passes to RetainProcess: its parameter, which it has
\* already moved into pids_.
MovedFrom(pids) == {}

\* The second half of handleContextMessage.  Of the pids of the event the token
\* is given here those that the tree knows: it never learns of another later.
NewToken ==
    /\ handling # NoEvent
    /\ LET pids == Touches(handling) \cap map
       IN  /\ token' = token @@ (handling :> pids)
           /\ RetainProcess(MovedFrom(pids))
    /\ handling' = NoEvent
    /\ UNCHANGED <<kernel, boot, pending, removeAt, seen>>

\* The message of an event was processed: its token is destroyed.
DropToken(ts) ==
    /\ token' = [t \in DOMAIN token \ {ts} |-> token[t]]
    /\ ReleaseProcess(token[ts])
    /\ UNCHANGED <<kernel, boot, client, removeAt, seen>>

(***************************************************************************)
(* Backfill                                                                *)
(***************************************************************************)
\* The loaded incarnation with a given pid, and whether the recursion from the
\* roots reaches it: every ancestor was loaded too.
AtPid(L, pid) == CHOOSE p \in L : kproc[p].pid = pid
Pids(L) == {kproc[p].pid : p \in L}
Reached(L) ==
    LET reached[pid \in 0..MaxProcs] ==
            \/ pid = 0
            \/ pid \in Pids(L) /\ reached[kproc[AtPid(L, pid)].ppid]
    IN  {p \in L : reached[kproc[p].pid]}

\* What BackfillInsertChildren's annotators read and give, by pid.  They read
\* the annotation of the parent's NEW object, which the map holds only when the
\* parent was not in the tree before.
BackfillGiven(L) ==
    LET given[pid \in 0..MaxProcs] ==
            IF pid = 0 \/ pid \notin Pids(L) THEN "none"
            ELSE LET p == AtPid(L, pid)
                     q == kproc[p].ppid
                     parent == AtPid(L, q)
                     parentAnn == IF parent \in map THEN "none" ELSE given[q]
                 IN  IF q = 0 THEN "none"
                     ELSE IF AnnotateFork(parentAnn) # "none" THEN AnnotateFork(parentAnn)
                     ELSE IF kproc[p].prog # kproc[parent].prog
                          THEN AnnotateExec(parentAnn, kproc[p].prog) ELSE "none"
    IN  given

BackfillInsertChildren(L) ==
    LET given == BackfillGiven(L)
        linked(p) == IF kproc[p].ppid = 0 THEN NoPid ELSE AtPid(L, kproc[p].ppid)
    IN  /\ proc' = [p \in DOMAIN proc \cup L |->
               IF p \in map
               THEN IF p \in L THEN [proc[p] EXCEPT !.ann =
                                         AnnotateProcess(@, given[kproc[p].pid])]
                    ELSE proc[p]
               ELSE [NewProcess(kproc[p].prog, linked(p)) EXCEPT !.ann = given[kproc[p].pid]]]
        /\ map' = map \cup L

\* Backfill: the processes that could be loaded, from the roots down.
Backfill ==
    /\ \E loaded \in SUBSET alive : BackfillInsertChildren(Reached(loaded))
    /\ UNCHANGED <<removeAt, seen>>

\* CreateTree, with the originator annotator, fills the new tree.
CreateTree ==
    /\ boot = "none"
    /\ Backfill
    /\ boot' = "created"
    /\ UNCHANGED <<kernel, client, token>>

\* main fills it again just before it enables the ES clients.
FillAgain ==
    /\ boot = "created"
    /\ Backfill
    /\ boot' = "filled"
    /\ UNCHANGED <<kernel, client, token>>

Subscribe ==
    /\ boot = "filled"
    /\ boot' = "subscribed"
    /\ UNCHANGED <<kernel, client, tree, token>>

(***************************************************************************)
(* The kernel (external)                                                   *)
(***************************************************************************)
NextPid == 1 + Cardinality({kproc[p].pid : p \in DOMAIN kproc})

Emit(type, p, n) ==
    /\ \/ /\ boot = "subscribed"
          /\ Len(log) < MaxEvents
          /\ log' = Append(log, [type |-> type, p |-> p, n |-> n])
          /\ pending' = pending \cup {Len(log')}
       \/ /\ boot # "subscribed"
          /\ UNCHANGED <<log, pending>>
    /\ UNCHANGED <<boot, handling, tree, token>>

Fork(p) ==
    LET n == Len(kproc) + 1
    IN  /\ n <= MaxProcs
        /\ kproc' = Append(kproc, [pid |-> NextPid, ppid |-> kproc[p].pid,
                                   prog |-> kproc[p].prog])
        /\ alive' = alive \cup {n}
        /\ Emit("fork", p, n)

Exec(p, prog) ==
    LET n == Len(kproc) + 1
    IN  /\ n <= MaxProcs
        /\ kproc' = Append(kproc, [kproc[p] EXCEPT !.prog = prog])
        /\ alive' = (alive \ {p}) \cup {n}
        /\ Emit("exec", p, n)

\* The children of a process that exits become children of the root.
Exit(p) ==
    /\ p # Root
    /\ kproc' = [q \in DOMAIN kproc |->
                    IF q \in alive /\ kproc[q].ppid = kproc[p].pid
                    THEN [kproc[q] EXCEPT !.ppid = kproc[Root].pid] ELSE kproc[q]]
    /\ alive' = alive \ {p}
    /\ Emit("exit", p, NoPid)

Kernel == \E p \in alive :
    \/ Fork(p)
    \/ p # Root /\ \E prog \in Program : Exec(p, prog)
    \/ Exit(p)

TreeInit ==
    /\ kproc = <<[pid |-> 1, ppid |-> 0, prog |-> "other"]>>
    /\ alive = {Root}
    /\ log = <<>>
    /\ boot = "none"
    /\ pending = {}
    /\ proc = [p \in {} |-> NewProcess("other", NoPid)]
    /\ map = {}
    /\ removeAt = <<>>
    /\ seen = [i \in 1..W |-> 0]
    /\ handling = NoEvent
    /\ token = [t \in {} |-> {}]

TreeNext ==
    \/ CreateTree
    \/ FillAgain
    \/ Subscribe
    \/ InformTree
    \/ NewToken
    \/ \E ts \in DOMAIN token : DropToken(ts)
    \/ Kernel

TreeSpec == TreeInit /\ [][TreeNext]_treeVars

(***************************************************************************)
(* Properties                                                              *)
(***************************************************************************)
\* The variables have their types, and the window is sorted: Step looks only at
\* its first and last entries to decide whether a timestamp can be in it.
TreeTypeOK ==
    /\ DOMAIN proc \subseteq Pid /\ \A p \in DOMAIN proc : proc[p] \in Process
    /\ map \subseteq DOMAIN proc
    /\ Range(removeAt) \subseteq [ts : 1..MaxEvents, pid : Pid]
    /\ seen \in [1..W -> 0..MaxEvents]
    /\ \A i \in 2..W : seen[i - 1] <= seen[i]
    /\ handling \in 0..MaxEvents
    /\ \A ts \in DOMAIN token : ts \in 1..MaxEvents /\ token[ts] \subseteq Pid

Delivered == (1..Len(log)) \ pending
Removal(ts, p) == log[ts].p = p /\ log[ts].type \in {"exec", "exit"}

\* An event that comes late is applied unless W newer ones came before: events
\* that arrive out of order (process_tree.h: "even if events come out of order")
\* neither hide a new process nor leave a dead one in the tree for ever.
OutOfWindow(ts) == Cardinality({d \in Delivered : d > ts}) >= W
LateEventsApplied == \A ts \in Delivered :
    LET e == log[ts]
    IN  e.p \in DOMAIN proc /\ ~OutOfWindow(ts) =>
            /\ e.type \in {"fork", "exec"} => e.n \in DOMAIN proc
            /\ e.type \in {"exec", "exit"} =>
                  \/ e.p \notin map
                  \/ proc[e.p].tombstoned
                  \/ \E r \in Range(removeAt) : r.pid = e.p

\* A process leaves the tree only after its exec or exit was delivered and fell
\* out of the window, so that no client that lags behind misses it.
EvictedAreOld == \A p \in DOMAIN proc \ map :
    \E ts \in Delivered : Removal(ts, p) /\ ts < Head(seen)

\* The processes a token was created for stay in the tree as long as the token
\* does (process_tree.h: "so any call to ProcessTree::Get() during event
\* processing succeeds").
TokensRetain == \A ts \in DOMAIN token : token[ts] \subseteq map

\* Clients may lag behind by a window of W events and no more: a late event still
\* takes effect, and what it is about has not been dropped from the tree yet.
WindowKept == LateEventsApplied /\ EvictedAreOld

\* Along the events it saw, the tree hands the originator of a process down to
\* every process it forks and every image it executes.
OriginatorInherited == \A ts \in Delivered :
    LET e == log[ts]
    IN  e.n \in DOMAIN proc /\ e.p \in DOMAIN proc /\ proc[e.p].ann # "none"
            => proc[e.n].ann = proc[e.p].ann
================================================================================
