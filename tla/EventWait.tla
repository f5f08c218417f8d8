------------------------------- MODULE EventWait -------------------------------
(***************************************************************************)
(* How a client of the REST server learns of a change: GET /ctrl/eventwait *)
(* (handle_get and wait_for_event, handler.cpp), update_seq, and the pool  *)
(* of threads that main.cpp gives the server.                              *)
(*                                                                         *)
(* A request is handled on a thread of the pool.  The handler of an        *)
(* eventwait hands the waiting to a task and blocks on it; the task takes  *)
(* a thread of the same pool and sleeps on the condition variable until    *)
(* the sequence number is no longer the one the client knows, or until its *)
(* timeout.  The handler of a change increments the number under the mutex *)
(* cvm and notifies all sleepers after releasing it.                       *)
(*                                                                         *)
(* External, from how the code uses it: the pool (cpprestsdk) starts its   *)
(* jobs in the order they came, and .get() of a task keeps its thread.     *)
(***************************************************************************)
EXTENDS RestServer

CONSTANTS PoolSize,     \* threads of the pool (main.cpp: 5)
          MaxSeq        \* bound on the changes made

ASSUME PoolAssumption == PoolSize \in Nat \ {0} /\ MaxSeq \in Nat

VARIABLES
    pool,       \* jobs waiting for a thread, first come first
    handler,    \* of a client's request: where its handler is
    task,       \* of a client's eventwait: where its waiting task is
    oldseq,     \* seq parameter of its eventwait: what its last reply said
    notified    \* sleeping tasks that a notify_all has woken

waitVars == <<seq, pool, handler, task, oldseq, notified>>

Handle(c) == [what |-> "handle", client |-> c]
Wait(c)   == [what |-> "wait", client |-> c]

Sleeping == {c \in Clients : task[c] = "sleeping"}

(* Threads of the pool in use: a blocked handler keeps its own.             *)
Busy == Cardinality({c \in Clients : handler[c] \in {"waiting", "blocked", "changing", "notifying"}})
      + Cardinality({c \in Clients : task[c] \in {"checking", "sleeping"}})

InitWait ==
    /\ seq = 0
    /\ pool = <<>>
    /\ handler = [c \in Clients |-> "none"]
    /\ task = [c \in Clients |-> "none"]
    /\ oldseq = [c \in Clients |-> 0]
    /\ notified = {}

-------------------------------------------------------------------------------
(* Clients and the pool.                                                   *)

(* A client asks for a change from the number of its last reply on, or      *)
(* makes one (any PUT or POST that calls update_seq).                       *)
Request(c, what) ==
    /\ handler[c] = "none"
    /\ handler' = [handler EXCEPT ![c] = what]
    /\ pool' = Append(pool, Handle(c))
    /\ UNCHANGED <<seq, task, oldseq, notified>>

AskWait(c) == Request(c, "askwait")
Changes    == Cardinality({c \in Clients : handler[c] \in {"askchange", "changing"}})
AskChange(c) == seq + Changes < MaxSeq /\ Request(c, "askchange")

(* A free thread takes the job at the head.                                 *)
Dispatch ==
    /\ pool # <<>> /\ Busy < PoolSize
    /\ pool' = Tail(pool)
    /\ LET c == Head(pool).client
       IN  IF Head(pool).what = "wait"
           THEN task' = [task EXCEPT ![c] = "checking"] /\ UNCHANGED handler
           ELSE /\ handler' = [handler EXCEPT ![c] =
                                   IF @ = "askwait" THEN "waiting" ELSE "changing"]
                /\ UNCHANGED task
    /\ UNCHANGED <<seq, oldseq, notified>>

-------------------------------------------------------------------------------
(* wait_for_event.                                                         *)

(* The handler creates the task and blocks in get().                        *)
CreateTask(c) ==
    /\ handler[c] = "waiting"
    /\ handler' = [handler EXCEPT ![c] = "blocked"]
    /\ task' = [task EXCEPT ![c] = "queued"]
    /\ pool' = Append(pool, Wait(c))
    /\ UNCHANGED <<seq, oldseq, notified>>

(* The condition of wait_for.                                               *)
Changed(c) == oldseq[c] # seq

(* Under cvm: the condition is looked at and, when it does not hold, the    *)
(* task sleeps and releases cvm in one step.                                *)
(* Mutant: the task sleeps first and looks when it is woken.                *)
FirstLook_Blind(c) == FALSE
FirstLook(c) == Changed(c)
Check(c) ==
    /\ task[c] = "checking"
    /\ task' = [task EXCEPT ![c] = IF FirstLook(c) THEN "changed" ELSE "sleeping"]
    /\ UNCHANGED <<seq, pool, handler, oldseq, notified>>

(* A woken sleeper takes cvm again and looks; so does one whose time is up. *)
(* Mutant: it starts over when its time is up.                              *)
TimeIsUp_Loop(c) == IF Changed(c) THEN "changed" ELSE "sleeping"
TimeIsUp(c) == IF Changed(c) THEN "changed" ELSE "timedout"
Wake(c) ==
    /\ c \in notified
    /\ task[c] = "sleeping"
    /\ notified' = notified \ {c}
    /\ task' = [task EXCEPT ![c] = IF Changed(c) THEN "changed" ELSE "sleeping"]
    /\ UNCHANGED <<seq, pool, handler, oldseq>>

TimeOut(c) ==
    /\ task[c] = "sleeping"
    /\ notified' = notified \ {c}
    /\ task' = [task EXCEPT ![c] = TimeIsUp(c)]
    /\ UNCHANGED <<seq, pool, handler, oldseq>>

(* get() returns; the reply carries the sequence number of this moment.     *)
ReplyToWait(c) ==
    /\ handler[c] = "blocked"
    /\ task[c] \in {"changed", "timedout"}
    /\ handler' = [handler EXCEPT ![c] = "none"]
    /\ task' = [task EXCEPT ![c] = "none"]
    /\ oldseq' = [oldseq EXCEPT ![c] = seq]
    /\ UNCHANGED <<seq, pool, notified>>

-------------------------------------------------------------------------------
(* update_seq: incremented under cvm, notified after.                      *)

Increment(c) ==
    /\ handler[c] = "changing"
    /\ handler' = [handler EXCEPT ![c] = "notifying"]
    /\ seq' = seq + 1
    /\ UNCHANGED <<pool, task, oldseq, notified>>

(* Mutants: notify_one; a notification that is kept for who sleeps next.    *)
WhoWakes_All == Clients
WhoWakes_One == IF Sleeping = {} THEN {} ELSE {CHOOSE c \in Sleeping : TRUE}
WhoWakes == Sleeping
NotifyAll(c) ==
    /\ handler[c] = "notifying"
    /\ handler' = [handler EXCEPT ![c] = "none"]
    /\ notified' = notified \cup WhoWakes
    /\ UNCHANGED <<seq, pool, task, oldseq>>

NextWait == \/ Dispatch
        \/ \E c \in Clients :
              \/ AskWait(c) \/ AskChange(c)
              \/ CreateTask(c) \/ Check(c) \/ Wake(c) \/ TimeOut(c) \/ ReplyToWait(c)
              \/ Increment(c) \/ NotifyAll(c)

(* The scheduler runs every thread and wakes every notified sleeper; the    *)
(* clients owe nothing.  A sleep ends at its timeout, which a client may    *)
(* make as long as it likes: what needs it says so.                         *)
Server(c)  == CreateTask(c) \/ Check(c) \/ Wake(c) \/ ReplyToWait(c) \/ Increment(c) \/ NotifyAll(c)
TimesOut   == \A c \in Clients : WF_waitVars(TimeOut(c))
WaitSpec       == InitWait /\ [][NextWait]_waitVars
FairWaitSpec   == WaitSpec /\ WF_waitVars(Dispatch) /\ \A c \in Clients : WF_waitVars(Server(c))
TimedWaitSpec  == FairWaitSpec /\ TimesOut

-------------------------------------------------------------------------------

WaitTypeOK ==
    /\ seq \in 0 .. MaxSeq
    /\ pool \in Seq({Handle(c) : c \in Clients} \cup {Wait(c) : c \in Clients})
    /\ handler \in [Clients -> {"none", "askwait", "askchange", "waiting", "blocked",
                              "changing", "notifying"}]
    /\ task \in [Clients -> {"none", "queued", "checking", "sleeping", "changed", "timedout"}]
    /\ oldseq \in [Clients -> 0 .. MaxSeq]
    /\ notified \subseteq Sleeping

(* No wakeup is lost: a wait that sleeps on a number that is no longer      *)
(* current has been notified, or the change that made it so has not         *)
(* notified yet.  The notify_all after cvm is released and the look before  *)
(* the sleep must both be right for this.                                   *)
NoLostWakeup ==
    \A c \in Sleeping : oldseq[c] # seq =>
        c \in notified \/ \E d \in Clients : handler[d] = "notifying"

(* A sleeping eventwait whose number is no longer current is answered       *)
(* because of that: no timeout is needed for it, whatever the other         *)
(* requests do and however many threads there are.                          *)
ChangeIsHeard ==
    \A c \in Clients :
        task[c] = "sleeping" /\ oldseq[c] # seq ~> handler[c] = "none"

(* Every request is answered: an eventwait within its timeout, a change     *)
(* after the eventwaits in its way.                                         *)
Answered == \A c \in Clients : handler[c] # "none" ~> handler[c] = "none"
AllAnswered == TimesOut => Answered
===============================================================================
