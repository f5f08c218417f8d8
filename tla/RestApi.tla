-------------------------------- MODULE RestApi --------------------------------
(***************************************************************************)
(* The REST server around the engine (handle_get, handle_put, handle_post, *)
(* handler.cpp): handlers of several clients run on several threads, call  *)
(* the engine libEA, which knows nothing of threads, and tell the clients  *)
(* by a sequence number that something has changed.                        *)
(*                                                                         *)
(* instance_api_lock is taken by the TRYAPI macros around a call, by every *)
(* GET while it moves new alerts from the engine to the buffer, and by     *)
(* /alerts; not by the getters of a GET and not by either single step.     *)
(* instance_sampletimestep_lock keeps one /ctrl/sampletimestep from        *)
(* another.                                                                *)
(*                                                                         *)
(* Of the engine there is the clock and the inputs, as the client whose    *)
(* request set them last; the alerts it has posted, numbered; and the      *)
(* number of calls that may have changed what a client sees.  A request    *)
(* with missing parameters is refused without a call.                      *)
(***************************************************************************)
EXTENDS RestServer

CONSTANTS Subjects,     \* subjects with input points
          Nobody,       \* holds a lock that is free; set what no request set
          Sent,         \* kinds of request they send, some of Kinds
          BufferSize,   \* MAX_ALERT_BUFFER_SIZE
          MaxPosts,     \* bound on the alerts of one step of the engine
          MaxRequests   \* bound on the requests sent

Puts  == {"time", "sample", "set", "sampletimestep"}
Kinds == Puts \cup {"get", "alerts", "singlestep"}

ASSUME NobodyAssumption == Nobody \notin Clients
ASSUME SentAssumption == Sent \subseteq Kinds
ASSUME SubjectsAssumption == IsFiniteSet(Subjects)
ASSUME SizesAssumption   == BufferSize \in Nat /\ MaxPosts \in Nat /\ MaxRequests \in Nat

VARIABLES
    at, kind,           \* where a client's handler is; what its request is
    apiLock, stepLock,  \* who holds the two locks
    time, inputs,       \* who set the clock, and the inputs of a subject
    todo, given, ok,    \* sampletimestep: subjects to come; set; retval is OK
    disturbed,          \* history: another call set time or inputs meanwhile
    version,            \* history: calls finished that may change the data
    fifo, posted,       \* unsaidAlertsFifo; history: alerts posted
    raced,              \* steps during which another thread used the fifo
    moving,             \* alerts a GET has taken and not yet stored
    alerts, alertseq,   \* the buffer, by id; the next id
    asked, data,        \* history: seq when a GET came; version it read
    shown,              \* last data a client got, with the seq of the reply
    sent                \* requests sent, up to the bound

engine  == <<time, inputs, version>>
timestep == <<todo, given, ok, disturbed, stepLock>>
alarm   == <<fifo, posted, raced, moving, alerts, alertseq>>
client  == <<kind, asked, shown, sent>>
vars    == <<at, apiLock, seq, data, engine, timestep, alarm, client>>

First(k) == CASE k \in {"get", "alerts"} -> "drain"
              [] k \in {"time", "sample", "set"} -> "call"
              [] k = "sampletimestep" -> "lock"
              [] k = "singlestep" -> "step"

Go(c, where) == at' = [at EXCEPT ![c] = where]
Stepping     == {c \in Clients : at[c] = "stepping"}

(* The lock of a sampletimestep is released as its block is left.           *)
Unlock(c) == /\ stepLock' = IF stepLock = c THEN Nobody ELSE stepLock
             /\ disturbed' = (disturbed /\ stepLock # c)

(* The variables of a handler end with it.                                  *)
Forget(c) ==
    /\ Go(c, "idle")
    /\ kind' = [kind EXCEPT ![c] = "get"]
    /\ asked' = [asked EXCEPT ![c] = 0] /\ data' = [data EXCEPT ![c] = 0]
    /\ todo' = [todo EXCEPT ![c] = {}] /\ given' = [given EXCEPT ![c] = {}]
    /\ ok' = [ok EXCEPT ![c] = TRUE]

Init ==
    /\ at = [c \in Clients |-> "idle"] /\ kind = [c \in Clients |-> "get"]
    /\ apiLock = Nobody /\ stepLock = Nobody
    /\ seq = 0 /\ version = 0
    /\ time = Nobody /\ inputs = [s \in Subjects |-> Nobody]
    /\ todo = [c \in Clients |-> {}] /\ given = [c \in Clients |-> {}]
    /\ ok = [c \in Clients |-> TRUE] /\ disturbed = FALSE
    /\ fifo = <<>> /\ posted = 0 /\ raced = {}
    /\ moving = [c \in Clients |-> <<>>]
    /\ alerts = <<>> /\ alertseq = 0
    /\ asked = [c \in Clients |-> 0] /\ data = [c \in Clients |-> 0]
    /\ shown = [c \in Clients |-> [seq |-> 0, data |-> 0]]
    /\ sent = 0

-------------------------------------------------------------------------------
(* A request comes in; the reply of every handler ends with the number.    *)

Send(c, k) ==
    /\ at[c] = "idle" /\ sent < MaxRequests
    /\ sent' = sent + 1
    /\ kind' = [kind EXCEPT ![c] = k]
    /\ asked' = [asked EXCEPT ![c] = IF k = "get" THEN seq ELSE 0]
    /\ Go(c, First(k))
    /\ UNCHANGED <<apiLock, seq, data, shown, engine, timestep, alarm>>

Refuse(c) ==
    /\ kind[c] \in Puts /\ at[c] = First(kind[c])
    /\ kind[c] = "sampletimestep" => stepLock = Nobody
    /\ Go(c, "reply")
    /\ UNCHANGED <<apiLock, seq, data, engine, timestep, alarm, client>>

Reply(c) ==
    /\ at[c] = "reply"
    /\ Forget(c)
    /\ shown' = [shown EXCEPT ![c] = IF kind[c] = "get" THEN [seq |-> seq, data |-> data[c]]
                                                        ELSE @]
    /\ UNCHANGED <<apiLock, seq, sent, engine, disturbed, stepLock, alarm>>

-------------------------------------------------------------------------------
(* GET: first the alerts are moved, under the lock.                        *)

(* SayNewAlertsFifoFromDomainThenClear.  A step is not kept off the fifo    *)
(* that is swapped here.                                                    *)
(* Mutant: the alerts are moved without the lock.                           *)
Free_Always == TRUE
Free == apiLock = Nobody
TakeAlerts(c) ==
    /\ at[c] = "drain"
    /\ Free
    /\ apiLock' = c
    /\ Go(c, "storing")
    /\ moving' = [moving EXCEPT ![c] = fifo]
    /\ fifo' = <<>>
    /\ raced' = raced \cup Stepping
    /\ UNCHANGED <<seq, data, posted, alerts, alertseq, engine, timestep, client>>

(* rm of the oldest are erased before the new ones are inserted.            *)
(* Mutant: one more than needed is erased.                                  *)
Excess_OneMore(new) == LET rm == new + Cardinality(DOMAIN alerts) - BufferSize + 1
                       IN  IF rm < 0 THEN 0 ELSE rm
Excess(new) == LET rm == new + Cardinality(DOMAIN alerts) - BufferSize
               IN  IF rm < 0 THEN 0 ELSE rm
StoreAlerts(c) ==
    LET new    == moving[c]
        oldest == alertseq - Cardinality(DOMAIN alerts)
        kept   == {i \in DOMAIN alerts : i >= oldest + Excess(Len(new))}
        added  == alertseq .. alertseq + Len(new) - 1
    IN  /\ at[c] = "storing"
        /\ alerts' = [i \in kept \cup added |->
                         IF i \in added THEN new[i - alertseq + 1] ELSE alerts[i]]
        /\ alertseq' = alertseq + Len(new)
        /\ moving' = [moving EXCEPT ![c] = <<>>]
        /\ apiLock' = Nobody
        /\ Go(c, "read")
        /\ UNCHANGED <<seq, data, fifo, posted, raced, engine, timestep, client>>

(* The getters read without the lock: at least what the calls finished by   *)
(* now have left; /alerts takes the lock once more.                         *)
Read(c) ==
    /\ at[c] = "read"
    /\ kind[c] = "alerts" => apiLock = Nobody
    /\ data' = [data EXCEPT ![c] = version]
    /\ Go(c, "reply")
    /\ UNCHANGED <<apiLock, seq, engine, timestep, alarm, client>>

-------------------------------------------------------------------------------
(* PUT: single calls.                                                      *)

(* ReadInDataForSubject.                                                    *)
(* Mutant: operator[] for at(), an unknown subject gets an entry.           *)
WithInputs_Any(s, c) == [x \in Subjects \cup {Nobody} |-> IF x = s THEN c ELSE Nobody]
WithInputs(s, c) == [inputs EXCEPT ![s] = c]

Disturb == disturbed' = (disturbed \/ stepLock # Nobody)

(* /ctrl/time: no update_seq.                                               *)
SetTime(c) ==
    /\ at[c] = "call" /\ kind[c] = "time" /\ apiLock = Nobody
    /\ time' = c
    /\ Disturb
    /\ Go(c, "reply")
    /\ UNCHANGED <<apiLock, seq, data, inputs, version, todo, given, ok, stepLock, alarm, client>>

(* /ctrl/sample: an array of the wrong length is refused by the engine and  *)
(* counted all the same, an unknown subject throws.                         *)
SetSample(c, s) ==
    /\ at[c] = "call" /\ kind[c] = "sample" /\ apiLock = Nobody
    /\ \/ inputs' = WithInputs(s, c) /\ Disturb
       \/ UNCHANGED <<inputs, disturbed>>
    /\ apiLock' = c
    /\ version' = version + 1
    /\ Go(c, "bump")
    /\ UNCHANGED <<seq, data, time, todo, given, ok, stepLock, alarm, client>>

(* /ctrl/answercase, /set/knob, /set/histogram/mode and span: counted       *)
(* whether the engine accepts or not.                                       *)
Set(c) ==
    /\ at[c] = "call" /\ kind[c] = "set" /\ apiLock = Nobody
    /\ apiLock' = c
    /\ version' = version + 1
    /\ Go(c, "bump")
    /\ UNCHANGED <<seq, data, time, inputs, timestep, alarm, client>>

CallThrows(c) ==
    /\ at[c] = "call" /\ apiLock = Nobody
    /\ Go(c, "reply")
    /\ UNCHANGED <<apiLock, seq, data, engine, timestep, alarm, client>>

(* update_seq, and the locks held are released.                             *)
UpdateSeq(c) ==
    /\ at[c] = "bump"
    /\ seq' = seq + 1
    /\ apiLock' = IF apiLock = c THEN Nobody ELSE apiLock
    /\ Unlock(c)
    /\ Go(c, "reply")
    /\ UNCHANGED <<data, engine, todo, given, ok, alarm, client>>

-------------------------------------------------------------------------------
(* /ctrl/sampletimestep: time, inputs of some subjects, one step.          *)

(* Mutant: the lock is not looked at.                                       *)
StepFree_Always == TRUE
StepFree == stepLock = Nobody
Lock(c, named) ==
    /\ at[c] = "lock" /\ StepFree
    /\ stepLock' = c
    /\ todo' = [todo EXCEPT ![c] = named]
    /\ given' = [given EXCEPT ![c] = {}]
    /\ ok' = [ok EXCEPT ![c] = TRUE]
    /\ disturbed' = FALSE
    /\ Go(c, "stamp")
    /\ UNCHANGED <<apiLock, seq, data, engine, alarm, client>>

Stamp(c) ==
    /\ at[c] = "stamp" /\ apiLock = Nobody
    /\ time' = c
    /\ Go(c, "next")
    /\ UNCHANGED <<apiLock, seq, data, inputs, version, timestep, alarm, client>>

TakeEntry(c, s) == at[c] = "next" /\ s \in todo[c] /\ todo' = [todo EXCEPT ![c] = @ \ {s}]

GiveInputs(c, s) ==
    /\ TakeEntry(c, s) /\ apiLock = Nobody
    /\ inputs' = WithInputs(s, c)
    /\ given' = [given EXCEPT ![c] = @ \cup {s}]
    /\ UNCHANGED <<at, apiLock, seq, data, time, version, ok, disturbed, stepLock, alarm, client>>

(* An entry that names no subject, or has no values, is passed over; one of *)
(* the wrong length turns the reply to BadRequest and the loop goes on.     *)
PassOver(c, s) ==
    /\ TakeEntry(c, s)
    /\ UNCHANGED <<at, apiLock, seq, data, engine, given, ok, disturbed, stepLock, alarm, client>>

WrongLength(c, s) ==
    /\ TakeEntry(c, s)
    /\ ok' = [ok EXCEPT ![c] = FALSE]
    /\ UNCHANGED <<at, apiLock, seq, data, engine, given, disturbed, stepLock, alarm, client>>

(* A value that is no number, or values_by_subject no array: goto done.  An *)
(* unknown subject throws out of the handler: no number in the reply.       *)
(* Mutant: the lock is kept.                                                *)
Leave_Locked(c) == UNCHANGED <<stepLock, disturbed>>
Leave(c) == Unlock(c)
Abandon(c) ==
    /\ at[c] = "next"
    /\ Leave(c)
    /\ \/ Go(c, "reply") /\ UNCHANGED <<data, todo, given, ok, client>>
       \/ Forget(c) /\ UNCHANGED <<shown, sent>>
    /\ UNCHANGED <<apiLock, seq, engine, alarm>>

EndOfValues(c) ==
    /\ at[c] = "next" /\ todo[c] = {}
    /\ IF ok[c] THEN Go(c, "step") /\ UNCHANGED <<stepLock, disturbed>>
                ELSE Go(c, "reply") /\ Unlock(c)
    /\ UNCHANGED <<apiLock, seq, data, engine, todo, given, ok, alarm, client>>

-------------------------------------------------------------------------------
(* SingleStepDomainOnTimeAndInputs, of POST /ctrl/singlestep and of a       *)
(* sampletimestep, without the api lock.                                   *)

(* Mutant: the change is announced before the step.                         *)
Announced_Early == seq + 1
Announced == seq
BeginStep(c) ==
    /\ at[c] = "step"
    /\ seq' = Announced
    /\ Go(c, "stepping")
    /\ raced' = IF Stepping = {} THEN raced ELSE raced \cup Stepping \cup {c}
    /\ UNCHANGED <<apiLock, data, fifo, posted, moving, alerts, alertseq,
                   engine, timestep, client>>

(* The alerts a step can leave in the fifo: all, or in order those not lost *)
(* since another thread uses the fifo as they are posted.                   *)
Left(c, new) ==
    LET fresh == posted + 1 .. posted + new
    IN  {s \in UNION {[1 .. n -> fresh] : n \in 0 .. new} :
            /\ \A i, j \in DOMAIN s : i < j => s[i] < s[j]
            /\ c \notin raced => Len(s) = new}

EndStep(c, new) ==
    /\ at[c] = "stepping"
    /\ posted' = posted + new
    /\ \E left \in Left(c, new) : fifo' = fifo \o left
    /\ raced' = raced \ {c}
    /\ version' = version + 1
    /\ Go(c, "bump")
    /\ UNCHANGED <<apiLock, seq, data, time, inputs, moving, alerts, alertseq,
                   timestep, client>>

Handler(c) ==
    \/ Refuse(c) \/ Reply(c)
    \/ TakeAlerts(c) \/ StoreAlerts(c) \/ Read(c)
    \/ SetTime(c) \/ Set(c) \/ CallThrows(c) \/ UpdateSeq(c)
    \/ \E s \in Subjects : \/ SetSample(c, s) \/ GiveInputs(c, s)
                           \/ PassOver(c, s) \/ WrongLength(c, s)
    \/ \E named \in SUBSET Subjects : Lock(c, named)
    \/ Stamp(c) \/ Abandon(c) \/ EndOfValues(c)
    \/ BeginStep(c)
    \/ \E new \in 0 .. MaxPosts : EndStep(c, new)

Next == \E c \in Clients : Handler(c) \/ \E k \in Sent : Send(c, k)

(* Every thread of the pool runs; the clients owe nothing.                  *)
Spec     == Init /\ [][Next]_vars
FairSpec == Spec /\ \A c \in Clients : WF_vars(Handler(c))

-------------------------------------------------------------------------------

States == {"idle", "drain", "storing", "read", "call", "lock", "stamp", "next", "step",
           "stepping", "bump", "reply"}

TypeOK ==
    /\ at \in [Clients -> States] /\ kind \in [Clients -> Kinds]
    /\ apiLock \in Clients \cup {Nobody} /\ stepLock \in Clients \cup {Nobody}
    /\ seq \in Nat /\ version \in Nat /\ sent \in 0 .. MaxRequests
    /\ time \in Clients \cup {Nobody} /\ inputs \in [Subjects -> Clients \cup {Nobody}]
    /\ todo \in [Clients -> SUBSET Subjects] /\ given \in [Clients -> SUBSET Subjects]
    /\ ok \in [Clients -> BOOLEAN] /\ disturbed \in BOOLEAN
    /\ fifo \in Seq(Nat) /\ posted \in Nat /\ raced \subseteq Stepping
    /\ moving \in [Clients -> Seq(Nat)]
    /\ alertseq \in Nat /\ DOMAIN alerts \subseteq Nat
    /\ asked \in [Clients -> Nat] /\ data \in [Clients -> Nat]
    /\ shown \in [Clients -> [seq : Nat, data : Nat]]

(* The buffer a client gets from /alerts: its ids are consecutive up to     *)
(* alertseq, no alert is in it twice, and a later id is of a later alert,   *)
(* whatever GETs and steps overlap; what it does not hold yet comes after.  *)
AlertsInOrder ==
    LET n      == Cardinality(DOMAIN alerts)
        behind == {fifo[i] : i \in DOMAIN fifo} \cup
                  UNION {{moving[c][i] : i \in DOMAIN moving[c]} : c \in Clients}
    IN  /\ DOMAIN alerts = alertseq - n .. alertseq - 1
        /\ \A i, j \in DOMAIN alerts : i < j => alerts[i] < alerts[j]
        /\ \A i \in DOMAIN alerts : \A a \in behind : alerts[i] < a

(* An alert leaves the buffer only for newer ones that fill it.             *)
NoneDroppedEarly ==
    Cardinality(DOMAIN alerts) >= (IF alertseq < BufferSize THEN alertseq ELSE BufferSize)

(* Data a client asks for have every change that was announced by then:     *)
(* whatever number it has learned, and from whom, no update_seq comes       *)
(* before the change it announces can be read.                              *)
FreshEnough ==
    \A c \in Clients :
        at[c] = "reply" /\ kind[c] = "get" => data[c] >= asked[c]

(* The step of a sampletimestep computes from the time and the inputs of    *)
(* its own request and from no others' as long as nobody uses the single    *)
(* calls meanwhile; of another sampletimestep, whole or abandoned, it is    *)
(* safe.                                                                    *)
StepUsesOwn ==
    \A c \in Clients :
        at[c] \in {"step", "stepping"} /\ kind[c] = "sampletimestep" /\ ~disturbed =>
            time = c /\ \A s \in given[c] : inputs[s] = c

(* No handler waits forever for a lock: each request is answered, whatever  *)
(* errors the requests before it ended with.                                *)
EveryRequestAnswered ==
    \A c \in Clients : at[c] # "idle" ~> at[c] = "idle"

(* REST-API-v3.md:53 to 57: the number "is incremented any time one of the  *)
(* PUT or POST endpoints are called that can cause a change", so a client   *)
(* can "see if anything has changed": with nothing under way, one that got  *)
(* its data with the current number has the current data.                   *)
CurrentNumberMeansCurrentData ==
    (\A c \in Clients : at[c] = "idle") =>
        \A c \in Clients : shown[c].seq = seq => shown[c].data = version
===============================================================================
