----------------------------- MODULE RestApiProofs -----------------------------
(***************************************************************************)
(* Theorems about RestApi, for any clients, subjects, mix of requests and  *)
(* bounds: a GET has what was announced when it came, the step of a        *)
(* sampletimestep has its own time and inputs, and the buffer has the      *)
(* latest alerts in order; each handler counts down to its reply and no    *)
(* handlers wait for each other for ever; and about EventWait, for any     *)
(* number of clients and threads.                                          *)
(*                                                                         *)
(* The first rests on Numbered: the calls finished are those announced and *)
(* those of handlers on their way to update_seq.  The second rests on      *)
(* LockHeld: exactly one handler is in the section its lock is for, the    *)
(* one that holds it.  KindsAt says which requests come where.             *)
(*                                                                         *)
(* That no wakeup is lost rests on where the handler of a change is        *)
(* between its increment and its notification.  A job of the pool must not *)
(* take it away from there: JobsMatch ties every job to the request that   *)
(* put it in, once; BlockedOnTask ties a task to the handler that waits    *)
(* for it; and CountedChanges keeps the number within its bound.           *)
(*                                                                         *)
(* Liveness is left to TLC, but what it rests on is here: a rank for each  *)
(* handler (StepsLeft), the holder of instance_api_lock waiting for nobody *)
(* (ApiHeld), and something to go on in the pool while a request is open,  *)
(* but for one kind of state (JobsKept, AllHeldUp).                        *)
(***************************************************************************)
EXTENDS RestApi, EventWait, FiniteSetTheorems, TLAPS

Types ==
    /\ at \in [Clients -> States] /\ kind \in [Clients -> Kinds]
    /\ stepLock \in Clients \cup {Nobody}
    /\ seq \in Nat /\ version \in Nat
    /\ time \in Clients \cup {Nobody} /\ inputs \in [Subjects -> Clients \cup {Nobody}]
    /\ given \in [Clients -> SUBSET Subjects] /\ disturbed \in BOOLEAN
    /\ asked \in [Clients -> Nat] /\ data \in [Clients -> Nat]

Announcing == {c \in Clients : at[c] = "bump"}
Numbered   == version = seq + Cardinality(Announcing)

KindsAt ==
    \A c \in Clients :
        /\ at[c] = "call" => kind[c] \in {"time", "sample", "set"}
        /\ at[c] \in {"lock", "stamp", "next"} => kind[c] = "sampletimestep"
        /\ at[c] \in {"step", "stepping"} => kind[c] \in {"sampletimestep",
                  "singlestep"}
        /\ at[c] = "bump" => kind[c] # "get"

InSection(c) == \/ at[c] \in {"stamp", "next"}
                \/ at[c] \in {"step", "stepping", "bump"} /\ kind[c] = "sampletimestep"
LockHeld     == \A c \in Clients : InSection(c) <=> stepLock = c

OwnInputs ==
    \A c \in Clients :
        /\ at[c] = "stamp" => given[c] = {}
        /\ at[c] \in {"next", "step",
                  "stepping"} /\ kind[c] = "sampletimestep" /\ ~disturbed
             => time = c /\ \A s \in given[c] : inputs[s] = c

AskedBefore == \A c \in Clients : asked[c] <= seq

Control == Types /\ KindsAt /\ LockHeld /\ OwnInputs

IInv == Control /\ Numbered /\ AskedBefore /\ FreshEnough

-------------------------------------------------------------------------------
(* The number and the calls.                                               *)

LEMMA AnnouncingFinite == IsFiniteSet(Announcing) /\ Cardinality(Announcing) \in Nat
BY ClientsAssumption, FS_Subset, FS_CardinalityType DEF Announcing

LEMMA NeverAhead == Types /\ Numbered => seq <= version
BY AnnouncingFinite DEF Types, Numbered

(* A handler finishes a call and goes on to announce it.                    *)
LEMMA CallFinished ==
    ASSUME Types, Numbered, NEW c \in Clients, at[c] # "bump",
           at' = [at EXCEPT ![c] = "bump"], version' = version + 1, seq' = seq
    PROVE  Numbered'
<1>1. Announcing' = Announcing \cup {c} /\ c \notin Announcing
  BY DEF Types, Announcing
<1>2. Cardinality(Announcing') = Cardinality(Announcing) + 1
  BY <1>1, AnnouncingFinite, FS_AddElement
<1> QED
  BY <1>2, AnnouncingFinite DEF Types, Numbered

(* It announces it.                                                         *)
LEMMA CallAnnounced ==
    ASSUME Types, Numbered, NEW c \in Clients, at[c] = "bump",
           at' = [at EXCEPT ![c] = "reply"], version' = version, seq' = seq + 1
    PROVE  Numbered'
<1>1. Announcing' = Announcing \ {c} /\ c \in Announcing
  BY DEF Types, Announcing
<1>2. Cardinality(Announcing') = Cardinality(Announcing) - 1
  BY <1>1, AnnouncingFinite, FS_RemoveElement
<1> QED
  BY <1>2, AnnouncingFinite DEF Types, Numbered

(* A handler goes on otherwise.                                             *)
LEMMA NothingFinished ==
    ASSUME Types, Numbered, NEW c \in Clients, NEW where \in States, at[c] # "bump",
           where # "bump", at' = [at EXCEPT ![c] = where], UNCHANGED <<version, seq>>
    PROVE  Numbered'
<1>1. Announcing' = Announcing
  BY DEF Types, Announcing
<1> QED
  BY <1>1 DEF Numbered

-------------------------------------------------------------------------------
(* Every step keeps the invariant.                                         *)

LEMMA InitIInv == Init => IInv
<1> SUFFICES ASSUME Init PROVE IInv
  OBVIOUS
<1>1. Control
  BY NobodyAssumption DEF Init, Control, Types, States, Kinds, Puts, KindsAt, LockHeld,
                           InSection, OwnInputs
<1>2. Announcing = {}
  BY DEF Init, Announcing
<1>3. Numbered
  BY <1>2, FS_EmptySet DEF Init, Numbered
<1>4. AskedBefore /\ FreshEnough
  BY DEF Init, AskedBefore, FreshEnough
<1> QED
  BY <1>1, <1>3, <1>4 DEF IInv

LEMMA RefuseIInv == ASSUME IInv, NEW c \in Clients, Refuse(c) PROVE IInv'
<1>1. /\ at' = [at EXCEPT ![c] = "reply"] /\ at[c] # "bump"
      /\ UNCHANGED <<version, seq>>
  BY DEF Refuse, First, Puts, Go, engine
<1>2. Types' /\ KindsAt'
  BY <1>1 DEF IInv, Control, Types, KindsAt, States, Refuse, First, Puts, Go, engine,
            timestep, client
<1>3. LockHeld'
  BY <1>1, NobodyAssumption DEF IInv, Control, Types, KindsAt, LockHeld, InSection,
            Refuse, First, Puts, Go, timestep, client
<1>4. OwnInputs'
  BY <1>1, NobodyAssumption DEF IInv, Control, Types, KindsAt, LockHeld, InSection,
          OwnInputs, Refuse, First, Puts, Go, engine, timestep, client
<1>5. Numbered'
  BY <1>1, NothingFinished DEF IInv, Control, States
<1>6. AskedBefore'
  BY <1>1 DEF IInv, Control, Types, AskedBefore, Refuse, First, Puts, client
<1>7. FreshEnough'
  BY <1>1, NeverAhead DEF IInv, Control, Types, KindsAt, AskedBefore, FreshEnough,
            Refuse, First, Puts, client
<1> QED
  BY <1>2, <1>3, <1>4, <1>5, <1>6, <1>7 DEF IInv, Control

LEMMA TakeAlertsIInv == ASSUME IInv, NEW c \in Clients, TakeAlerts(c) PROVE IInv'
<1>1. /\ at' = [at EXCEPT ![c] = "storing"] /\ at[c] # "bump"
      /\ UNCHANGED <<version, seq>>
  BY DEF TakeAlerts, Go, engine
<1>2. Types' /\ KindsAt'
  BY <1>1 DEF IInv, Control, Types, KindsAt, States, TakeAlerts, Go, engine, timestep,
            client
<1>3. LockHeld'
  BY <1>1, NobodyAssumption DEF IInv, Control, Types, KindsAt, LockHeld, InSection,
            TakeAlerts, Go, timestep, client
<1>4. OwnInputs'
  BY <1>1, NobodyAssumption DEF IInv, Control, Types, KindsAt, LockHeld, InSection,
          OwnInputs, TakeAlerts, Go, engine, timestep, client
<1>5. Numbered'
  BY <1>1, NothingFinished DEF IInv, Control, States
<1>6. AskedBefore'
  BY <1>1 DEF IInv, Control, Types, AskedBefore, TakeAlerts, client
<1>7. FreshEnough'
  BY <1>1, NeverAhead DEF IInv, Control, Types, KindsAt, AskedBefore, FreshEnough,
            TakeAlerts, client
<1> QED
  BY <1>2, <1>3, <1>4, <1>5, <1>6, <1>7 DEF IInv, Control

LEMMA StoreAlertsIInv == ASSUME IInv, NEW c \in Clients, StoreAlerts(c) PROVE IInv'
<1>1. /\ at' = [at EXCEPT ![c] = "read"] /\ at[c] # "bump"
      /\ UNCHANGED <<version, seq>>
  BY DEF StoreAlerts, Go, engine
<1>2. Types' /\ KindsAt'
  BY <1>1 DEF IInv, Control, Types, KindsAt, States, StoreAlerts, Go, engine, timestep,
            client
<1>3. LockHeld'
  BY <1>1, NobodyAssumption DEF IInv, Control, Types, KindsAt, LockHeld, InSection,
            StoreAlerts, Go, timestep, client
<1>4. OwnInputs'
  BY <1>1, NobodyAssumption DEF IInv, Control, Types, KindsAt, LockHeld, InSection,
          OwnInputs, StoreAlerts, Go, engine, timestep, client
<1>5. Numbered'
  BY <1>1, NothingFinished DEF IInv, Control, States
<1>6. AskedBefore'
  BY <1>1 DEF IInv, Control, Types, AskedBefore, StoreAlerts, client
<1>7. FreshEnough'
  BY <1>1, NeverAhead DEF IInv, Control, Types, KindsAt, AskedBefore, FreshEnough,
            StoreAlerts, client
<1> QED
  BY <1>2, <1>3, <1>4, <1>5, <1>6, <1>7 DEF IInv, Control

LEMMA ReadIInv == ASSUME IInv, NEW c \in Clients, Read(c) PROVE IInv'
<1>1. /\ at' = [at EXCEPT ![c] = "reply"] /\ at[c] # "bump"
      /\ UNCHANGED <<version, seq>>
  BY DEF Read, Go, engine
<1>2. Types' /\ KindsAt'
  BY <1>1 DEF IInv, Control, Types, KindsAt, States, Read, Go, engine, timestep, client
<1>3. LockHeld'
  BY <1>1, NobodyAssumption DEF IInv, Control, Types, KindsAt, LockHeld, InSection,
            Read, Go, timestep, client
<1>4. OwnInputs'
  BY <1>1, NobodyAssumption DEF IInv, Control, Types, KindsAt, LockHeld, InSection,
          OwnInputs, Read, Go, engine, timestep, client
<1>5. Numbered'
  BY <1>1, NothingFinished DEF IInv, Control, States
<1>6. AskedBefore'
  BY <1>1 DEF IInv, Control, Types, AskedBefore, Read, client
<1>7. FreshEnough'
  BY <1>1, NeverAhead DEF IInv, Control, Types, KindsAt, AskedBefore, FreshEnough,
            Read, client
<1> QED
  BY <1>2, <1>3, <1>4, <1>5, <1>6, <1>7 DEF IInv, Control

LEMMA SetTimeIInv == ASSUME IInv, NEW c \in Clients, SetTime(c) PROVE IInv'
<1>1. /\ at' = [at EXCEPT ![c] = "reply"] /\ at[c] # "bump"
      /\ UNCHANGED <<version, seq>>
  BY DEF SetTime, Disturb, Go, engine
<1>2. Types' /\ KindsAt'
  BY <1>1 DEF IInv, Control, Types, KindsAt, States, SetTime, Disturb, Go, engine,
            timestep, client
<1>3. LockHeld'
  BY <1>1, NobodyAssumption DEF IInv, Control, Types, KindsAt, LockHeld, InSection,
            SetTime, Disturb, Go, timestep, client
<1>4. OwnInputs'
  BY <1>1, NobodyAssumption DEF IInv, Control, Types, KindsAt, LockHeld, InSection,
          OwnInputs, SetTime, Disturb, Go, engine, timestep, client
<1>5. Numbered'
  BY <1>1, NothingFinished DEF IInv, Control, States
<1>6. AskedBefore'
  BY <1>1 DEF IInv, Control, Types, AskedBefore, SetTime, Disturb, client
<1>7. FreshEnough'
  BY <1>1, NeverAhead DEF IInv, Control, Types, KindsAt, AskedBefore, FreshEnough,
            SetTime, Disturb, client
<1> QED
  BY <1>2, <1>3, <1>4, <1>5, <1>6, <1>7 DEF IInv, Control

LEMMA SetIInv == ASSUME IInv, NEW c \in Clients, Set(c) PROVE IInv'
<1>1. /\ at' = [at EXCEPT ![c] = "bump"] /\ at[c] # "bump"
      /\ version' = version + 1 /\ seq' = seq
  BY DEF Set, Go, engine
<1>2. Types' /\ KindsAt'
  BY <1>1 DEF IInv, Control, Types, KindsAt, States, Set, Go, engine, timestep, client
<1>3. LockHeld'
  BY <1>1, NobodyAssumption DEF IInv, Control, Types, KindsAt, LockHeld, InSection,
            Set, Go, timestep, client
<1>4. OwnInputs'
  BY <1>1, NobodyAssumption DEF IInv, Control, Types, KindsAt, LockHeld, InSection,
          OwnInputs, Set, Go, engine, timestep, client
<1>5. Numbered'
  BY <1>1, CallFinished DEF IInv, Control, States
<1>6. AskedBefore'
  BY <1>1 DEF IInv, Control, Types, AskedBefore, Set, client
<1>7. FreshEnough'
  BY <1>1, NeverAhead DEF IInv, Control, Types, KindsAt, AskedBefore, FreshEnough, Set,
            client
<1> QED
  BY <1>2, <1>3, <1>4, <1>5, <1>6, <1>7 DEF IInv, Control

LEMMA CallThrowsIInv == ASSUME IInv, NEW c \in Clients, CallThrows(c) PROVE IInv'
<1>1. /\ at' = [at EXCEPT ![c] = "reply"] /\ at[c] # "bump"
      /\ UNCHANGED <<version, seq>>
  BY DEF CallThrows, Go, engine
<1>2. Types' /\ KindsAt'
  BY <1>1 DEF IInv, Control, Types, KindsAt, States, CallThrows, Go, engine, timestep,
            client
<1>3. LockHeld'
  BY <1>1, NobodyAssumption DEF IInv, Control, Types, KindsAt, LockHeld, InSection,
            CallThrows, Go, timestep, client
<1>4. OwnInputs'
  BY <1>1, NobodyAssumption DEF IInv, Control, Types, KindsAt, LockHeld, InSection,
          OwnInputs, CallThrows, Go, engine, timestep, client
<1>5. Numbered'
  BY <1>1, NothingFinished DEF IInv, Control, States
<1>6. AskedBefore'
  BY <1>1 DEF IInv, Control, Types, AskedBefore, CallThrows, client
<1>7. FreshEnough'
  BY <1>1, NeverAhead DEF IInv, Control, Types, KindsAt, AskedBefore, FreshEnough,
            CallThrows, client
<1> QED
  BY <1>2, <1>3, <1>4, <1>5, <1>6, <1>7 DEF IInv, Control

LEMMA UpdateSeqIInv == ASSUME IInv, NEW c \in Clients, UpdateSeq(c) PROVE IInv'
<1>1. /\ at' = [at EXCEPT ![c] = "reply"] /\ at[c] = "bump"
      /\ version' = version /\ seq' = seq + 1
  BY DEF UpdateSeq, Unlock, Go, engine
<1>2. Types' /\ KindsAt'
  BY <1>1 DEF IInv, Control, Types, KindsAt, States, UpdateSeq, Unlock, Go, engine,
            timestep, client
<1>3. LockHeld'
  BY <1>1, NobodyAssumption DEF IInv, Control, Types, KindsAt, LockHeld, InSection,
            UpdateSeq, Unlock, Go, timestep, client
<1>4. OwnInputs'
  BY <1>1, NobodyAssumption DEF IInv, Control, Types, KindsAt, LockHeld, InSection,
          OwnInputs, UpdateSeq, Unlock, Go, engine, timestep, client
<1>5. Numbered'
  BY <1>1, CallAnnounced DEF IInv, Control, States
<1>6. AskedBefore'
  BY <1>1 DEF IInv, Control, Types, AskedBefore, UpdateSeq, Unlock, client
<1>7. FreshEnough'
  BY <1>1, NeverAhead DEF IInv, Control, Types, KindsAt, AskedBefore, FreshEnough,
            UpdateSeq, Unlock, client
<1> QED
  BY <1>2, <1>3, <1>4, <1>5, <1>6, <1>7 DEF IInv, Control

LEMMA StampIInv == ASSUME IInv, NEW c \in Clients, Stamp(c) PROVE IInv'
<1>1. /\ at' = [at EXCEPT ![c] = "next"] /\ at[c] # "bump"
      /\ UNCHANGED <<version, seq>>
  BY DEF Stamp, Go, engine
<1>2. Types' /\ KindsAt'
  BY <1>1 DEF IInv, Control, Types, KindsAt, States, Stamp, Go, engine, timestep, client
<1>3. LockHeld'
  BY <1>1, NobodyAssumption DEF IInv, Control, Types, KindsAt, LockHeld, InSection,
            Stamp, Go, timestep, client
<1>4. OwnInputs'
  BY <1>1, NobodyAssumption DEF IInv, Control, Types, KindsAt, LockHeld, InSection,
          OwnInputs, Stamp, Go, engine, timestep, client
<1>5. Numbered'
  BY <1>1, NothingFinished DEF IInv, Control, States
<1>6. AskedBefore'
  BY <1>1 DEF IInv, Control, Types, AskedBefore, Stamp, client
<1>7. FreshEnough'
  BY <1>1, NeverAhead DEF IInv, Control, Types, KindsAt, AskedBefore, FreshEnough,
            Stamp, client
<1> QED
  BY <1>2, <1>3, <1>4, <1>5, <1>6, <1>7 DEF IInv, Control

LEMMA BeginStepIInv == ASSUME IInv, NEW c \in Clients, BeginStep(c) PROVE IInv'
<1>1. /\ at' = [at EXCEPT ![c] = "stepping"] /\ at[c] # "bump"
      /\ UNCHANGED <<version, seq>>
  BY DEF BeginStep, Announced, Go, engine
<1>2. Types' /\ KindsAt'
  BY <1>1 DEF IInv, Control, Types, KindsAt, States, BeginStep, Announced, Go, engine,
            timestep, client
<1>3. LockHeld'
  BY <1>1, NobodyAssumption DEF IInv, Control, Types, KindsAt, LockHeld, InSection,
            BeginStep, Announced, Go, timestep, client
<1>4. OwnInputs'
  BY <1>1, NobodyAssumption DEF IInv, Control, Types, KindsAt, LockHeld, InSection,
          OwnInputs, BeginStep, Announced, Go, engine, timestep, client
<1>5. Numbered'
  BY <1>1, NothingFinished DEF IInv, Control, States
<1>6. AskedBefore'
  BY <1>1 DEF IInv, Control, Types, AskedBefore, BeginStep, Announced, client
<1>7. FreshEnough'
  BY <1>1, NeverAhead DEF IInv, Control, Types, KindsAt, AskedBefore, FreshEnough,
            BeginStep, Announced, client
<1> QED
  BY <1>2, <1>3, <1>4, <1>5, <1>6, <1>7 DEF IInv, Control

LEMMA SendIInv == ASSUME IInv, NEW c \in Clients, NEW k \in Sent, Send(c, k) PROVE IInv'
<1> DEFINE f == First(k)
<1>0. /\ f \in States /\ f \notin {"idle", "bump", "stamp", "next",
          "stepping"} /\ k \in Kinds
      /\ f = "call" => k \in {"time", "sample", "set"}
      /\ f = "lock" => k = "sampletimestep"
      /\ f = "step" => k = "singlestep"
  BY SentAssumption DEF First, States, Kinds, Puts
<1>1. /\ at' = [at EXCEPT ![c] = f] /\ at[c] = "idle"
      /\ kind' = [kind EXCEPT ![c] = k] /\ asked' = [asked EXCEPT ![c] = IF k = "get" THEN seq ELSE 0]
      /\ UNCHANGED <<version, seq, data, time, inputs, given, disturbed, stepLock>>
  BY DEF Send, Go, engine, timestep
<1> HIDE DEF f
<1>2. Types' /\ KindsAt'
  BY <1>0, <1>1 DEF IInv, Control, Types, KindsAt
<1>3. LockHeld'
  BY <1>0, <1>1, NobodyAssumption DEF IInv, Control, Types, LockHeld, InSection
<1>4. OwnInputs'
  BY <1>0, <1>1 DEF IInv, Control, Types, OwnInputs
<1>5. Numbered'
  BY <1>0, <1>1, NothingFinished DEF IInv, Control
<1>6. AskedBefore'
  BY <1>1 DEF IInv, Control, Types, AskedBefore
<1>7. FreshEnough'
  <2>1. f = "reply" => FALSE
    BY SentAssumption DEF f, First, Kinds, Puts
  <2> QED
    BY <2>1, <1>1 DEF IInv, Control, Types, FreshEnough
<1> QED
  BY <1>2, <1>3, <1>4, <1>5, <1>6, <1>7 DEF IInv, Control

LEMMA ReplyIInv == ASSUME IInv, NEW c \in Clients, Reply(c) PROVE IInv'
<1>1. /\ at' = [at EXCEPT ![c] = "idle"] /\ at[c] = "reply" /\ UNCHANGED <<version,
          seq>>
      /\ kind' = [kind EXCEPT ![c] = "get"]
  BY DEF Reply, Forget, Go, engine
<1>2. Types' /\ KindsAt'
  BY <1>1, SentAssumption DEF IInv, Control, Types, KindsAt, States, Kinds, Puts,
            Reply, Forget, Go, engine, timestep, client
<1>3. LockHeld'
  BY <1>1, NobodyAssumption DEF IInv, Control, Types, KindsAt, LockHeld, InSection,
            Reply, Forget, Go, engine,
                                 timestep, client
<1>4. OwnInputs'
  BY <1>1, NobodyAssumption DEF IInv, Control, Types, KindsAt, LockHeld, InSection,
          OwnInputs,                        Reply, Forget, Go, engine, timestep, client
<1>5. Numbered'
  BY <1>1, NothingFinished DEF IInv, Control, States
<1>6. AskedBefore'
  BY <1>1 DEF IInv, Control, Types, AskedBefore, Reply, Forget, Go, engine, client
<1>7. FreshEnough'
  BY <1>1, NeverAhead DEF IInv, Control, Types, KindsAt, AskedBefore, FreshEnough,
                          Reply, Forget, Go, engine, client
<1> QED
  BY <1>2, <1>3, <1>4, <1>5, <1>6, <1>7 DEF IInv, Control

LEMMA SetSampleIInv ==
    ASSUME IInv, NEW c \in Clients, NEW s \in Subjects, SetSample(c, s) PROVE IInv'
<1>1. /\ at' = [at EXCEPT ![c] = "bump"] /\ at[c] = "call" /\ kind[c] = "sample"
      /\ version' = version + 1
      /\ UNCHANGED <<seq, kind, asked, data, time, given, stepLock>>
  BY DEF SetSample, Go, timestep, client
<1>2. \/ inputs' = [inputs EXCEPT ![s] = c] /\ disturbed' = (disturbed \/ stepLock # Nobody)
      \/ inputs' = inputs /\ disturbed' = disturbed
  BY DEF SetSample, WithInputs, Disturb
<1>3. /\ inputs' \in [Subjects -> Clients \cup {Nobody}] /\ disturbed' \in BOOLEAN
      /\ \/ inputs' = inputs /\ disturbed' = disturbed
         \/ stepLock # Nobody => disturbed'
  <2>1. CASE inputs' = inputs /\ disturbed' = disturbed
    BY <2>1 DEF IInv, Control, Types
  <2>2. CASE inputs' = [inputs EXCEPT ![s] = c] /\ disturbed' = (disturbed \/ stepLock # Nobody)
    <3>1. inputs' \in [Subjects -> Clients \cup {Nobody}]
      BY <2>2 DEF IInv, Control, Types
    <3>2. disturbed' \in BOOLEAN /\ (stepLock # Nobody => disturbed')
      BY <2>2 DEF IInv, Control, Types
    <3> QED
      BY <3>1, <3>2
  <2> QED
    BY <1>2, <2>1, <2>2
<1>4. Types' /\ KindsAt'
  <2>1. at' \in [Clients -> States] /\ version' \in Nat
    BY <1>1 DEF IInv, Control, Types, States
  <2>2. Types'
    BY <1>1, <1>3, <2>1 DEF IInv, Control, Types
  <2> QED
    BY <1>1, <2>2 DEF IInv, Control, Types, KindsAt
<1>5. LockHeld'
  BY <1>1, NobodyAssumption DEF IInv, Control, Types, LockHeld, InSection
<1>6. OwnInputs'
  BY <1>1, <1>3, NobodyAssumption DEF IInv, Control, Types, LockHeld, InSection,
            OwnInputs
<1>7. Numbered'
  BY <1>1, CallFinished DEF IInv, Control
<1>8. AskedBefore'
  BY <1>1 DEF IInv, AskedBefore
<1>9. FreshEnough'
  BY <1>1 DEF IInv, Control, Types, FreshEnough
<1> QED
  BY <1>4, <1>5, <1>6, <1>7, <1>8, <1>9 DEF IInv, Control

LEMMA LockIInv ==
    ASSUME IInv, NEW c \in Clients, NEW named \in SUBSET Subjects, Lock(c,
          named) PROVE IInv'
<1>1. at' = [at EXCEPT ![c] = "stamp"] /\ at[c] = "lock" /\ UNCHANGED <<version, seq>>
  BY DEF Lock, StepFree, Go, engine
<1>2. Types' /\ KindsAt'
  BY <1>1, SentAssumption DEF IInv, Control, Types, KindsAt, States, Kinds, Puts, Lock,
            StepFree, Go, engine, timestep, client
<1>3. LockHeld'
  BY <1>1, NobodyAssumption DEF IInv, Control, Types, KindsAt, LockHeld, InSection,
            Lock, StepFree, Go, engine,
                                 timestep, client
<1>4. OwnInputs'
  BY <1>1, NobodyAssumption DEF IInv, Control, Types, KindsAt, LockHeld, InSection,
          OwnInputs,                        Lock, StepFree, Go, engine, timestep, client
<1>5. Numbered'
  BY <1>1, NothingFinished DEF IInv, Control, States
<1>6. AskedBefore'
  BY <1>1 DEF IInv, Control, Types, AskedBefore, Lock, StepFree, Go, engine, client
<1>7. FreshEnough'
  BY <1>1, NeverAhead DEF IInv, Control, Types, KindsAt, AskedBefore, FreshEnough,
                          Lock, StepFree, Go, engine, client
<1> QED
  BY <1>2, <1>3, <1>4, <1>5, <1>6, <1>7 DEF IInv, Control

LEMMA GiveInputsIInv ==
    ASSUME IInv, NEW c \in Clients, NEW s \in Subjects, GiveInputs(c, s) PROVE IInv'
<1>1. /\ at[c] = "next" /\ UNCHANGED <<at, version, seq>>
      /\ given' = [given EXCEPT ![c] = given[c] \cup {s}]
  BY DEF GiveInputs, TakeEntry, WithInputs
<1>2. Types' /\ KindsAt'
  BY <1>1, SentAssumption DEF IInv, Control, Types, KindsAt, States, Kinds, Puts,
            GiveInputs, TakeEntry, WithInputs, timestep, client
<1>3. LockHeld'
  BY <1>1, NobodyAssumption DEF IInv, Control, Types, KindsAt, LockHeld, InSection,
            GiveInputs, TakeEntry, WithInputs,
                                 timestep, client
<1>4. OwnInputs'
  BY <1>1, NobodyAssumption DEF IInv, Control, Types, KindsAt, LockHeld, InSection,
          OwnInputs,                        GiveInputs, TakeEntry, WithInputs, timestep, client
<1>5. Numbered'
  BY <1>1 DEF IInv, Numbered, Announcing
<1>6. AskedBefore'
  BY <1>1 DEF IInv, Control, Types, AskedBefore, GiveInputs, TakeEntry, WithInputs,
            client
<1>7. FreshEnough'
  BY <1>1, NeverAhead DEF IInv, Control, Types, KindsAt, AskedBefore, FreshEnough,
                          GiveInputs, TakeEntry, WithInputs, client
<1> QED
  BY <1>2, <1>3, <1>4, <1>5, <1>6, <1>7 DEF IInv, Control

LEMMA PassOverIInv ==
    ASSUME IInv, NEW c \in Clients, NEW s \in Subjects, PassOver(c, s) PROVE IInv'
<1>1. UNCHANGED <<at, version, seq>>
  BY DEF PassOver, TakeEntry, engine
<1>2. Types' /\ KindsAt'
  BY <1>1, SentAssumption DEF IInv, Control, Types, KindsAt, States, Kinds, Puts,
            PassOver, TakeEntry, engine, timestep, client
<1>3. LockHeld'
  BY <1>1, NobodyAssumption DEF IInv, Control, Types, KindsAt, LockHeld, InSection,
            PassOver, TakeEntry, engine,
                                 timestep, client
<1>4. OwnInputs'
  BY <1>1, NobodyAssumption DEF IInv, Control, Types, KindsAt, LockHeld, InSection,
          OwnInputs,                        PassOver, TakeEntry, engine, timestep, client
<1>5. Numbered'
  BY <1>1 DEF IInv, Numbered, Announcing
<1>6. AskedBefore'
  BY <1>1 DEF IInv, Control, Types, AskedBefore, PassOver, TakeEntry, engine, client
<1>7. FreshEnough'
  BY <1>1, NeverAhead DEF IInv, Control, Types, KindsAt, AskedBefore, FreshEnough,
                          PassOver, TakeEntry, engine, client
<1> QED
  BY <1>2, <1>3, <1>4, <1>5, <1>6, <1>7 DEF IInv, Control

LEMMA WrongLengthIInv ==
    ASSUME IInv, NEW c \in Clients, NEW s \in Subjects, WrongLength(c, s) PROVE IInv'
<1>1. UNCHANGED <<at, version, seq>>
  BY DEF WrongLength, TakeEntry, engine
<1>2. Types' /\ KindsAt'
  BY <1>1, SentAssumption DEF IInv, Control, Types, KindsAt, States, Kinds, Puts,
            WrongLength, TakeEntry, engine, timestep, client
<1>3. LockHeld'
  BY <1>1, NobodyAssumption DEF IInv, Control, Types, KindsAt, LockHeld, InSection,
            WrongLength, TakeEntry, engine,
                                 timestep, client
<1>4. OwnInputs'
  BY <1>1, NobodyAssumption DEF IInv, Control, Types, KindsAt, LockHeld, InSection,
          OwnInputs,                        WrongLength, TakeEntry, engine, timestep, client
<1>5. Numbered'
  BY <1>1 DEF IInv, Numbered, Announcing
<1>6. AskedBefore'
  BY <1>1 DEF IInv, Control, Types, AskedBefore, WrongLength, TakeEntry, engine, client
<1>7. FreshEnough'
  BY <1>1, NeverAhead DEF IInv, Control, Types, KindsAt, AskedBefore, FreshEnough,
                          WrongLength, TakeEntry, engine, client
<1> QED
  BY <1>2, <1>3, <1>4, <1>5, <1>6, <1>7 DEF IInv, Control

LEMMA EndOfValuesIInv == ASSUME IInv, NEW c \in Clients, EndOfValues(c) PROVE IInv'
<1>1. /\ at[c] = "next" /\ UNCHANGED <<version, seq>>
      /\ \/ at' = [at EXCEPT ![c] = "step"]
         \/ at' = [at EXCEPT ![c] = "reply"]
  BY DEF EndOfValues, Unlock, Go, engine
<1>2. Types' /\ KindsAt'
  BY <1>1, SentAssumption DEF IInv, Control, Types, KindsAt, States, Kinds, Puts,
            EndOfValues, Unlock, Go, engine, timestep, client
<1>3. LockHeld'
  BY <1>1, NobodyAssumption DEF IInv, Control, Types, KindsAt, LockHeld, InSection,
            EndOfValues, Unlock, Go, engine,
                                 timestep, client
<1>4. OwnInputs'
  BY <1>1, NobodyAssumption DEF IInv, Control, Types, KindsAt, LockHeld, InSection,
          OwnInputs,                        EndOfValues, Unlock, Go, engine, timestep, client
<1>5. Numbered'
  BY <1>1, NothingFinished DEF IInv, Control, States
<1>6. AskedBefore'
  BY <1>1 DEF IInv, Control, Types, AskedBefore, EndOfValues, Unlock, Go, engine, client
<1>7. FreshEnough'
  BY <1>1, NeverAhead DEF IInv, Control, Types, KindsAt, AskedBefore, FreshEnough,
                          EndOfValues, Unlock, Go, engine, client
<1> QED
  BY <1>2, <1>3, <1>4, <1>5, <1>6, <1>7 DEF IInv, Control

LEMMA AbandonIInv == ASSUME IInv, NEW c \in Clients, Abandon(c) PROVE IInv'
<1>1. /\ at[c] = "next" /\ UNCHANGED <<version, seq>>
      /\ \/ at' = [at EXCEPT ![c] = "reply"]
         \/ at' = [at EXCEPT ![c] = "idle"]
  BY DEF Abandon, Leave, Unlock, Forget, Go, engine
<1>2. Types' /\ KindsAt'
  BY <1>1, SentAssumption DEF IInv, Control, Types, KindsAt, States, Kinds, Puts,
            Abandon, Leave, Unlock, Forget, Go, engine, timestep, client
<1>3. LockHeld'
  BY <1>1, NobodyAssumption DEF IInv, Control, Types, KindsAt, LockHeld, InSection,
            Abandon, Leave, Unlock, Forget, Go, engine,
                                 timestep, client
<1>4. OwnInputs'
  BY <1>1, NobodyAssumption DEF IInv, Control, Types, KindsAt, LockHeld, InSection,
          OwnInputs,                        Abandon, Leave, Unlock, Forget, Go, engine, timestep,
                                           client
<1>5. Numbered'
  BY <1>1, NothingFinished DEF IInv, Control, States
<1>6. AskedBefore'
  BY <1>1 DEF IInv, Control, Types, AskedBefore, Abandon, Leave, Unlock, Forget, Go,
            engine, client
<1>7. FreshEnough'
  BY <1>1, NeverAhead DEF IInv, Control, Types, KindsAt, AskedBefore, FreshEnough,
                          Abandon, Leave, Unlock, Forget, Go, engine, client
<1> QED
  BY <1>2, <1>3, <1>4, <1>5, <1>6, <1>7 DEF IInv, Control

LEMMA EndStepIInv ==
    ASSUME IInv, NEW c \in Clients, NEW new \in 0 .. MaxPosts, EndStep(c,
          new) PROVE IInv'
<1>1. /\ at' = [at EXCEPT ![c] = "bump"] /\ at[c] = "stepping"
      /\ version' = version + 1 /\ seq' = seq
  BY DEF EndStep, Go
<1>2. Types' /\ KindsAt'
  BY <1>1, SentAssumption DEF IInv, Control, Types, KindsAt, States, Kinds, Puts,
            EndStep, Go, timestep, client
<1>3. LockHeld'
  BY <1>1, NobodyAssumption DEF IInv, Control, Types, KindsAt, LockHeld, InSection,
            EndStep, Go,
                                 timestep, client
<1>4. OwnInputs'
  BY <1>1, NobodyAssumption DEF IInv, Control, Types, KindsAt, LockHeld, InSection,
          OwnInputs,                        EndStep, Go, timestep, client
<1>5. Numbered'
  BY <1>1, CallFinished DEF IInv, Control
<1>6. AskedBefore'
  BY <1>1 DEF IInv, Control, Types, AskedBefore, EndStep, Go, client
<1>7. FreshEnough'
  BY <1>1, NeverAhead DEF IInv, Control, Types, KindsAt, AskedBefore, FreshEnough,
                          EndStep, Go, client
<1> QED
  BY <1>2, <1>3, <1>4, <1>5, <1>6, <1>7 DEF IInv, Control

LEMMA NextIInv == IInv /\ [Next]_vars => IInv'
<1> SUFFICES ASSUME IInv, [Next]_vars PROVE IInv'
  OBVIOUS
<1>1. ASSUME NEW c \in Clients, NEW k \in Sent, Send(c, k) PROVE IInv'
  BY <1>1, SendIInv
<1>2. ASSUME NEW c \in Clients, Handler(c) PROVE IInv'
  <2>1. CASE Refuse(c) \/ Reply(c) \/ TakeAlerts(c) \/ StoreAlerts(c) \/ Read(c)
    BY <2>1, RefuseIInv, ReplyIInv, TakeAlertsIInv, StoreAlertsIInv, ReadIInv
  <2>2. CASE SetTime(c) \/ Set(c) \/ CallThrows(c) \/ UpdateSeq(c)
    BY <2>2, SetTimeIInv, SetIInv, CallThrowsIInv, UpdateSeqIInv
  <2>3. ASSUME NEW s \in Subjects,
               SetSample(c, s) \/ GiveInputs(c, s) \/ PassOver(c, s) \/ WrongLength(c,
                         s)
        PROVE  IInv'
    BY <2>3, SetSampleIInv, GiveInputsIInv, PassOverIInv, WrongLengthIInv
  <2>4. ASSUME NEW named \in SUBSET Subjects, Lock(c, named) PROVE IInv'
    BY <2>4, LockIInv
  <2>5. CASE Stamp(c) \/ Abandon(c) \/ EndOfValues(c) \/ BeginStep(c)
    BY <2>5, StampIInv, AbandonIInv, EndOfValuesIInv, BeginStepIInv
  <2>6. ASSUME NEW new \in 0 .. MaxPosts, EndStep(c, new) PROVE IInv'
    BY <2>6, EndStepIInv
  <2> QED
    BY <1>2, <2>1, <2>2, <2>3, <2>4, <2>5, <2>6 DEF Handler
<1>3. CASE UNCHANGED vars
  BY <1>3 DEF vars, engine, timestep, client, IInv, Control, Types, KindsAt, LockHeld,
            InSection,
              OwnInputs, Numbered, Announcing, AskedBefore, FreshEnough
<1> QED
  BY <1>1, <1>2, <1>3 DEF Next

LEMMA Invariant == Spec => []IInv
BY InitIInv, NextIInv, PTL DEF Spec

-------------------------------------------------------------------------------
(* Theorems.                                                               *)

(* Whatever number a client has learned when it asks, the data it gets have *)
(* the changes announced by then: update_seq never comes before its call.   *)
THEOREM DataFresh == Spec => []FreshEnough
<1>1. IInv => FreshEnough
  BY DEF IInv
<1> QED
  BY <1>1, Invariant, PTL

(* The single step of a sampletimestep finds the time and the inputs of its *)
(* request, unless single calls came in between, however the sampletimestep *)
(* of other clients ended.                                                  *)
THEOREM StepOwn == Spec => []StepUsesOwn
<1>1. IInv => StepUsesOwn
  BY DEF IInv, Control, OwnInputs, StepUsesOwn
<1> QED
  BY <1>1, Invariant, PTL

(* Every call that may change what a client sees is announced by update_seq  *)
(* exactly once: what is finished and not announced is what handlers on      *)
(* their way to update_seq have done, however many and whatever errors other *)
(* requests end with.                                                      *)
THEOREM AnnouncedOnce == Spec => [](version = seq + Cardinality(Announcing))
<1>1. IInv => version = seq + Cardinality(Announcing)
  BY DEF IInv, Numbered
<1> QED
  BY <1>1, Invariant, PTL

-------------------------------------------------------------------------------
(* The alerts: the buffer holds the latest, with consecutive ids, in the    *)
(* order in which they were posted, and as many as there are or there is    *)
(* room for.                                                               *)
(*                                                                         *)
(* An alert goes from the fifo to the hands of one GET and from there to   *)
(* the buffer.  What keeps the order is that only the holder of the lock   *)
(* has alerts in hand (InHand), that the fifo is younger than these and    *)
(* these are younger than the buffer (Younger), and that what a step posts *)
(* is younger than all.                                                    *)

Increasing(s) == \A i, j \in DOMAIN s : i < j => s[i] < s[j]
AllBelow(s, t) == \A i \in DOMAIN s, j \in DOMAIN t : s[i] < t[j]

AlertTypes == /\ fifo \in Seq(Nat) /\ moving \in [Clients -> Seq(Nat)]
              /\ posted \in Nat /\ alertseq \in Nat
              /\ \A i \in DOMAIN alerts : alerts[i] \in Nat

InHand == \A c \in Clients : /\ at[c] = "storing" => apiLock = c
                             /\ moving[c] # <<>> => at[c] = "storing"

InOrder == Increasing(fifo) /\ Increasing(alerts) /\ \A c \in Clients : Increasing(moving[c])

Younger == /\ AllBelow(alerts, fifo)
           /\ \A c \in Clients : AllBelow(alerts, moving[c]) /\ AllBelow(moving[c], fifo)

Posted == /\ \A i \in DOMAIN fifo : fifo[i] <= posted
          /\ \A i \in DOMAIN alerts : alerts[i] <= posted
          /\ \A c \in Clients : \A i \in DOMAIN moving[c] : moving[c][i] <= posted

(* The ids from some oldest on, which is 0 until the buffer is full.        *)
Room == \E oldest \in 0 .. alertseq :
           /\ DOMAIN alerts = oldest .. alertseq - 1
           /\ oldest = 0 \/ alertseq - oldest >= BufferSize

Alarms == AlertTypes /\ InHand /\ InOrder /\ Younger /\ Posted /\ Room

-------------------------------------------------------------------------------

(* Handlers that leave the alerts alone.                                    *)
LEMMA Aside ==
    ASSUME Types, Alarms, NEW c \in Clients, NEW where \in States \ {"storing"},
           at[c] # "storing", at' = at \/ at' = [at EXCEPT ![c] = where],
           UNCHANGED <<fifo, posted, moving, alerts, alertseq>>,
           apiLock' = apiLock \/ apiLock \in {Nobody, c}
    PROVE  Alarms'
<1>1. InHand'
  BY NobodyAssumption DEF Types, Alarms, InHand
<1>2. AlertTypes' /\ InOrder' /\ Younger' /\ Posted' /\ Room'
  BY DEF Alarms, AlertTypes, InOrder, Increasing, Younger, AllBelow, Posted, Room
<1> QED
  BY <1>1, <1>2 DEF Alarms

LEMMA InitAlarms == Init => Alarms
<1> SUFFICES ASSUME Init PROVE Alarms
  OBVIOUS
<1>1. AlertTypes /\ InHand
  BY DEF Init, AlertTypes, InHand
<1>2. DOMAIN alerts = {} /\ DOMAIN fifo = {} /\ \A c \in Clients : DOMAIN moving[c] = {}
  BY DEF Init
<1>3. InOrder /\ Younger /\ Posted
  BY <1>2 DEF InOrder, Increasing, Younger, AllBelow, Posted
<1>4. Room
  BY <1>2 DEF Init, Room
<1> QED
  BY <1>1, <1>3, <1>4 DEF Alarms

(* Who takes the fifo holds the lock, so nobody has alerts in hand.         *)
LEMMA TakeAlertsAlarms ==
    ASSUME Types, Alarms, NEW c \in Clients, TakeAlerts(c) PROVE Alarms'
<1>1. \A d \in Clients : at[d] # "storing" /\ moving[d] = <<>>
  BY NobodyAssumption DEF TakeAlerts, Free, Alarms, InHand
<1>2. /\ apiLock' = c /\ at' = [at EXCEPT ![c] = "storing"]
      /\ moving' = [moving EXCEPT ![c] = fifo] /\ fifo' = <<>>
      /\ UNCHANGED <<posted, alerts, alertseq>>
  BY DEF TakeAlerts, Go
<1>3. AlertTypes'
  BY <1>2 DEF Alarms, AlertTypes
<1>4. moving'[c] = fifo /\ \A d \in Clients \ {c} : moving'[d] = <<>>
  BY <1>1, <1>2 DEF Alarms, AlertTypes
<1>5. InHand'
  BY <1>1, <1>2, <1>4 DEF InHand, Types
<1>6. DOMAIN fifo' = {} /\ \A d \in Clients \ {c} : DOMAIN moving'[d] = {}
  BY <1>2, <1>4
<1>7. InOrder'
  BY <1>2, <1>4, <1>6 DEF Alarms, InOrder, Increasing
<1>8. Younger'
  BY <1>2, <1>4, <1>6 DEF Alarms, Younger, AllBelow
<1>9. Posted'
  BY <1>2, <1>4, <1>6 DEF Alarms, Posted
<1>10. Room'
  BY <1>2 DEF Alarms, Room
<1> QED
  BY <1>3, <1>5, <1>7, <1>8, <1>9, <1>10 DEF Alarms

(* The buffer is increased at the young end, and only what would exceed it  *)
(* goes at the other.                                                       *)
LEMMA StoreAlertsAlarms ==
    ASSUME Types, Alarms, NEW c \in Clients, StoreAlerts(c) PROVE Alarms'
<1> DEFINE new   == moving[c]
           old   == alertseq - Cardinality(DOMAIN alerts)
           kept  == {i \in DOMAIN alerts : i >= old + Excess(Len(new))}
           added == alertseq .. alertseq + Len(new) - 1
<1>1. /\ at[c] = "storing" /\ at' = [at EXCEPT ![c] = "read"]
      /\ moving' = [moving EXCEPT ![c] = <<>>]
      /\ alerts' = [i \in kept \cup added |->
                      IF i \in added THEN new[i - alertseq + 1] ELSE alerts[i]]
      /\ alertseq' = alertseq + Len(new)
      /\ UNCHANGED <<fifo, posted>>
  BY DEF StoreAlerts, Go
<1>2. new \in Seq(Nat) /\ Len(new) \in Nat /\ DOMAIN new = 1 .. Len(new) /\ alertseq \in Nat
  BY DEF Alarms, AlertTypes
<1>3. PICK oldest \in 0 .. alertseq :
         /\ DOMAIN alerts = oldest .. alertseq - 1
         /\ oldest = 0 \/ alertseq - oldest >= BufferSize
  BY DEF Alarms, Room
<1>4. Cardinality(DOMAIN alerts) = alertseq - oldest
  <2>1. Cardinality(oldest .. alertseq - 1) =
           IF oldest > alertseq - 1 THEN 0 ELSE alertseq - 1 - oldest + 1
    BY <1>2, FS_Interval
  <2> QED
    BY <2>1, <1>2, <1>3
<1> DEFINE excess == Excess(Len(new))
           first  == IF oldest + excess < alertseq THEN oldest + excess ELSE alertseq
<1>5. /\ excess \in Nat
      /\ excess = IF Len(new) + (alertseq - oldest) - BufferSize < 0 THEN 0
                  ELSE Len(new) + (alertseq - oldest) - BufferSize
  BY <1>2, <1>4, SizesAssumption DEF Excess
<1> HIDE DEF excess
<1>6. old = oldest
  BY <1>2, <1>4
<1>7. kept = first .. alertseq - 1
  BY <1>2, <1>3, <1>5, <1>6 DEF excess
<1>8. kept \cup added = first .. alertseq' - 1 /\ first \in 0 .. alertseq
  BY <1>1, <1>2, <1>5, <1>7
<1>9. Room'
  <2>1. first \in 0 .. alertseq' /\ alertseq' \in Nat
    BY <1>1, <1>2, <1>8
  <2>2. first = 0 \/ alertseq' - first >= BufferSize
    BY <1>1, <1>2, <1>3, <1>5, SizesAssumption
  <2>3. DOMAIN alerts' = first .. alertseq' - 1
    BY <1>1, <1>8
  <2> QED
    BY <2>1, <2>2, <2>3 DEF Room
<1> DEFINE Kept(i)  == i \in DOMAIN alerts /\ i < alertseq /\ alerts'[i] = alerts[i]
           Added(i) == /\ i \in Nat /\ i >= alertseq /\ i - alertseq + 1 \in DOMAIN new
                       /\ alerts'[i] = new[i - alertseq + 1]
<1>10. \A i \in DOMAIN alerts' : i \in Nat /\ (Kept(i) \/ Added(i))
  <2> SUFFICES ASSUME NEW i \in DOMAIN alerts' PROVE i \in Nat /\ (Kept(i) \/ Added(i))
    OBVIOUS
  <2>1. i \in kept \cup added
    BY <1>1
  <2>2. CASE i \in added
    BY <1>1, <1>2, <2>1, <2>2
  <2>3. CASE i \in kept /\ i \notin added
    <3>1. i \in DOMAIN alerts
      BY <2>3
    <3>2. i \in Nat /\ i < alertseq
      BY <3>1, <1>2, <1>3
    <3> QED
      BY <1>1, <2>1, <2>3, <3>1, <3>2
  <2> QED
    BY <2>1, <2>2, <2>3
<1> HIDE DEF kept, added, first, old
<1>11. AlertTypes'
  <2>1. \A i \in DOMAIN alerts' : alerts'[i] \in Nat
    BY <1>2, <1>10 DEF Alarms, AlertTypes
  <2>2. <<>> \in Seq(Nat) /\ moving' \in [Clients -> Seq(Nat)]
    BY <1>1 DEF Alarms, AlertTypes
  <2>3. fifo' \in Seq(Nat) /\ posted' \in Nat /\ alertseq' \in Nat
    BY <1>1, <1>2 DEF Alarms, AlertTypes
  <2> QED
    BY <2>1, <2>2, <2>3 DEF AlertTypes
<1>12. moving'[c] = <<>> /\ \A d \in Clients \ {c} : moving'[d] = <<>>
  <2>1. \A d \in Clients \ {c} : moving[d] = <<>>
    BY <1>1 DEF Alarms, InHand
  <2> QED
    BY <1>1, <2>1 DEF Alarms, AlertTypes
<1>13. \A d \in Clients : DOMAIN moving'[d] = {} /\ moving'[d] = <<>>
  BY <1>12
<1>14. InHand'
  BY <1>1, <1>13 DEF Alarms, InHand, Types
<1>15. Increasing(new) /\ Increasing(alerts) /\ Increasing(fifo)
  BY DEF Alarms, InOrder
<1>16. AllBelow(alerts, new) /\ AllBelow(alerts, fifo) /\ AllBelow(new, fifo)
  BY DEF Alarms, Younger
<1>17. Increasing(alerts')
  <2> SUFFICES ASSUME NEW i \in DOMAIN alerts', NEW j \in DOMAIN alerts', i < j
               PROVE  alerts'[i] < alerts'[j]
    BY DEF Increasing
  <2>1. CASE Kept(i) /\ Kept(j)
    BY <2>1, <1>15 DEF Increasing
  <2>2. CASE Kept(i) /\ Added(j)
    BY <2>2, <1>16 DEF AllBelow
  <2>3. CASE Added(i) /\ Kept(j)
    BY <2>3, <1>2, <1>10
  <2>4. CASE Added(i) /\ Added(j)
    <3>1. i - alertseq + 1 < j - alertseq + 1
      BY <2>4, <1>2
    <3> QED
      BY <2>4, <3>1, <1>15 DEF Increasing
  <2> QED
    BY <2>1, <2>2, <2>3, <2>4, <1>10
<1>18. InOrder'
  BY <1>1, <1>13, <1>15, <1>17 DEF InOrder, Increasing
<1>19. AllBelow(alerts', fifo')
  BY <1>1, <1>10, <1>16 DEF AllBelow
<1>20. Younger'
  BY <1>13, <1>19 DEF Younger, AllBelow
<1>21. Posted'
  BY <1>1, <1>10, <1>13 DEF Alarms, Posted
<1> QED
  BY <1>9, <1>11, <1>14, <1>18, <1>20, <1>21 DEF Alarms

(* What a step posts is younger than all that was posted before.            *)
LEMMA EndStepAlarms ==
    ASSUME Types, Alarms, NEW c \in Clients, NEW new \in 0 .. MaxPosts, EndStep(c, new)
    PROVE  Alarms'
<1>1. /\ at[c] = "stepping" /\ at' = [at EXCEPT ![c] = "bump"]
      /\ posted' = posted + new
      /\ UNCHANGED <<apiLock, moving, alerts, alertseq>>
  BY DEF EndStep, Go
<1>2. posted \in Nat /\ new \in Nat /\ fifo \in Seq(Nat)
  BY SizesAssumption DEF Alarms, AlertTypes
<1>3. PICK left \in Left(c, new) : fifo' = fifo \o left
  BY DEF EndStep
<1>4. PICK n \in 0 .. new : left \in [1 .. n -> posted + 1 .. posted + new]
  BY <1>3 DEF Left
<1>5. left \in Seq(Nat) /\ Len(left) = n /\ DOMAIN left = 1 .. n /\ n \in Nat
  BY <1>2, <1>4
<1>6. Increasing(left)
  BY <1>3 DEF Left, Increasing
<1>7. \A i \in DOMAIN left : left[i] \in Nat /\ posted < left[i] /\ left[i] <= posted + new
  BY <1>2, <1>4, <1>5
<1>8. /\ fifo' \in Seq(Nat)
      /\ \A i \in DOMAIN fifo' :
            \/ i \in DOMAIN fifo /\ fifo'[i] = fifo[i] /\ i <= Len(fifo)
            \/ /\ i > Len(fifo) /\ i - Len(fifo) \in DOMAIN left
               /\ fifo'[i] = left[i - Len(fifo)]
  BY <1>2, <1>3, <1>5
<1>9. AlertTypes'
  BY <1>1, <1>2, <1>8 DEF Alarms, AlertTypes
<1>10. InHand'
  BY <1>1 DEF Alarms, InHand, Types
<1>11. \A i \in DOMAIN fifo : fifo[i] \in Nat /\ fifo[i] <= posted /\ i \in Nat
  BY <1>2 DEF Alarms, Posted
<1>12. Increasing(fifo')
  <2> SUFFICES ASSUME NEW i \in DOMAIN fifo', NEW j \in DOMAIN fifo', i < j
               PROVE  fifo'[i] < fifo'[j]
    BY DEF Increasing
  <2>1. i \in Nat /\ j \in Nat /\ Len(fifo) \in Nat
    BY <1>2, <1>8
  <2>2. CASE j <= Len(fifo)
    BY <2>1, <2>2, <1>8 DEF Alarms, InOrder, Increasing
  <2>3. CASE i <= Len(fifo) /\ j > Len(fifo)
    <3>1. i \in DOMAIN fifo /\ fifo'[i] = fifo[i]
      BY <2>1, <2>3, <1>8
    <3>2. j - Len(fifo) \in DOMAIN left /\ fifo'[j] = left[j - Len(fifo)]
      BY <2>1, <2>3, <1>8
    <3> QED
      BY <3>1, <3>2, <1>2, <1>7, <1>11
  <2>4. CASE i > Len(fifo)
    <3>1. i - Len(fifo) \in DOMAIN left /\ fifo'[i] = left[i - Len(fifo)]
      BY <2>1, <2>4, <1>8
    <3>2. j - Len(fifo) \in DOMAIN left /\ fifo'[j] = left[j - Len(fifo)]
      BY <2>1, <2>4, <1>8
    <3>3. i - Len(fifo) < j - Len(fifo)
      BY <2>1
    <3> QED
      BY <3>1, <3>2, <3>3, <1>6 DEF Increasing
  <2> QED
    BY <2>1, <2>2, <2>3, <2>4
<1>13. InOrder'
  BY <1>1, <1>12 DEF Alarms, InOrder
<1>14. \A x \in Nat : x <= posted /\ (\A i \in DOMAIN fifo : x < fifo[i])
                         => \A i \in DOMAIN fifo' : x < fifo'[i]
  <2> SUFFICES ASSUME NEW x \in Nat, x <= posted, \A i \in DOMAIN fifo : x < fifo[i],
                      NEW i \in DOMAIN fifo'
               PROVE  x < fifo'[i]
    OBVIOUS
  <2>1. CASE i \in DOMAIN fifo /\ fifo'[i] = fifo[i]
    BY <2>1
  <2>2. CASE i - Len(fifo) \in DOMAIN left /\ fifo'[i] = left[i - Len(fifo)]
    BY <2>2, <1>2, <1>7
  <2> QED
    BY <2>1, <2>2, <1>8
<1>15. AllBelow(alerts', fifo')
  BY <1>1, <1>14 DEF Alarms, AlertTypes, Posted, Younger, AllBelow
<1>16. \A d \in Clients : AllBelow(moving[d], fifo')
  <2> SUFFICES ASSUME NEW d \in Clients, NEW i \in DOMAIN moving[d]
               PROVE  \A j \in DOMAIN fifo' : moving[d][i] < fifo'[j]
    BY DEF AllBelow
  <2>1. moving[d] \in Seq(Nat)
    BY DEF Alarms, AlertTypes
  <2>2. moving[d][i] \in Nat
    BY <2>1
  <2> QED
    BY <2>2, <1>14 DEF Alarms, Posted, Younger, AllBelow
<1>17. Younger'
  BY <1>1, <1>15, <1>16 DEF Alarms, Younger
<1>18. Posted'
  <2>1. \A i \in DOMAIN fifo' : fifo'[i] <= posted'
    BY <1>1, <1>2, <1>7, <1>8, <1>11
  <2>2. \A i \in DOMAIN alerts : alerts[i] <= posted'
    BY <1>1, <1>2 DEF Alarms, AlertTypes, Posted
  <2>3. \A d \in Clients : \A i \in DOMAIN moving[d] : moving[d][i] <= posted'
    <3> SUFFICES ASSUME NEW d \in Clients, NEW i \in DOMAIN moving[d]
                 PROVE  moving[d][i] <= posted'
      OBVIOUS
    <3>1. moving[d] \in Seq(Nat)
      BY DEF Alarms, AlertTypes
    <3>2. moving[d][i] \in Nat /\ moving[d][i] <= posted
      BY <3>1 DEF Alarms, Posted
    <3> QED
      BY <3>2, <1>1, <1>2
  <2> QED
    BY <1>1, <2>1, <2>2, <2>3 DEF Posted
<1>19. Room'
  BY <1>1 DEF Alarms, Room
<1> QED
  BY <1>9, <1>10, <1>13, <1>17, <1>18, <1>19 DEF Alarms

-------------------------------------------------------------------------------

(* Every other handler leaves the alerts alone.                             *)
LEMMA HandlerAlarms ==
    ASSUME Types, Alarms, NEW c \in Clients, Handler(c) PROVE Alarms'
<1>1. CASE Refuse(c)
  <2>1. at[c] # "storing"
    BY <1>1 DEF Refuse, First, Puts
  <2> QED
    BY <1>1, <2>1, Aside DEF Refuse, Go, alarm, States
<1>2. CASE Reply(c)
  BY <1>2, Aside DEF Reply, Forget, Go, alarm, States
<1>3. CASE TakeAlerts(c)
  BY <1>3, TakeAlertsAlarms
<1>4. CASE StoreAlerts(c)
  BY <1>4, StoreAlertsAlarms
<1>5. CASE Read(c)
  BY <1>5, Aside DEF Read, Go, alarm, States
<1>6. CASE SetTime(c)
  BY <1>6, Aside DEF SetTime, Go, alarm, States
<1>7. CASE Set(c)
  BY <1>7, Aside DEF Set, Go, alarm, States
<1>8. CASE CallThrows(c)
  BY <1>8, Aside DEF CallThrows, Go, alarm, States
<1>9. CASE UpdateSeq(c)
  BY <1>9, Aside DEF UpdateSeq, Go, alarm, States
<1>10. ASSUME NEW s \in Subjects, SetSample(c, s) PROVE Alarms'
  BY <1>10, Aside DEF SetSample, Go, alarm, States
<1>11. ASSUME NEW s \in Subjects, GiveInputs(c, s) \/ PassOver(c, s) \/ WrongLength(c, s)
       PROVE  Alarms'
  <2>1. /\ at[c] # "storing" /\ at' = at /\ apiLock' = apiLock
        /\ UNCHANGED <<fifo, posted, moving, alerts, alertseq>>
    BY <1>11 DEF GiveInputs, PassOver, WrongLength, TakeEntry, alarm
  <2> QED
    BY <2>1, Aside DEF States
<1>12. ASSUME NEW named \in SUBSET Subjects, Lock(c, named) PROVE Alarms'
  BY <1>12, Aside DEF Lock, Go, alarm, States
<1>13. CASE Stamp(c)
  BY <1>13, Aside DEF Stamp, Go, alarm, States
<1>14. CASE Abandon(c)
  BY <1>14, Aside DEF Abandon, Forget, Go, alarm, States
<1>15. CASE EndOfValues(c)
  BY <1>15, Aside DEF EndOfValues, Go, alarm, States
<1>16. CASE BeginStep(c)
  BY <1>16, Aside DEF BeginStep, Go, States
<1>17. ASSUME NEW new \in 0 .. MaxPosts, EndStep(c, new) PROVE Alarms'
  BY <1>17, EndStepAlarms
<1> QED
  BY <1>1, <1>2, <1>3, <1>4, <1>5, <1>6, <1>7, <1>8, <1>9, <1>10, <1>11, <1>12, <1>13,
     <1>14, <1>15, <1>16, <1>17 DEF Handler

LEMMA NextAlarms == Types /\ Alarms /\ [Next]_vars => Alarms'
<1> SUFFICES ASSUME Types, Alarms, [Next]_vars PROVE Alarms'
  OBVIOUS
<1>1. ASSUME NEW c \in Clients, Handler(c) PROVE Alarms'
  BY <1>1, HandlerAlarms
<1>2. ASSUME NEW c \in Clients, NEW k \in Sent, Send(c, k) PROVE Alarms'
  <2>1. First(k) \in States \ {"storing"}
    BY SentAssumption DEF First, Kinds, Puts, States
  <2> QED
    BY <1>2, <2>1, Aside DEF Send, Go, alarm
<1>3. CASE UNCHANGED vars
  BY <1>3 DEF vars, alarm, Alarms, AlertTypes, InHand, InOrder, Increasing, Younger,
              AllBelow, Posted, Room
<1> QED
  BY <1>1, <1>2, <1>3 DEF Next

LEMMA AlarmsHold == Spec => []Alarms
<1>1. IInv => Types
  BY DEF IInv, Control
<1> QED
  BY <1>1, Invariant, InitAlarms, NextAlarms, PTL DEF Spec

-------------------------------------------------------------------------------
(* Theorems.                                                               *)

LEMMA BufferSpan ==
    ASSUME Alarms PROVE \E oldest \in 0 .. alertseq :
        /\ DOMAIN alerts = oldest .. alertseq - 1
        /\ Cardinality(DOMAIN alerts) = alertseq - oldest
        /\ alertseq \in Nat
        /\ oldest = 0 \/ alertseq - oldest >= BufferSize
<1>1. PICK oldest \in 0 .. alertseq : /\ DOMAIN alerts = oldest .. alertseq - 1
                                      /\ oldest = 0 \/ alertseq - oldest >= BufferSize
  BY DEF Alarms, Room
<1>2. alertseq \in Nat
  BY DEF Alarms, AlertTypes
<1>3. Cardinality(oldest .. alertseq - 1) =
         IF oldest > alertseq - 1 THEN 0 ELSE alertseq - 1 - oldest + 1
  BY <1>2, FS_Interval
<1> QED
  BY <1>1, <1>2, <1>3

(* However GETs and steps overlap, the ids of the buffer are consecutive up *)
(* to the next one, a later id is of a later alert, and what is still on    *)
(* its way comes after all of them.                                         *)
THEOREM OneOrder == Spec => []AlertsInOrder
<1>1. ASSUME Alarms PROVE AlertsInOrder
  <2> DEFINE n      == Cardinality(DOMAIN alerts)
             behind == {fifo[i] : i \in DOMAIN fifo} \cup
                       UNION {{moving[c][i] : i \in DOMAIN moving[c]} : c \in Clients}
  <2>1. DOMAIN alerts = alertseq - n .. alertseq - 1
    BY <1>1, BufferSpan
  <2>2. \A i, j \in DOMAIN alerts : i < j => alerts[i] < alerts[j]
    BY <1>1 DEF Alarms, InOrder, Increasing
  <2>3. \A i \in DOMAIN alerts : \A a \in behind : alerts[i] < a
    BY <1>1 DEF Alarms, Younger, AllBelow
  <2> QED
    BY <2>1, <2>2, <2>3 DEF AlertsInOrder
<1> QED
  BY <1>1, AlarmsHold, PTL

(* The buffer holds all alerts stored so far, or at least as many as it has *)
(* room for: none is erased for fewer new ones.                             *)
THEOREM BufferFull == Spec => []NoneDroppedEarly
<1>1. ASSUME Alarms PROVE NoneDroppedEarly
  BY <1>1, BufferSpan, SizesAssumption DEF NoneDroppedEarly
<1> QED
  BY <1>1, AlarmsHold, PTL

-------------------------------------------------------------------------------
(* That every request is answered (EveryRequestAnswered) rests on two facts *)
(* about the handlers, true of any clients and subjects: a handler has only *)
(* so many steps before it, whatever the others do; and when it waits for a *)
(* lock, it does so for a handler that can go on, or for one that waits for *)
(* one that can.  No circle of handlers waits on each other.               *)

(* The most steps a handler has before it.                                  *)
StepsFrom(where, entries) ==
    CASE where = "idle"                -> 0
      [] where = "reply"               -> 1
      [] where \in {"bump", "read"}    -> 2
      [] where \in {"stepping", "call", "storing"} -> 3
      [] where \in {"step", "drain"}   -> 4
      [] where = "next"                -> 5 + Cardinality(entries)
      [] where = "stamp"               -> 6 + Cardinality(entries)
      [] where = "lock"                -> 7 + Cardinality(Subjects)

StepsLeft(c) == StepsFrom(at[c], todo[c])

HandlersCountDown ==
    [][\A c \in Clients :
          /\ Handler(c) => StepsLeft(c)' < StepsLeft(c)
          /\ at[c] # "idle" /\ ~Handler(c) => StepsLeft(c)' = StepsLeft(c)]_vars

(* What a handler can do next without an error of its request: the guards   *)
(* of its step other than Refuse, CallThrows, PassOver, WrongLength and     *)
(* Abandon.                                                                *)
CanGo(c) ==
    \/ at[c] \in {"storing", "step", "stepping", "bump", "reply"}
    \/ at[c] \in {"drain", "call", "stamp"} /\ apiLock = Nobody
    \/ at[c] = "read" /\ (kind[c] = "alerts" => apiLock = Nobody)
    \/ at[c] = "next" /\ (todo[c] # {} => apiLock = Nobody)
    \/ at[c] = "lock" /\ stepLock = Nobody

WaitsFor(c, d) ==
    \/ at[c] \in {"drain", "call", "stamp", "read", "next"} /\ apiLock = d
    \/ at[c] = "lock" /\ stepLock = d

LocksInOrder ==
    \A c \in Clients : at[c] # "idle" =>
        \/ CanGo(c)
        \/ \E d \in Clients : /\ WaitsFor(c, d)
                              /\ \/ CanGo(d)
                                 \/ \E e \in Clients : WaitsFor(d, e) /\ CanGo(e)

(* The handler that has instance_api_lock waits for nothing.                *)
ApiHeld == /\ apiLock \in Clients \cup {Nobody}
           /\ \A c \in Clients : apiLock = c => at[c] \in {"storing", "bump"}

Entries == todo \in [Clients -> SUBSET Subjects]

LEMMA EntriesCounted ==
    ASSUME NEW entries \in SUBSET Subjects
    PROVE  /\ Cardinality(entries) \in Nat /\ Cardinality(Subjects) \in Nat
           /\ Cardinality(entries) <= Cardinality(Subjects)
           /\ \A s \in entries : Cardinality(entries \ {s}) = Cardinality(entries) - 1
BY SubjectsAssumption, FS_Subset, FS_CardinalityType, FS_RemoveElement

(* What a step of a handler leaves of what the others have, and the lock of *)
(* the engine: it takes or releases it for itself.                         *)
Goes(c) ==
    /\ \E where \in States : at' = [at EXCEPT ![c] = where]
    /\ Entries'
    /\ \A d \in Clients \ {c} : todo'[d] = todo[d]
    /\ apiLock' \in {apiLock, c, Nobody}
    /\ apiLock' = c => at'[c] \in {"storing", "bump"}
    /\ StepsLeft(c)' < StepsLeft(c)

LEMMA CallGoes ==
    ASSUME Types, Entries, ApiHeld, NEW c \in Clients,
           \/ Refuse(c) \/ SetTime(c) \/ Set(c) \/ CallThrows(c) \/ UpdateSeq(c)
           \/ \E s \in Subjects : SetSample(c, s)
    PROVE  Goes(c)
<1>1. CASE Refuse(c)
  <2>1. at[c] \in {"call", "lock"} /\ at' = [at EXCEPT ![c] = "reply"] /\ todo' = todo
    BY <1>1, NobodyAssumption DEF Refuse, First, Puts, Go, timestep
  <2>2. apiLock' = apiLock /\ apiLock # c
    BY <1>1, <2>1 DEF Refuse, ApiHeld
  <2> QED
    BY <2>1, <2>2, EntriesCounted DEF Goes, Types, States, Entries, StepsLeft, StepsFrom
<1>2. CASE SetTime(c) \/ CallThrows(c)
  <2>1. /\ at[c] = "call" /\ at' = [at EXCEPT ![c] = "reply"] /\ todo' = todo
        /\ apiLock' = apiLock /\ apiLock = Nobody
    BY <1>2 DEF SetTime, CallThrows, Go, timestep
  <2> QED
    BY <2>1, NobodyAssumption DEF Goes, Types, States, Entries, StepsLeft, StepsFrom
<1>3. CASE Set(c) \/ \E s \in Subjects : SetSample(c, s)
  <2>1. /\ at[c] = "call" /\ at' = [at EXCEPT ![c] = "bump"] /\ todo' = todo
        /\ apiLock' = c
    BY <1>3 DEF Set, SetSample, Go, timestep
  <2> QED
    BY <2>1 DEF Goes, Types, States, Entries, StepsLeft, StepsFrom
<1>4. CASE UpdateSeq(c)
  <2>1. /\ at[c] = "bump" /\ at' = [at EXCEPT ![c] = "reply"] /\ todo' = todo
        /\ apiLock' \in {apiLock, Nobody} /\ apiLock' # c
    BY <1>4, NobodyAssumption DEF UpdateSeq, Go
  <2> QED
    BY <2>1 DEF Goes, Types, States, Entries, StepsLeft, StepsFrom
<1> QED
  BY <1>1, <1>2, <1>3, <1>4

LEMMA GetGoes ==
    ASSUME Types, Entries, ApiHeld, NEW c \in Clients,
           TakeAlerts(c) \/ StoreAlerts(c) \/ Read(c) \/ Reply(c)
    PROVE  Goes(c)
<1>1. CASE TakeAlerts(c)
  <2>1. /\ at[c] = "drain" /\ at' = [at EXCEPT ![c] = "storing"] /\ todo' = todo
        /\ apiLock' = c
    BY <1>1 DEF TakeAlerts, Go, timestep
  <2> QED
    BY <2>1 DEF Goes, Types, States, Entries, StepsLeft, StepsFrom
<1>2. CASE StoreAlerts(c)
  <2>1. /\ at[c] = "storing" /\ at' = [at EXCEPT ![c] = "read"] /\ todo' = todo
        /\ apiLock' = Nobody
    BY <1>2 DEF StoreAlerts, Go, timestep
  <2> QED
    BY <2>1, NobodyAssumption DEF Goes, Types, States, Entries, StepsLeft, StepsFrom
<1>3. CASE Read(c)
  <2>1. at[c] = "read" /\ at' = [at EXCEPT ![c] = "reply"] /\ todo' = todo
    BY <1>3 DEF Read, Go, timestep
  <2>2. apiLock' = apiLock /\ apiLock # c
    BY <1>3, <2>1 DEF Read, ApiHeld
  <2> QED
    BY <2>1, <2>2 DEF Goes, Types, States, Entries, StepsLeft, StepsFrom
<1>4. CASE Reply(c)
  <2>1. at[c] = "reply" /\ at' = [at EXCEPT ![c] = "idle"] /\ todo' = [todo EXCEPT ![c] = {}]
    BY <1>4 DEF Reply, Forget, Go
  <2>2. apiLock' = apiLock /\ apiLock # c
    BY <1>4, <2>1 DEF Reply, ApiHeld
  <2> QED
    BY <2>1, <2>2 DEF Goes, Types, States, Entries, StepsLeft, StepsFrom
<1> QED
  BY <1>1, <1>2, <1>3, <1>4

LEMMA TimestepGoes ==
    ASSUME Types, Entries, ApiHeld, NEW c \in Clients,
           \/ \E named \in SUBSET Subjects : Lock(c, named)
           \/ \E s \in Subjects : GiveInputs(c, s) \/ PassOver(c, s) \/ WrongLength(c, s)
           \/ Stamp(c) \/ Abandon(c) \/ EndOfValues(c) \/ BeginStep(c)
           \/ \E new \in 0 .. MaxPosts : EndStep(c, new)
    PROVE  Goes(c)
<1>0. apiLock' = apiLock /\ at[c] \notin {"storing", "bump"} /\ apiLock # c
  <2>1. at[c] \in {"lock", "next", "stamp", "step", "stepping"}
    BY DEF Lock, GiveInputs, PassOver, WrongLength, TakeEntry, Stamp, Abandon, EndOfValues,
           BeginStep, EndStep
  <2>2. apiLock' = apiLock
    BY DEF Lock, GiveInputs, PassOver, WrongLength, Stamp, Abandon, EndOfValues, BeginStep, EndStep
  <2> QED
    BY <2>1, <2>2 DEF ApiHeld
<1>t. todo[c] \in SUBSET Subjects
  BY DEF Entries
<1>1. ASSUME NEW named \in SUBSET Subjects, Lock(c, named) PROVE Goes(c)
  <2>1. at[c] = "lock" /\ at' = [at EXCEPT ![c] = "stamp"] /\ todo' = [todo EXCEPT ![c] = named]
    BY <1>1 DEF Lock, Go
  <2> QED
    BY <1>0, <2>1, EntriesCounted DEF Goes, Types, States, Entries, StepsLeft, StepsFrom
<1>2. ASSUME NEW s \in Subjects, GiveInputs(c, s) \/ PassOver(c, s) \/ WrongLength(c, s)
      PROVE  Goes(c)
  <2>1. /\ at[c] = "next" /\ at' = at /\ s \in todo[c]
        /\ todo' = [todo EXCEPT ![c] = todo[c] \ {s}]
    BY <1>2 DEF GiveInputs, PassOver, WrongLength, TakeEntry
  <2>2. at' = [at EXCEPT ![c] = "next"]
    BY <2>1 DEF Types
  <2>3. Cardinality(todo'[c]) < Cardinality(todo[c]) /\ Cardinality(todo'[c]) \in Nat
        /\ Cardinality(todo[c]) \in Nat
    <3>1. todo'[c] = todo[c] \ {s} /\ todo'[c] \in SUBSET Subjects
      BY <1>t, <2>1 DEF Entries
    <3> QED
      BY <1>t, <2>1, <3>1, EntriesCounted
  <2> QED
    BY <1>0, <2>1, <2>2, <2>3 DEF Goes, Types, States, Entries, StepsLeft, StepsFrom
<1>3. CASE Stamp(c)
  <2>1. at[c] = "stamp" /\ at' = [at EXCEPT ![c] = "next"] /\ todo' = todo
    BY <1>3 DEF Stamp, Go, timestep
  <2> QED
    BY <1>0, <1>t, <2>1, EntriesCounted DEF Goes, Types, States, Entries, StepsLeft, StepsFrom
<1>4. CASE Abandon(c)
  <2>1. at[c] = "next"
    BY <1>4 DEF Abandon
  <2>2. \/ at' = [at EXCEPT ![c] = "reply"] /\ todo' = todo
        \/ at' = [at EXCEPT ![c] = "idle"] /\ todo' = [todo EXCEPT ![c] = {}]
    BY <1>4 DEF Abandon, Forget, Go
  <2> QED
    BY <1>0, <1>t, <2>1, <2>2, EntriesCounted
    DEF Goes, Types, States, Entries, StepsLeft, StepsFrom
<1>5. CASE EndOfValues(c)
  <2>1. /\ at[c] = "next" /\ todo' = todo
        /\ \/ at' = [at EXCEPT ![c] = "step"]
           \/ at' = [at EXCEPT ![c] = "reply"]
    BY <1>5 DEF EndOfValues, Go
  <2> QED
    BY <1>0, <1>t, <2>1, EntriesCounted DEF Goes, Types, States, Entries, StepsLeft, StepsFrom
<1>6. CASE BeginStep(c)
  <2>1. at[c] = "step" /\ at' = [at EXCEPT ![c] = "stepping"] /\ todo' = todo
    BY <1>6 DEF BeginStep, Go, timestep
  <2> QED
    BY <1>0, <2>1 DEF Goes, Types, States, Entries, StepsLeft, StepsFrom
<1>7. ASSUME NEW new \in 0 .. MaxPosts, EndStep(c, new) PROVE Goes(c)
  <2>1. at[c] = "stepping" /\ at' = [at EXCEPT ![c] = "bump"] /\ todo' = todo
    BY <1>7 DEF EndStep, Go, timestep
  <2> QED
    BY <1>0, <2>1 DEF Goes, Types, States, Entries, StepsLeft, StepsFrom
<1> QED
  BY <1>1, <1>2, <1>3, <1>4, <1>5, <1>6, <1>7

LEMMA HandlerGoes ==
    ASSUME Types, Entries, ApiHeld, NEW c \in Clients, Handler(c)
    PROVE  Goes(c)
BY CallGoes, GetGoes, TimestepGoes DEF Handler

(* A request comes to a handler that is idle.                               *)
LEMMA SendGoes ==
    ASSUME Types, Entries, ApiHeld, NEW c \in Clients, NEW k \in Sent, Send(c, k)
    PROVE  /\ at[c] = "idle" /\ todo' = todo /\ apiLock' = apiLock /\ apiLock # c
           /\ \A d \in Clients \ {c} : at'[d] = at[d]
BY DEF Send, Go, timestep, Types, ApiHeld

LEMMA NextHeld == Types /\ Entries /\ ApiHeld /\ [Next]_vars => (Entries /\ ApiHeld)'
<1> SUFFICES ASSUME Types, Entries, ApiHeld, [Next]_vars PROVE Entries' /\ ApiHeld'
  OBVIOUS
<1>1. ASSUME NEW c \in Clients, Handler(c) PROVE Entries' /\ ApiHeld'
  <2>1. Goes(c)
    BY <1>1, HandlerGoes
  <2> QED
    BY <2>1, NobodyAssumption DEF Goes, ApiHeld, Types
<1>2. ASSUME NEW c \in Clients, NEW k \in Sent, Send(c, k) PROVE Entries' /\ ApiHeld'
  <2>1. /\ at[c] = "idle" /\ todo' = todo /\ apiLock' = apiLock /\ apiLock # c
        /\ \A d \in Clients \ {c} : at'[d] = at[d]
    BY <1>2, SendGoes
  <2> QED
    BY <2>1 DEF ApiHeld, Entries
<1>3. CASE UNCHANGED vars
  BY <1>3 DEF vars, timestep, Entries, ApiHeld
<1> QED
  BY <1>1, <1>2, <1>3 DEF Next

LEMMA HeldHolds == Spec => [](Entries /\ ApiHeld)
<1>1. Init => Entries /\ ApiHeld
  BY NobodyAssumption DEF Init, Entries, ApiHeld
<1>2. IInv => Types
  BY DEF IInv, Control
<1> QED
  BY <1>1, <1>2, NextHeld, Invariant, PTL DEF Spec

(* Every step of a handler brings it nearer to its reply, and no step of     *)
(* another takes it away from there: whatever its request and its errors,    *)
(* it ends after at most 7 steps and one for each subject.                 *)
THEOREM EachHandlerEnds == Spec => HandlersCountDown
<1> DEFINE A == \A c \in Clients :
                   /\ Handler(c) => StepsLeft(c)' < StepsLeft(c)
                   /\ at[c] # "idle" /\ ~Handler(c) => StepsLeft(c)' = StepsLeft(c)
<1>1. IInv /\ Entries /\ ApiHeld /\ [Next]_vars => [A]_vars
  <2> SUFFICES ASSUME Types, Entries, ApiHeld, Next, NEW c \in Clients
               PROVE  /\ Handler(c) => StepsLeft(c)' < StepsLeft(c)
                      /\ at[c] # "idle" /\ ~Handler(c) => StepsLeft(c)' = StepsLeft(c)
    BY DEF IInv, Control
  <2>1. Handler(c) => StepsLeft(c)' < StepsLeft(c)
    BY HandlerGoes DEF Goes
  <2>2. ASSUME at[c] # "idle", ~Handler(c) PROVE StepsLeft(c)' = StepsLeft(c)
    <3>1. PICK d \in Clients : Handler(d) \/ \E k \in Sent : Send(d, k)
      BY DEF Next
    <3>2. d # c /\ at'[c] = at[c] /\ todo'[c] = todo[c]
      BY <2>2, <3>1, HandlerGoes, SendGoes DEF Goes, Types
    <3> QED
      BY <3>2 DEF StepsLeft
  <2> QED
    BY <2>1, <2>2
<1>2. Spec => [][A]_vars
  BY <1>1, Invariant, HeldHolds, PTL DEF Spec
<1> QED
  BY <1>2 DEF HandlersCountDown

(* instance_api_lock and instance_sampletimestep_lock: whichever requests    *)
(* are under way, no set of handlers waits on each other; a handler waits    *)
(* for one that can go on, or for a sampletimestep that waits for one.     *)
THEOREM NoDeadlock == Spec => []LocksInOrder
<1>1. ASSUME Types, LockHeld, Entries, ApiHeld PROVE LocksInOrder
  <2> SUFFICES ASSUME NEW c \in Clients, at[c] # "idle", ~CanGo(c)
               PROVE  \E d \in Clients : /\ WaitsFor(c, d)
                                         /\ \/ CanGo(d)
                                            \/ \E e \in Clients : WaitsFor(d, e) /\ CanGo(e)
    BY DEF LocksInOrder
  <2>1. ASSUME NEW d \in Clients, at[d] \in {"drain", "call", "stamp", "read", "next"}, ~CanGo(d)
        PROVE  /\ apiLock \in Clients /\ WaitsFor(d, apiLock) /\ CanGo(apiLock)
    BY <1>1, <2>1 DEF CanGo, WaitsFor, ApiHeld
  <2>2. at[c] \in {"drain", "call", "stamp", "read", "next", "lock"}
    BY <1>1 DEF Types, States, CanGo
  <2>3. CASE at[c] = "lock"
    <3>1. stepLock \in Clients /\ WaitsFor(c, stepLock) /\ InSection(stepLock)
      BY <1>1, <2>3 DEF CanGo, WaitsFor, Types, LockHeld
    <3>2. CanGo(stepLock) \/ at[stepLock] \in {"stamp", "next"}
      BY <3>1 DEF InSection, CanGo
    <3> QED
      BY <2>1, <3>1, <3>2
  <2>4. CASE at[c] # "lock"
    BY <2>1, <2>2, <2>4
  <2> QED
    BY <2>3, <2>4
<1>2. IInv => Types /\ LockHeld
  BY DEF IInv, Control
<1> QED
  BY <1>1, <1>2, Invariant, HeldHolds, PTL

-------------------------------------------------------------------------------
(* Types.  What the sections above leave open of TypeOK.                   *)

Rest == /\ sent \in 0 .. MaxRequests /\ ok \in [Clients -> BOOLEAN]
        /\ raced \subseteq Stepping
        /\ shown \in [Clients -> [seq : Nat, data : Nat]]

(* A step that a thread has had overlap another is under way.               *)
LEMMA HandlerRest ==
    ASSUME Types, Rest, NEW c \in Clients, Handler(c)
    PROVE  Rest'
<1>1. sent' = sent
  BY DEF Handler, Refuse, Reply, TakeAlerts, StoreAlerts, Read, SetTime, Set, CallThrows,
         UpdateSeq, SetSample, GiveInputs, PassOver, WrongLength, Lock, Stamp, Abandon,
         EndOfValues, BeginStep, EndStep, client
<1>2. ok' = ok \/ ok' = [ok EXCEPT ![c] = TRUE] \/ ok' = [ok EXCEPT ![c] = FALSE]
  BY DEF Handler, Refuse, Reply, TakeAlerts, StoreAlerts, Read, SetTime, Set, CallThrows,
         UpdateSeq, SetSample, GiveInputs, PassOver, WrongLength, Lock, Stamp, Abandon,
         EndOfValues, BeginStep, EndStep, Forget, timestep
<1>3. shown' = shown \/ (seq \in Nat /\ data[c] \in Nat
                         /\ \/ shown' = [shown EXCEPT ![c] = [seq |-> seq, data |-> data[c]]]
                            \/ shown' = [shown EXCEPT ![c] = @])
  BY DEF Handler, Refuse, Reply, TakeAlerts, StoreAlerts, Read, SetTime, Set, CallThrows,
         UpdateSeq, SetSample, GiveInputs, PassOver, WrongLength, Lock, Stamp, Abandon,
         EndOfValues, BeginStep, EndStep, client, Types
<1>4. raced' \subseteq Stepping'
  <2>1. CASE at[c] = "stepping"
    <3>1. PICK new : EndStep(c, new)
      BY <2>1 DEF Handler, Refuse, First, Puts, Reply, TakeAlerts, StoreAlerts, Read, SetTime, Set,
                  CallThrows, UpdateSeq, SetSample, GiveInputs, PassOver, WrongLength, TakeEntry,
                  Lock, Stamp, Abandon, EndOfValues, BeginStep
    <3> QED
      BY <3>1 DEF EndStep, Go, Types, Rest, Stepping
  <2>2. CASE BeginStep(c)
    BY <2>2 DEF BeginStep, Go, Types, Rest, Stepping
  <2>3. CASE TakeAlerts(c)
    BY <2>3 DEF TakeAlerts, Go, Types, Rest, Stepping
  <2>4. CASE at[c] # "stepping" /\ ~BeginStep(c) /\ ~TakeAlerts(c)
    <3>1. raced' = raced
      BY <2>4 DEF Handler, Refuse, Reply, StoreAlerts, Read, SetTime, Set, CallThrows,
                  UpdateSeq, SetSample, GiveInputs, PassOver, WrongLength, Lock, Stamp, Abandon,
                  EndOfValues, EndStep, alarm
    <3>2. \E where : at' = [at EXCEPT ![c] = where]
      BY DEF Handler, Refuse, Reply, TakeAlerts, StoreAlerts, Read, SetTime, Set, CallThrows,
             UpdateSeq, SetSample, GiveInputs, PassOver, WrongLength, Lock, Stamp, Abandon,
             EndOfValues, BeginStep, EndStep, Go, Forget, Types
    <3> QED
      BY <2>4, <3>1, <3>2 DEF Types, Rest, Stepping
  <2> QED
    BY <2>1, <2>2, <2>3, <2>4
<1>5. ok' \in [Clients -> BOOLEAN]
  BY <1>2 DEF Rest
<1>6. shown' \in [Clients -> [seq : Nat, data : Nat]]
  BY <1>3 DEF Rest
<1> QED
  BY <1>1, <1>4, <1>5, <1>6 DEF Rest

LEMMA NextRest == Types /\ Rest /\ [Next]_vars => Rest'
<1> SUFFICES ASSUME Types, Rest, [Next]_vars PROVE Rest'
  OBVIOUS
<1>1. ASSUME NEW c \in Clients, NEW k \in Sent, Send(c, k) PROVE Rest'
  <2>1. sent' \in 0 .. MaxRequests
    BY <1>1, SizesAssumption DEF Send, Rest
  <2>2. Stepping' = Stepping /\ raced' = raced
    <3>1. at[c] = "idle" /\ at' = [at EXCEPT ![c] = First(k)] /\ First(k) # "stepping"
      BY <1>1, SentAssumption DEF Send, Go, First, Kinds, Puts
    <3> QED
      BY <1>1, <3>1 DEF Send, alarm, Types, Stepping
  <2> QED
    BY <1>1, <2>1, <2>2 DEF Send, Rest, timestep
<1>2. CASE UNCHANGED vars
  BY <1>2 DEF vars, timestep, alarm, client, Rest, Stepping
<1> QED
  BY <1>1, <1>2, HandlerRest DEF Next

(* Every reachable state of the REST server is well typed: in particular     *)
(* each handler is in one of the states above, each lock free or a client's, *)
(* and only steps under way are marked as overlapped.                      *)
THEOREM RestTypes == Spec => []TypeOK
<1>1. Init => Rest
  BY SizesAssumption DEF Init, Rest
<1>2. IInv => Types
  BY DEF IInv, Control
<1>3. Spec => []Rest
  BY <1>1, <1>2, NextRest, Invariant, PTL DEF Spec
<1>4. Types /\ Alarms /\ Entries /\ ApiHeld /\ Rest => TypeOK
  <2> SUFFICES ASSUME Types, Alarms, Entries, ApiHeld, Rest PROVE TypeOK
    OBVIOUS
  <2>1. DOMAIN alerts \subseteq Nat /\ alertseq \in Nat
    BY DEF Alarms, AlertTypes, Room
  <2> QED
    BY <2>1 DEF Types, Alarms, AlertTypes, Entries, ApiHeld, Rest, TypeOK
<1> QED
  BY <1>2, <1>3, <1>4, Invariant, AlarmsHold, HeldHolds, PTL

-------------------------------------------------------------------------------
(* The jobs of the pool and the requests they belong to.                   *)

Jobs == {Handle(c) : c \in Clients} \cup {Wait(c) : c \in Clients}

JobsMatch ==
    /\ \A i \in DOMAIN pool :
          /\ pool[i].what = "handle" => handler[pool[i].client] \in {"askwait", "askchange"}
          /\ pool[i].what = "wait" => task[pool[i].client] = "queued"
    /\ \A i, j \in DOMAIN pool : pool[i] = pool[j] => i = j

BlockedOnTask == \A c \in Clients : task[c] # "none" <=> handler[c] = "blocked"

Changing == {c \in Clients : handler[c] \in {"askchange", "changing"}}

CountedChanges == seq + Cardinality(Changing) <= MaxSeq

WaitInv == WaitTypeOK /\ NoLostWakeup /\ JobsMatch /\ BlockedOnTask /\ CountedChanges

-------------------------------------------------------------------------------
(* Lemmas about the pool and the count of changes.                         *)

LEMMA ChangingFinite == IsFiniteSet(Changing) /\ Cardinality(Changing) \in Nat
BY ClientsAssumption, FS_Subset, FS_CardinalityType DEF Changing

(* What is in a pool after a job has been put in, and after one has been    *)
(* taken out.                                                               *)
LEMMA AppendedJob ==
    ASSUME NEW q \in Seq(Jobs), NEW job \in Jobs
    PROVE  /\ Append(q, job) \in Seq(Jobs)
           /\ DOMAIN Append(q, job) = DOMAIN q \cup {Len(q) + 1}
           /\ Len(q) + 1 \notin DOMAIN q
           /\ \A i \in DOMAIN q : Append(q, job)[i] = q[i]
           /\ Append(q, job)[Len(q) + 1] = job
OBVIOUS

LEMMA TakenJob ==
    ASSUME NEW q \in Seq(Jobs), q # <<>>
    PROVE  /\ Tail(q) \in Seq(Jobs)
           /\ Head(q) = q[1] /\ Head(q) \in Jobs /\ 1 \in DOMAIN q
           /\ \A i \in DOMAIN Tail(q) :
                 /\ i + 1 \in DOMAIN q /\ i + 1 # 1
                 /\ Tail(q)[i] = q[i + 1] /\ Tail(q)[i] \in Jobs
           /\ \A i, j \in DOMAIN Tail(q) : i + 1 = j + 1 => i = j
<1>1. Len(q) \in Nat /\ Len(q) # 0 /\ DOMAIN q = 1 .. Len(q)
  OBVIOUS
<1>2. Tail(q) \in Seq(Jobs) /\ Len(Tail(q)) = Len(q) - 1
  OBVIOUS
<1>3. DOMAIN Tail(q) = 1 .. Len(q) - 1
  BY <1>1, <1>2
<1>4. Head(q) = q[1] /\ 1 \in DOMAIN q /\ q[1] \in Jobs
  BY <1>1
<1>5. ASSUME NEW i \in DOMAIN Tail(q)
      PROVE  /\ i + 1 \in DOMAIN q /\ i + 1 # 1
             /\ Tail(q)[i] = q[i + 1] /\ Tail(q)[i] \in Jobs
  BY <1>1, <1>2, <1>3
<1>6. \A i, j \in DOMAIN Tail(q) : i + 1 = j + 1 => i = j
  BY <1>1, <1>3
<1> QED
  BY <1>2, <1>4, <1>5, <1>6

LEMMA JobForms ==
    ASSUME NEW job \in Jobs
    PROVE  /\ job.client \in Clients /\ job.what \in {"handle", "wait"}
           /\ job.what = "handle" => job = Handle(job.client)
           /\ job.what = "wait" => job = Wait(job.client)
BY DEF Jobs, Handle, Wait

-------------------------------------------------------------------------------
(* Every step keeps the invariant.                                         *)

LEMMA InitWaitInv == InitWait => WaitInv
<1> SUFFICES ASSUME InitWait PROVE WaitInv
  OBVIOUS
<1>1. WaitTypeOK
  BY PoolAssumption DEF InitWait, WaitTypeOK, Sleeping
<1>2. NoLostWakeup /\ JobsMatch /\ BlockedOnTask
  BY DEF InitWait, NoLostWakeup, Sleeping, JobsMatch, BlockedOnTask
<1>3. Changing = {}
  BY DEF InitWait, Changing
<1>4. CountedChanges
  BY <1>3, FS_EmptySet, PoolAssumption DEF InitWait, CountedChanges
<1> QED
  BY <1>1, <1>2, <1>4 DEF WaitInv

LEMMA RequestWaitInv ==
    ASSUME WaitInv, NEW c \in Clients, NEW what \in {"askwait", "askchange"}, Request(c, what),
           what = "askchange" => seq + Changes < MaxSeq
    PROVE  WaitInv'
<1>0. /\ handler[c] = "none" /\ handler' = [handler EXCEPT ![c] = what]
      /\ pool' = Append(pool, Handle(c))
      /\ UNCHANGED <<seq, task, oldseq, notified>>
      /\ pool \in Seq(Jobs) /\ Handle(c) \in Jobs
      /\ handler \in [Clients -> {"none", "askwait", "askchange", "waiting", "blocked",
                                  "changing", "notifying"}]
  BY DEF Request, WaitInv, WaitTypeOK, Jobs
<1>1. /\ handler'[c] = what
      /\ \A d \in Clients : d # c => handler'[d] = handler[d]
  BY <1>0
<1>2. WaitTypeOK'
  BY <1>0, AppendedJob DEF WaitInv, WaitTypeOK, Jobs, Sleeping
<1>3. NoLostWakeup'
  BY <1>0, <1>1 DEF WaitInv, NoLostWakeup, Sleeping
<1>4. BlockedOnTask'
  BY <1>0, <1>1 DEF WaitInv, BlockedOnTask
<1>5. JobsMatch'
  <2>1. \A i \in DOMAIN pool : pool[i] \in Jobs /\ pool[i] # Handle(c)
    BY <1>0, JobForms DEF WaitInv, JobsMatch, Handle
  <2>2. \A i \in DOMAIN pool : pool[i].what = "handle" => pool[i].client # c
    BY <2>1, JobForms
  <2>3. Handle(c).what = "handle" /\ Handle(c).client = c
    BY DEF Handle
  <2>4. /\ DOMAIN pool' = DOMAIN pool \cup {Len(pool) + 1}
        /\ \A i \in DOMAIN pool : pool'[i] = pool[i]
        /\ pool'[Len(pool) + 1] = Handle(c)
    BY <1>0, AppendedJob
  <2>5. ASSUME NEW i \in DOMAIN pool'
        PROVE  /\ pool'[i].what = "handle"
                    => handler'[pool'[i].client] \in {"askwait", "askchange"}
               /\ pool'[i].what = "wait" => task'[pool'[i].client] = "queued"
    <3>1. CASE i = Len(pool) + 1
      BY <3>1, <2>3, <2>4, <1>1
    <3>2. CASE i \in DOMAIN pool
      <4>1. pool'[i] = pool[i] /\ pool[i].client \in Clients
        BY <3>2, <2>1, <2>4, JobForms
      <4> QED
        BY <3>2, <4>1, <2>2, <1>0, <1>1 DEF WaitInv, JobsMatch
    <3> QED
      BY <3>1, <3>2, <2>4
  <2>6. \A i, j \in DOMAIN pool' : pool'[i] = pool'[j] => i = j
    BY <2>1, <2>4 DEF WaitInv, JobsMatch
  <2> QED
    BY <2>5, <2>6 DEF JobsMatch
<1>6. CountedChanges'
  <2>1. CASE what = "askwait"
    <3>1. Changing' = Changing
      BY <2>1, <1>0, <1>1 DEF Changing
    <3> QED
      BY <3>1, <1>0 DEF WaitInv, CountedChanges
  <2>2. CASE what = "askchange"
    <3>1. Changing' = Changing \cup {c} /\ c \notin Changing
      BY <2>2, <1>0, <1>1 DEF Changing
    <3>2. Cardinality(Changing') = Cardinality(Changing) + 1
      BY <3>1, ChangingFinite, FS_AddElement
    <3>3. seq + Cardinality(Changing) < MaxSeq
      BY <2>2 DEF Changes, Changing
    <3> QED
      BY <3>2, <3>3, <1>0, ChangingFinite, PoolAssumption DEF WaitInv, WaitTypeOK, CountedChanges
  <2> QED
    BY <2>1, <2>2
<1> QED
  BY <1>2, <1>3, <1>4, <1>5, <1>6 DEF WaitInv

LEMMA DispatchWaitInv == WaitInv /\ Dispatch => WaitInv'
<1> SUFFICES ASSUME WaitInv, Dispatch PROVE WaitInv'
  OBVIOUS
<1> DEFINE job == Head(pool)
           c   == job.client
<1>0. /\ pool \in Seq(Jobs) /\ pool # <<>> /\ pool' = Tail(pool)
      /\ UNCHANGED <<seq, oldseq, notified>>
      /\ handler \in [Clients -> {"none", "askwait", "askchange", "waiting", "blocked",
                                  "changing", "notifying"}]
      /\ task \in [Clients -> {"none", "queued", "checking", "sleeping", "changed", "timedout"}]
  BY DEF Dispatch, WaitInv, WaitTypeOK, Jobs
<1>1. /\ job = pool[1] /\ job \in Jobs /\ 1 \in DOMAIN pool
      /\ c \in Clients /\ job.what \in {"handle", "wait"}
      /\ job.what = "handle" => job = Handle(c)
      /\ job.what = "wait" => job = Wait(c)
  BY <1>0, TakenJob, JobForms
(* The jobs left are other jobs, where they were. *)
<1>2. ASSUME NEW i \in DOMAIN pool'
      PROVE  /\ i + 1 \in DOMAIN pool /\ pool'[i] = pool[i + 1] /\ pool'[i] \in Jobs
             /\ pool'[i] # job
  BY <1>0, <1>1, TakenJob DEF WaitInv, JobsMatch
<1>3. \A i, j \in DOMAIN pool' : pool'[i] = pool'[j] => i = j
  <2>1. \A i, j \in DOMAIN pool' : i + 1 = j + 1 => i = j
    BY <1>0, TakenJob
  <2> QED
    BY <2>1, <1>2 DEF WaitInv, JobsMatch
<1>4. pool' \in Seq(Jobs)
  BY <1>0, TakenJob
<1> HIDE DEF job, c
<1>5. CASE job.what = "wait"
  <2>1. /\ task' = [task EXCEPT ![c] = "checking"] /\ handler' = handler
        /\ task[c] = "queued"
    BY <1>0, <1>1, <1>5 DEF Dispatch, WaitInv, JobsMatch, job, c
  <2>2. /\ task'[c] = "checking" /\ \A d \in Clients : d # c => task'[d] = task[d]
        /\ task' \in [Clients -> {"none", "queued", "checking", "sleeping", "changed",
                                  "timedout"}]
    BY <2>1, <1>0, <1>1
  <2>3. Sleeping' = Sleeping
    BY <2>1, <2>2, <1>1 DEF Sleeping
  <2>4. WaitTypeOK'
    BY <1>0, <1>4, <2>1, <2>2, <2>3 DEF WaitInv, WaitTypeOK, Jobs
  <2>5. NoLostWakeup'
    BY <1>0, <2>1, <2>3 DEF WaitInv, NoLostWakeup
  <2>6. BlockedOnTask'
    BY <2>1, <2>2, <1>1 DEF WaitInv, BlockedOnTask
  <2>7. ASSUME NEW i \in DOMAIN pool'
        PROVE  /\ pool'[i].what = "handle"
                    => handler'[pool'[i].client] \in {"askwait", "askchange"}
               /\ pool'[i].what = "wait" => task'[pool'[i].client] = "queued"
    <3>1. pool'[i].client \in Clients /\ (pool'[i].what = "wait" => pool'[i].client # c)
      BY <1>1, <1>2, <1>5, JobForms
    <3> QED
      BY <3>1, <1>2, <2>1, <2>2 DEF WaitInv, JobsMatch
  <2>8. CountedChanges'
    <3>1. Changing' = Changing
      BY <2>1 DEF Changing
    <3> QED
      BY <3>1, <1>0 DEF WaitInv, CountedChanges
  <2> QED
    BY <1>3, <2>4, <2>5, <2>6, <2>7, <2>8 DEF WaitInv, JobsMatch
<1>6. CASE job.what = "handle"
  <2>1. /\ handler' = [handler EXCEPT ![c] =
                          IF handler[c] = "askwait" THEN "waiting" ELSE "changing"]
        /\ task' = task /\ handler[c] \in {"askwait", "askchange"}
    BY <1>0, <1>1, <1>6 DEF Dispatch, WaitInv, JobsMatch, job, c
  <2>2. /\ handler'[c] = IF handler[c] = "askwait" THEN "waiting" ELSE "changing"
        /\ \A d \in Clients : d # c => handler'[d] = handler[d]
        /\ handler' \in [Clients -> {"none", "askwait", "askchange", "waiting", "blocked",
                                     "changing", "notifying"}]
    BY <2>1, <1>0, <1>1
  <2>3. WaitTypeOK'
    BY <1>0, <1>4, <2>1, <2>2 DEF WaitInv, WaitTypeOK, Jobs, Sleeping
  <2>4. NoLostWakeup'
    BY <1>0, <2>1, <2>2, <1>1 DEF WaitInv, NoLostWakeup, Sleeping
  <2>5. BlockedOnTask'
    BY <2>1, <2>2, <1>1 DEF WaitInv, BlockedOnTask
  <2>6. ASSUME NEW i \in DOMAIN pool'
        PROVE  /\ pool'[i].what = "handle"
                    => handler'[pool'[i].client] \in {"askwait", "askchange"}
               /\ pool'[i].what = "wait" => task'[pool'[i].client] = "queued"
    <3>1. pool'[i].client \in Clients /\ (pool'[i].what = "handle" => pool'[i].client # c)
      BY <1>1, <1>2, <1>6, JobForms
    <3> QED
      BY <3>1, <1>2, <2>1, <2>2 DEF WaitInv, JobsMatch
  <2>7. CountedChanges'
    <3>1. Changing' = Changing
      BY <2>1, <2>2, <1>1 DEF Changing
    <3> QED
      BY <3>1, <1>0 DEF WaitInv, CountedChanges
  <2> QED
    BY <1>3, <2>3, <2>4, <2>5, <2>6, <2>7 DEF WaitInv, JobsMatch
<1> QED
  BY <1>1, <1>5, <1>6

LEMMA CreateWaitInv == ASSUME WaitInv, NEW c \in Clients, CreateTask(c) PROVE WaitInv'
<1>0. /\ handler[c] = "waiting" /\ handler' = [handler EXCEPT ![c] = "blocked"]
      /\ task' = [task EXCEPT ![c] = "queued"] /\ pool' = Append(pool, Wait(c))
      /\ UNCHANGED <<seq, oldseq, notified>>
      /\ pool \in Seq(Jobs) /\ Wait(c) \in Jobs /\ task[c] = "none"
      /\ handler \in [Clients -> {"none", "askwait", "askchange", "waiting", "blocked",
                                  "changing", "notifying"}]
      /\ task \in [Clients -> {"none", "queued", "checking", "sleeping", "changed", "timedout"}]
  BY DEF CreateTask, WaitInv, WaitTypeOK, Jobs, BlockedOnTask
<1>1. /\ handler'[c] = "blocked" /\ \A d \in Clients : d # c => handler'[d] = handler[d]
      /\ task'[c] = "queued" /\ \A d \in Clients : d # c => task'[d] = task[d]
      /\ handler' \in [Clients -> {"none", "askwait", "askchange", "waiting", "blocked",
                                   "changing", "notifying"}]
      /\ task' \in [Clients -> {"none", "queued", "checking", "sleeping", "changed", "timedout"}]
  BY <1>0
<1>2. Sleeping' = Sleeping
  BY <1>0, <1>1 DEF Sleeping
<1>3. WaitTypeOK'
  BY <1>0, <1>1, <1>2, AppendedJob DEF WaitInv, WaitTypeOK, Jobs
<1>4. NoLostWakeup'
  BY <1>0, <1>1, <1>2 DEF WaitInv, NoLostWakeup
<1>5. BlockedOnTask'
  BY <1>0, <1>1 DEF WaitInv, BlockedOnTask
<1>6. JobsMatch'
  <2>1. \A i \in DOMAIN pool : pool[i] \in Jobs /\ pool[i] # Wait(c)
    BY <1>0, JobForms DEF WaitInv, JobsMatch, Wait
  <2>2. \A i \in DOMAIN pool :
           /\ pool[i].client \in Clients
           /\ pool[i].client # c
    <3>1. \A i \in DOMAIN pool : pool[i].what = "handle" => handler[pool[i].client] # "waiting"
      BY DEF WaitInv, JobsMatch
    <3> QED
      BY <3>1, <2>1, <1>0, JobForms
  <2>3. Wait(c).what = "wait" /\ Wait(c).client = c
    BY DEF Wait
  <2>4. /\ DOMAIN pool' = DOMAIN pool \cup {Len(pool) + 1}
        /\ \A i \in DOMAIN pool : pool'[i] = pool[i]
        /\ pool'[Len(pool) + 1] = Wait(c)
    BY <1>0, AppendedJob
  <2>5. ASSUME NEW i \in DOMAIN pool'
        PROVE  /\ pool'[i].what = "handle"
                    => handler'[pool'[i].client] \in {"askwait", "askchange"}
               /\ pool'[i].what = "wait" => task'[pool'[i].client] = "queued"
    <3>1. CASE i = Len(pool) + 1
      BY <3>1, <2>3, <2>4, <1>1
    <3>2. CASE i \in DOMAIN pool
      BY <3>2, <2>2, <2>4, <1>1 DEF WaitInv, JobsMatch
    <3> QED
      BY <3>1, <3>2, <2>4
  <2>6. \A i, j \in DOMAIN pool' : pool'[i] = pool'[j] => i = j
    BY <2>1, <2>4 DEF WaitInv, JobsMatch
  <2> QED
    BY <2>5, <2>6 DEF JobsMatch
<1>7. CountedChanges'
  <2>1. Changing' = Changing
    BY <1>0, <1>1 DEF Changing
  <2> QED
    BY <2>1, <1>0 DEF WaitInv, CountedChanges
<1> QED
  BY <1>3, <1>4, <1>5, <1>6, <1>7 DEF WaitInv

(* Check, Wake and TimeOut: a task goes on, and sleeps only on a number     *)
(* that is current.                                                         *)
LEMMA TaskWaitInv ==
    ASSUME WaitInv, NEW c \in Clients,
           NEW s \in {"sleeping", "changed", "timedout"},
           task[c] \in {"checking", "sleeping"},
           task' = [task EXCEPT ![c] = s],
           s = "sleeping" => oldseq[c] = seq,
           notified' = notified \ {c},
           UNCHANGED <<seq, pool, handler, oldseq>>
    PROVE  WaitInv'
<1>1. /\ task'[c] = s /\ \A d \in Clients : d # c => task'[d] = task[d]
      /\ task' \in [Clients -> {"none", "queued", "checking", "sleeping", "changed", "timedout"}]
  BY DEF WaitInv, WaitTypeOK
<1>2. WaitTypeOK'
  BY <1>1 DEF WaitInv, WaitTypeOK, Sleeping
<1>3. NoLostWakeup'
  BY <1>1 DEF WaitInv, NoLostWakeup, Sleeping
<1>4. BlockedOnTask'
  BY <1>1 DEF WaitInv, BlockedOnTask
<1>5. JobsMatch'
  <2>1. pool \in Seq(Jobs)
    BY DEF WaitInv, WaitTypeOK, Jobs
  <2>2. \A i \in DOMAIN pool : pool[i].client \in Clients
    BY <2>1, JobForms
  <2> QED
    BY <2>2, <1>1 DEF WaitInv, JobsMatch
<1>6. Changing' = Changing
  BY DEF Changing
<1> QED
  BY <1>2, <1>3, <1>4, <1>5, <1>6 DEF WaitInv, CountedChanges

LEMMA CheckWaitInv == ASSUME WaitInv, NEW c \in Clients, Check(c) PROVE WaitInv'
<1>1. c \notin notified
  BY DEF WaitInv, WaitTypeOK, Sleeping, Check
<1>2. notified' = notified \ {c}
  BY <1>1 DEF Check
<1> DEFINE s == IF FirstLook(c) THEN "changed" ELSE "sleeping"
<1>3. /\ s \in {"sleeping", "changed", "timedout"} /\ task[c] \in {"checking", "sleeping"}
      /\ task' = [task EXCEPT ![c] = s] /\ (s = "sleeping" => oldseq[c] = seq)
      /\ UNCHANGED <<seq, pool, handler, oldseq>>
  BY DEF Check, FirstLook, Changed
<1> HIDE DEF s
<1> QED
  BY <1>2, <1>3, TaskWaitInv

LEMMA WakeWaitInv == ASSUME WaitInv, NEW c \in Clients, Wake(c) PROVE WaitInv'
<1> DEFINE s == IF Changed(c) THEN "changed" ELSE "sleeping"
<1>1. /\ s \in {"sleeping", "changed", "timedout"} /\ task[c] \in {"checking", "sleeping"}
      /\ task' = [task EXCEPT ![c] = s] /\ (s = "sleeping" => oldseq[c] = seq)
      /\ notified' = notified \ {c} /\ UNCHANGED <<seq, pool, handler, oldseq>>
  BY DEF Wake, Changed
<1> HIDE DEF s
<1> QED
  BY <1>1, TaskWaitInv

LEMMA TimeOutWaitInv == ASSUME WaitInv, NEW c \in Clients, TimeOut(c) PROVE WaitInv'
<1> DEFINE s == TimeIsUp(c)
<1>1. /\ s \in {"sleeping", "changed", "timedout"} /\ task[c] \in {"checking", "sleeping"}
      /\ task' = [task EXCEPT ![c] = s] /\ (s = "sleeping" => oldseq[c] = seq)
      /\ notified' = notified \ {c} /\ UNCHANGED <<seq, pool, handler, oldseq>>
  BY DEF TimeOut, TimeIsUp
<1> HIDE DEF s
<1> QED
  BY <1>1, TaskWaitInv

LEMMA ReplyWaitInv == ASSUME WaitInv, NEW c \in Clients, ReplyToWait(c) PROVE WaitInv'
<1>0. /\ handler[c] = "blocked" /\ task[c] \in {"changed", "timedout"}
      /\ UNCHANGED <<seq, pool, notified>>
      /\ handler' = [handler EXCEPT ![c] = "none"] /\ task' = [task EXCEPT ![c] = "none"]
      /\ oldseq' = [oldseq EXCEPT ![c] = seq]
  BY DEF ReplyToWait
<1>1. /\ handler'[c] = "none" /\ \A d \in Clients : d # c => handler'[d] = handler[d]
      /\ task'[c] = "none" /\ \A d \in Clients : d # c => task'[d] = task[d]
      /\ \A d \in Clients : d # c => oldseq'[d] = oldseq[d]
      /\ oldseq' \in [Clients -> 0 .. MaxSeq]
      /\ handler' \in [Clients -> {"none", "askwait", "askchange", "waiting", "blocked",
                                   "changing", "notifying"}]
      /\ task' \in [Clients -> {"none", "queued", "checking", "sleeping", "changed", "timedout"}]
  BY <1>0 DEF WaitInv, WaitTypeOK
<1>2. Sleeping' = Sleeping
  BY <1>0, <1>1 DEF Sleeping
<1>3. WaitTypeOK'
  BY <1>0, <1>1, <1>2 DEF WaitInv, WaitTypeOK
<1>4. NoLostWakeup'
  BY <1>0, <1>1, <1>2 DEF WaitInv, NoLostWakeup, Sleeping
<1>5. BlockedOnTask'
  BY <1>1 DEF WaitInv, BlockedOnTask
<1>6. JobsMatch'
  <2>1. pool \in Seq(Jobs)
    BY DEF WaitInv, WaitTypeOK, Jobs
  <2>2. \A i \in DOMAIN pool : /\ pool[i].client \in Clients
                               /\ pool[i].what \in {"handle", "wait"}
    BY <2>1, JobForms
  <2>3. \A i \in DOMAIN pool : pool[i].client # c
    BY <2>2, <1>0 DEF WaitInv, JobsMatch
  <2> QED
    BY <2>2, <2>3, <1>0, <1>1 DEF WaitInv, JobsMatch
<1>7. Changing' = Changing
  BY <1>0, <1>1 DEF Changing
<1> QED
  BY <1>0, <1>3, <1>4, <1>5, <1>6, <1>7 DEF WaitInv, CountedChanges

LEMMA IncrementWaitInv == ASSUME WaitInv, NEW c \in Clients, Increment(c) PROVE WaitInv'
<1>0. /\ handler[c] = "changing" /\ handler' = [handler EXCEPT ![c] = "notifying"]
      /\ seq' = seq + 1 /\ UNCHANGED <<pool, task, oldseq, notified>>
      /\ seq \in Nat
  BY DEF Increment, WaitInv, WaitTypeOK
<1>1. /\ handler'[c] = "notifying" /\ \A d \in Clients : d # c => handler'[d] = handler[d]
      /\ handler' \in [Clients -> {"none", "askwait", "askchange", "waiting", "blocked",
                                   "changing", "notifying"}]
  BY <1>0 DEF WaitInv, WaitTypeOK
<1>2. CountedChanges'
  <2>1. Changing' = Changing \ {c} /\ c \in Changing
    BY <1>0, <1>1 DEF Changing
  <2>2. Cardinality(Changing') = Cardinality(Changing) - 1
    BY <2>1, ChangingFinite, FS_RemoveElement
  <2> QED
    BY <2>2, <1>0, ChangingFinite DEF WaitInv, CountedChanges
<1>3. seq' \in 0 .. MaxSeq
  <2>1. IsFiniteSet(Changing') /\ Cardinality(Changing') \in Nat
    BY ChangingFinite, ClientsAssumption, FS_Subset, FS_CardinalityType DEF Changing
  <2> QED
    BY <2>1, <1>0, <1>2, PoolAssumption DEF CountedChanges
<1>4. WaitTypeOK'
  BY <1>0, <1>1, <1>3 DEF WaitInv, WaitTypeOK, Sleeping
<1>5. NoLostWakeup'
  BY <1>0, <1>1 DEF NoLostWakeup
<1>6. BlockedOnTask'
  BY <1>0, <1>1 DEF WaitInv, BlockedOnTask
<1>7. JobsMatch'
  <2>1. pool \in Seq(Jobs)
    BY DEF WaitInv, WaitTypeOK, Jobs
  <2>2. \A i \in DOMAIN pool : pool[i].client \in Clients
    BY <2>1, JobForms
  <2> QED
    BY <2>2, <1>0, <1>1 DEF WaitInv, JobsMatch
<1> QED
  BY <1>2, <1>4, <1>5, <1>6, <1>7 DEF WaitInv

LEMMA NotifyWaitInv == ASSUME WaitInv, NEW c \in Clients, NotifyAll(c) PROVE WaitInv'
<1>0. /\ handler[c] = "notifying" /\ handler' = [handler EXCEPT ![c] = "none"]
      /\ notified' = notified \cup Sleeping /\ UNCHANGED <<seq, pool, task, oldseq>>
  BY DEF NotifyAll, WhoWakes
<1>1. /\ handler'[c] = "none" /\ \A d \in Clients : d # c => handler'[d] = handler[d]
      /\ handler' \in [Clients -> {"none", "askwait", "askchange", "waiting", "blocked",
                                   "changing", "notifying"}]
  BY <1>0 DEF WaitInv, WaitTypeOK
<1>2. WaitTypeOK'
  BY <1>0, <1>1 DEF WaitInv, WaitTypeOK, Sleeping
<1>3. NoLostWakeup'
  BY <1>0 DEF NoLostWakeup, Sleeping
<1>4. BlockedOnTask'
  BY <1>0, <1>1 DEF WaitInv, BlockedOnTask
<1>5. JobsMatch'
  <2>1. pool \in Seq(Jobs)
    BY DEF WaitInv, WaitTypeOK, Jobs
  <2>2. \A i \in DOMAIN pool : pool[i].client \in Clients
    BY <2>1, JobForms
  <2> QED
    BY <2>2, <1>0, <1>1 DEF WaitInv, JobsMatch
<1>6. Changing' = Changing
  BY <1>0, <1>1 DEF Changing
<1> QED
  BY <1>0, <1>2, <1>3, <1>4, <1>5, <1>6 DEF WaitInv, CountedChanges

LEMMA NextWaitInv == WaitInv /\ [NextWait]_waitVars => WaitInv'
<1> SUFFICES ASSUME WaitInv, [NextWait]_waitVars PROVE WaitInv'
  OBVIOUS
<1>1. CASE Dispatch
  BY <1>1, DispatchWaitInv
<1>2. ASSUME NEW c \in Clients, AskWait(c) PROVE WaitInv'
  BY <1>2, RequestWaitInv DEF AskWait
<1>3. ASSUME NEW c \in Clients, AskChange(c) PROVE WaitInv'
  BY <1>3, RequestWaitInv DEF AskChange
<1>4. ASSUME NEW c \in Clients, CreateTask(c) PROVE WaitInv'
  BY <1>4, CreateWaitInv
<1>5. ASSUME NEW c \in Clients, Check(c) PROVE WaitInv'
  BY <1>5, CheckWaitInv
<1>6. ASSUME NEW c \in Clients, Wake(c) PROVE WaitInv'
  BY <1>6, WakeWaitInv
<1>7. ASSUME NEW c \in Clients, TimeOut(c) PROVE WaitInv'
  BY <1>7, TimeOutWaitInv
<1>8. ASSUME NEW c \in Clients, ReplyToWait(c) PROVE WaitInv'
  BY <1>8, ReplyWaitInv
<1>9. ASSUME NEW c \in Clients, Increment(c) PROVE WaitInv'
  BY <1>9, IncrementWaitInv
<1>10. ASSUME NEW c \in Clients, NotifyAll(c) PROVE WaitInv'
  BY <1>10, NotifyWaitInv
<1>11. CASE UNCHANGED waitVars
  BY <1>11 DEF waitVars, WaitInv, WaitTypeOK, NoLostWakeup, Sleeping, JobsMatch, BlockedOnTask,
               CountedChanges, Changing
<1> QED
  BY <1>1, <1>2, <1>3, <1>4, <1>5, <1>6, <1>7, <1>8, <1>9, <1>10, <1>11 DEF NextWait

LEMMA WaitInvariant == WaitSpec => []WaitInv
BY InitWaitInv, NextWaitInv, PTL DEF WaitSpec

-------------------------------------------------------------------------------
(* Theorems.                                                               *)

(* Types are kept and no more changes are announced than were asked for.    *)
THEOREM WaitTypes == WaitSpec => []WaitTypeOK
<1>1. WaitInv => WaitTypeOK
  BY DEF WaitInv
<1> QED
  BY <1>1, WaitInvariant, PTL

(* A wait that sleeps on an old number is about to be woken: the look under *)
(* cvm and the notification after it miss nothing, whatever the timing.     *)
THEOREM WakeupKept == WaitSpec => []NoLostWakeup
<1>1. WaitInv => NoLostWakeup
  BY DEF WaitInv
<1> QED
  BY <1>1, WaitInvariant, PTL

-------------------------------------------------------------------------------
(* The threads of the pool.  That a request is answered (Answered) rests on *)
(* there being something that can go on as long as one is open.  This is    *)
(* so except in one kind of state: every thread is held by the handler of   *)
(* an eventwait whose task still waits for a thread.  It rests on no job    *)
(* being lost (JobsKept).                                                  *)

JobsKept ==
    \A c \in Clients :
        /\ handler[c] \in {"askwait", "askchange"} => \E i \in DOMAIN pool : pool[i] = Handle(c)
        /\ task[c] = "queued" => \E i \in DOMAIN pool : pool[i] = Wait(c)

(* No handler or task that has its thread can take a step, and no task is   *)
(* asleep, which ends with its timeout.                                    *)
Resting ==
    \A c \in Clients : /\ handler[c] \notin {"waiting", "changing", "notifying"}
                       /\ task[c] \notin {"checking", "sleeping", "changed", "timedout"}

(* One can, or a job can be given a thread.                                 *)
GoesOn == ~Resting \/ (pool # <<>> /\ Busy < PoolSize)

HeldUp     == {c \in Clients : handler[c] = "blocked" /\ task[c] = "queued"}
AllHeldUp  == PoolSize <= Cardinality(HeldUp)
StallsOnlyIfAllHeldUp == (\E c \in Clients : handler[c] # "none") => GoesOn \/ AllHeldUp

HeldUpForGood == [][AllHeldUp => HeldUp \subseteq HeldUp' /\ AllHeldUp' /\ ~Dispatch]_waitVars

(* A job that is not the first stays in the pool, one place further.        *)
LEMMA KeptJobs ==
    ASSUME NEW q \in Seq(Jobs), NEW i \in DOMAIN q, i # 1
    PROVE  i - 1 \in DOMAIN Tail(q) /\ Tail(q)[i - 1] = q[i]
<1>1. Len(q) \in Nat /\ DOMAIN q = 1 .. Len(q) /\ i \in 1 .. Len(q) /\ q # <<>>
  OBVIOUS
<1>2. Tail(q) \in Seq(Jobs) /\ Len(Tail(q)) = Len(q) - 1
  BY <1>1
<1>3. DOMAIN Tail(q) = 1 .. Len(q) - 1
  BY <1>1, <1>2
<1> QED
  BY <1>1, <1>3

LEMMA NextJobsKept == WaitInv /\ JobsKept /\ [NextWait]_waitVars => JobsKept'
<1> SUFFICES ASSUME WaitInv, JobsKept, [NextWait]_waitVars PROVE JobsKept'
  OBVIOUS
<1>0. /\ pool \in Seq(Jobs) /\ \A c \in Clients : Handle(c) \in Jobs /\ Wait(c) \in Jobs
      /\ handler \in [Clients -> {"none", "askwait", "askchange", "waiting", "blocked",
                                  "changing", "notifying"}]
      /\ task \in [Clients -> {"none", "queued", "checking", "sleeping", "changed", "timedout"}]
  BY DEF WaitInv, WaitTypeOK, Jobs
<1>1. CASE Dispatch
  <2> DEFINE d == Head(pool).client
  <2>1. pool' = Tail(pool) /\ pool # <<>> /\ Head(pool) = pool[1]
    BY <1>0, <1>1, TakenJob DEF Dispatch
  <2>2. ASSUME NEW c \in Clients, handler'[c] \in {"askwait", "askchange"}
        PROVE  \E i \in DOMAIN pool' : pool'[i] = Handle(c)
    <3>1. handler[c] \in {"askwait", "askchange"} /\ Head(pool) # Handle(c)
      BY <1>0, <1>1, <2>2 DEF Dispatch, Handle
    <3>2. PICK i \in DOMAIN pool : pool[i] = Handle(c)
      BY <3>1 DEF JobsKept
    <3>3. i # 1
      BY <2>1, <3>1, <3>2
    <3>4. i - 1 \in DOMAIN pool' /\ pool'[i - 1] = pool[i]
      BY <1>0, <2>1, <3>3, KeptJobs
    <3> QED
      BY <3>2, <3>4
  <2>3. ASSUME NEW c \in Clients, task'[c] = "queued"
        PROVE  \E i \in DOMAIN pool' : pool'[i] = Wait(c)
    <3>1. task[c] = "queued" /\ Head(pool) # Wait(c)
      BY <1>0, <1>1, <2>3 DEF Dispatch, Wait
    <3>2. PICK i \in DOMAIN pool : pool[i] = Wait(c)
      BY <3>1 DEF JobsKept
    <3>3. i # 1
      BY <2>1, <3>1, <3>2
    <3>4. i - 1 \in DOMAIN pool' /\ pool'[i - 1] = pool[i]
      BY <1>0, <2>1, <3>3, KeptJobs
    <3> QED
      BY <3>2, <3>4
  <2> QED
    BY <2>2, <2>3 DEF JobsKept
<1>2. ASSUME NEW c \in Clients, NEW job \in Jobs, pool' = Append(pool, job),
             \/ /\ job = Handle(c) /\ task' = task
                /\ \A b \in Clients \ {c} : handler'[b] = handler[b]
             \/ /\ job = Wait(c) /\ \A b \in Clients \ {c} : task'[b] = task[b]
                /\ handler' = [handler EXCEPT ![c] = "blocked"]
      PROVE  JobsKept'
  <2>1. \A i \in DOMAIN pool : i \in DOMAIN pool' /\ pool'[i] = pool[i]
    BY <1>0, <1>2, AppendedJob
  <2>2. \E i \in DOMAIN pool' : pool'[i] = job
    BY <1>0, <1>2, AppendedJob
  <2>3. ASSUME NEW b \in Clients, handler'[b] \in {"askwait", "askchange"}
        PROVE  \E i \in DOMAIN pool' : pool'[i] = Handle(b)
    <3>1. CASE job = Handle(b)
      BY <2>2, <3>1
    <3>2. CASE job # Handle(b)
      <4>1. handler[b] \in {"askwait", "askchange"}
        BY <1>0, <1>2, <2>3, <3>2
      <4> QED
        BY <2>1, <4>1 DEF JobsKept
    <3> QED
      BY <3>1, <3>2
  <2>4. ASSUME NEW b \in Clients, task'[b] = "queued"
        PROVE  \E i \in DOMAIN pool' : pool'[i] = Wait(b)
    <3>1. CASE job = Wait(b)
      BY <2>2, <3>1
    <3>2. CASE job # Wait(b)
      <4>1. task[b] = "queued"
        BY <1>2, <2>4, <3>2
      <4> QED
        BY <2>1, <4>1 DEF JobsKept
    <3> QED
      BY <3>1, <3>2
  <2> QED
    BY <2>3, <2>4 DEF JobsKept
<1>3. ASSUME NEW c \in Clients, AskWait(c) \/ AskChange(c) PROVE JobsKept'
  <2>1. /\ pool' = Append(pool, Handle(c)) /\ task' = task
        /\ \A b \in Clients \ {c} : handler'[b] = handler[b]
    BY <1>0, <1>3 DEF AskWait, AskChange, Request
  <2> QED
    BY <1>0, <1>2, <2>1
<1>4. ASSUME NEW c \in Clients, CreateTask(c) PROVE JobsKept'
  <2>1. /\ pool' = Append(pool, Wait(c)) /\ handler' = [handler EXCEPT ![c] = "blocked"]
        /\ \A b \in Clients \ {c} : task'[b] = task[b]
    BY <1>0, <1>4 DEF CreateTask
  <2> QED
    BY <1>0, <1>2, <2>1
<1>5. ASSUME NEW c \in Clients, \/ Check(c) \/ Wake(c) \/ TimeOut(c) \/ ReplyToWait(c)
                                \/ Increment(c) \/ NotifyAll(c)
      PROVE  JobsKept'
  <2>1. /\ pool' = pool
        /\ \A b \in Clients : handler'[b] \in {"askwait", "askchange"} => handler'[b] = handler[b]
        /\ \A b \in Clients : task'[b] = "queued" => task'[b] = task[b]
    BY <1>0, <1>5 DEF Check, Wake, TimeOut, TimeIsUp, ReplyToWait, Increment, NotifyAll
  <2> QED
    BY <2>1 DEF JobsKept
<1>6. CASE UNCHANGED waitVars
  BY <1>6 DEF waitVars, JobsKept
<1> QED
  BY <1>1, <1>3, <1>4, <1>5, <1>6 DEF NextWait

LEMMA JobsKeptHolds == WaitSpec => []JobsKept
<1>1. InitWait => JobsKept
  BY DEF InitWait, JobsKept
<1> QED
  BY <1>1, NextJobsKept, WaitInvariant, PTL DEF WaitSpec

LEMMA ClientsCounted ==
    ASSUME NEW S \in SUBSET Clients, NEW T \in SUBSET S
    PROVE  /\ IsFiniteSet(S) /\ Cardinality(S) \in Nat /\ Cardinality(S) <= Cardinality(Clients)
           /\ Cardinality(T) \in Nat /\ Cardinality(T) <= Cardinality(S)
           /\ Cardinality(Clients) \in Nat
BY ClientsAssumption, FS_Subset, FS_CardinalityType

(* Threads in use: one for each handler held up, and no other when nothing  *)
(* can take a step.                                                        *)
LEMMA ThreadsInUse ==
    ASSUME WaitInv
    PROVE  /\ Cardinality(HeldUp) \in Nat /\ Cardinality(HeldUp) <= Cardinality(Clients)
           /\ Busy \in Nat /\ Cardinality(HeldUp) <= Busy
           /\ Resting => Busy = Cardinality(HeldUp)
<1> DEFINE H == {c \in Clients : handler[c] \in {"waiting", "blocked", "changing", "notifying"}}
           T == {c \in Clients : task[c] \in {"checking", "sleeping"}}
<1>1. HeldUp \in SUBSET H /\ H \in SUBSET Clients /\ T \in SUBSET Clients
  BY DEF HeldUp
<1>2. Busy = Cardinality(H) + Cardinality(T)
  BY DEF Busy
<1>3. ASSUME Resting PROVE H = HeldUp /\ T = {}
  BY <1>3 DEF Resting, HeldUp, WaitInv, WaitTypeOK, BlockedOnTask
<1>e. Cardinality({}) = 0
  BY FS_EmptySet
<1> HIDE DEF H, T
<1>4. /\ Cardinality(H) \in Nat /\ Cardinality(T) \in Nat /\ Cardinality(HeldUp) \in Nat
      /\ Cardinality(HeldUp) <= Cardinality(H) /\ Cardinality(H) <= Cardinality(Clients)
      /\ Cardinality(Clients) \in Nat
  BY <1>1, ClientsCounted
<1>5. ASSUME Resting PROVE Busy = Cardinality(HeldUp)
  BY <1>2, <1>3, <1>4, <1>5, <1>e
<1>6. Busy \in Nat /\ Cardinality(HeldUp) <= Busy /\ Cardinality(HeldUp) <= Cardinality(Clients)
  BY <1>2, <1>4
<1> QED
  BY <1>4, <1>5, <1>6

(* For any pool and clients: while a request is open, something can go on,   *)
(* unless every thread is the handler of an eventwait whose wait_for_event   *)
(* has no thread to run on.                                                *)
THEOREM OnlyIfAllHeldUp == WaitSpec => []StallsOnlyIfAllHeldUp
<1>1. ASSUME WaitInv, JobsKept PROVE StallsOnlyIfAllHeldUp
  <2> SUFFICES ASSUME NEW c \in Clients, handler[c] # "none", ~GoesOn PROVE AllHeldUp
    BY DEF StallsOnlyIfAllHeldUp
  <2>1. Resting
    BY DEF GoesOn
  <2>2. handler[c] \in {"askwait", "askchange"} \/ task[c] = "queued"
    BY <1>1, <2>1 DEF Resting, WaitInv, WaitTypeOK, BlockedOnTask
  <2>3. pool # <<>>
    BY <1>1, <2>2 DEF JobsKept
  <2>4. ~(Busy < PoolSize)
    BY <2>1, <2>3 DEF GoesOn
  <2> QED
    BY <1>1, <2>1, <2>4, ThreadsInUse, PoolAssumption DEF AllHeldUp
<1> QED
  BY <1>1, WaitInvariant, JobsKeptHolds, PTL

(* The pool of main.cpp is safe for fewer clients than it has threads, as    *)
(* in run wait_free: while a request is open, something can go on.         *)
THEOREM NothingStalls ==
    ASSUME Cardinality(Clients) < PoolSize
    PROVE  WaitSpec => []((\E c \in Clients : handler[c] # "none") => GoesOn)
<1>1. ASSUME WaitInv, StallsOnlyIfAllHeldUp
      PROVE  (\E c \in Clients : handler[c] # "none") => GoesOn
  <2>1. ~AllHeldUp
    BY <1>1, ThreadsInUse, ClientsCounted, PoolAssumption DEF AllHeldUp
  <2> QED
    BY <1>1, <2>1 DEF StallsOnlyIfAllHeldUp
<1> QED
  BY <1>1, WaitInvariant, OnlyIfAllHeldUp, PTL

(* With as many eventwaits as threads the server can come to a state it     *)
(* never leaves: once every thread is held up, each handler stays blocked   *)
(* in get(), and no job is given a thread again.  (Run wait_full shows that *)
(* such a state is reached.)                                               *)
THEOREM NeverFreed == WaitSpec => HeldUpForGood
<1> DEFINE A == AllHeldUp => HeldUp \subseteq HeldUp' /\ AllHeldUp' /\ ~Dispatch
<1>1. WaitInv /\ [NextWait]_waitVars => [A]_waitVars
  <2> SUFFICES ASSUME WaitInv, NextWait, AllHeldUp
               PROVE  HeldUp \subseteq HeldUp' /\ AllHeldUp' /\ ~Dispatch
    OBVIOUS
  <2>1. ~(Busy < PoolSize)
    BY ThreadsInUse, PoolAssumption DEF AllHeldUp
  <2>2. ~Dispatch
    BY <2>1 DEF Dispatch
  <2>3. ASSUME NEW c \in HeldUp PROVE handler'[c] = "blocked" /\ task'[c] = "queued"
    <3>1. /\ c \in Clients /\ handler[c] = "blocked" /\ task[c] = "queued"
          /\ handler \in [Clients -> {"none", "askwait", "askchange", "waiting", "blocked",
                                      "changing", "notifying"}]
          /\ task \in [Clients -> {"none", "queued", "checking", "sleeping", "changed",
                                   "timedout"}]
      BY DEF HeldUp, WaitInv, WaitTypeOK
    <3>2. PICK d \in Clients : \/ AskWait(d) \/ AskChange(d) \/ CreateTask(d) \/ Check(d) \/ Wake(d)
                               \/ TimeOut(d) \/ ReplyToWait(d) \/ Increment(d) \/ NotifyAll(d)
      BY <2>2 DEF NextWait
    <3>3. CASE AskWait(d) \/ AskChange(d) \/ CreateTask(d)
      BY <3>1, <3>3 DEF AskWait, AskChange, Request, CreateTask
    <3>4. CASE Check(d) \/ Wake(d) \/ TimeOut(d) \/ ReplyToWait(d)
      BY <3>1, <3>4 DEF Check, Wake, TimeOut, ReplyToWait
    <3>5. CASE Increment(d) \/ NotifyAll(d)
      BY <3>1, <3>5 DEF Increment, NotifyAll
    <3> QED
      BY <3>2, <3>3, <3>4, <3>5
  <2>4. HeldUp \in SUBSET HeldUp' /\ HeldUp' \in SUBSET Clients
    BY <2>3 DEF HeldUp
  <2>5. /\ Cardinality(HeldUp) \in Nat /\ Cardinality(HeldUp') \in Nat
        /\ Cardinality(HeldUp) <= Cardinality(HeldUp')
    BY <2>4, ClientsCounted
  <2> QED
    BY <2>2, <2>4, <2>5, PoolAssumption DEF AllHeldUp
<1>2. WaitSpec => [][A]_waitVars
  BY <1>1, WaitInvariant, PTL DEF WaitSpec
<1> QED
  BY <1>2 DEF HeldUpForGood
===============================================================================
