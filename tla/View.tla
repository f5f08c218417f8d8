-------------------------------- MODULE View --------------------------------
(***************************************************************************)
(* What the user looks at: the kronos a rule kit and its cases show, the   *)
(* panes of a krono, the traces of a pane, and the tables by which the     *)
(* view (CView) and the controller find them when a client sends a key     *)
(* (src/libEA/viewParts.cpp, mvc_view.cpp, rule.cpp, case.cpp).            *)
(*                                                                         *)
(* Traces in real time live as long as the program; panes, kronos, their   *)
(* knobs and everything of a case die when the user selects another rule   *)
(* or the case is closed, while a client may still hold their keys.        *)
(* Every operation runs under the lock of the server (RestApi.tla), so it  *)
(* is one action.  Tables keyed in an unordered_map are walked in any      *)
(* order.                                                                  *)
(***************************************************************************)
EXTENDS Integers, Sequences, FiniteSets, SequencesExt

CONSTANTS
  Facts,       \* facts of the plant
  Analogs,     \* points and formulas of the plant
  About,       \* kind, host, group, axis and rate of each fact and analog
  Inputs,      \* what each fact and analog is computed from
  Sustained,   \* the facts that watch another one (CFactSustained)
  RuleOrder,   \* the rules of the kit, top to bottom
  Tested,      \* of a rule: the facts of its If and its Then
  KitTrace,    \* kind, host, ... shared by the traces of the rules
  KeyOf,       \* the keys given when the plant was built, one per trace
  MaxTraces,   \* [kind of a pane -> FIXED_PANE_..._NUMTRACES_MAX]
  MaxKey       \* bound of the model on the keys given

Rules == ToSet(RuleOrder)
Elements == Facts \cup Analogs
Sources == Elements \cup Rules

Of(s) == IF s \in Rules THEN KitTrace ELSE About[s]

ASSUME PlantAssumption ==
  /\ IsFiniteSet(Elements) /\ Facts \cap Analogs = {} /\ Rules \cap Elements = {}
  /\ RuleOrder \in Seq(Rules) /\ RuleOrder # <<>>
ASSUME KeysAssumption ==
  /\ DOMAIN KeyOf = Sources /\ MaxKey \in Nat
  /\ \A s, t \in Sources : KeyOf[s] = KeyOf[t] => s = t
  /\ \A s \in Sources : KeyOf[s] \in 1..(MaxKey - 1)
(* Facts have units of their own and so have rules (fact.cpp, rule.cpp); a  *)
(* pane has room for all rules (FIXED_PANE_RULE_NUMTRACES_MAX).             *)
ASSUME TracesAssumption ==
  /\ KitTrace.kind = "rule"
  /\ \A f \in Facts : About[f].kind = "fact"
  /\ \A a \in Analogs : About[a].kind = "analog"
  /\ \A s, t \in Sources : Of(s).axis = Of(t).axis => Of(s).kind = Of(t).kind
  /\ MaxTraces["rule"] \in Nat /\ Len(RuleOrder) <= MaxTraces["rule"]

VARIABLES
  nextKey,     \* IGuiShadow::nextFreshKeySeedValue
  kronos,      \* keys in CView::p_Kronos_byKey
  panes,       \* keys in CView::p_Panes_byKey
  traces,      \* keys in CView::p_Traces_byKey
  caseKeys,    \* keys in CView::p_CaseKits_byCaseKey
  knobs,       \* keys of the kronos' knobs in the controller's table
  kit,         \* what the kit owns of its krono in real time
  cases,       \* what each open case owns, by its rule
  seen         \* the packs a client has read last, by their keys

tables == <<kronos, panes, traces, caseKeys, knobs>>
vars == <<nextKey, tables, kit, cases, seen>>

NoRule == "none"

-----------------------------------------------------------------------------
(* The logic chain of a rule.                                              *)

\* An element lends its own trace and what its inputs lend; a sustained fact
\* passes no operand to its base class and lends its own trace alone.
LendRealtimeAccessTo(e) ==
  {f \in Elements : \A lent \in SUBSET Elements :
     (e \in lent /\ \A i \in lent \ Sustained : Inputs[i] \subseteq lent) => f \in lent}

TabulateRealtimeAccessToAntecedents(u) ==
  UNION {LendRealtimeAccessTo(f) : f \in Tested[u]}

\* A rule tabulates them once, when it is built.
RtTracesOfAntecedents == [u \in Rules |-> TabulateRealtimeAccessToAntecedents(u)]

-----------------------------------------------------------------------------
(* Panes: sequences of sources; the first gives the pane its kind, axes,   *)
(* host subject and plot group.                                            *)

PaneOf(p) == Of(p[1])

\* A mutant: only units are compared, whatever the rate of the sources.
AddTraceIfCompatible_AnyRate(p, s) ==
  LET acting == IF Of(s).host = PaneOf(p).host THEN Of(s).group ELSE "Free"
  IN /\ acting = PaneOf(p).group
     /\ Len(p) <= MaxTraces[PaneOf(p).kind]
     /\ Of(s).axis = PaneOf(p).axis

\* Whether pane p accepts a trace: "axis" stands for the units and the range.
AddTraceIfCompatible(p, s) ==
  LET acting == IF Of(s).host = PaneOf(p).host THEN Of(s).group ELSE "Free"
  IN /\ acting = PaneOf(p).group
     /\ Len(p) <= MaxTraces[PaneOf(p).kind]
     /\ Of(s).axis = PaneOf(p).axis
     /\ Of(s).rate = PaneOf(p).rate

\* The trace goes to the first pane that accepts it, in the order of the
\* table, and to a new pane when none does.
Placed(layout, s) ==
  LET fit == {i \in DOMAIN layout : AddTraceIfCompatible(layout[i], s)}
  IN IF fit = {} THEN {Append(layout, <<s>>)}
     ELSE {[layout EXCEPT ![i] = Append(layout[i], s)] : i \in fit}

\* Every way to lay out the chain of a rule: panes in the order they are
\* created, the pane of the rule first.
Layouts(u) ==
  LET chain == RtTracesOfAntecedents[u]
      ways[S \in SUBSET chain] ==
        IF S = {} THEN {<< <<u>> >>}
        ELSE UNION {UNION {Placed(l, s) : l \in ways[S \ {s}]} : s \in S}
  IN ways[chain]

LayoutsOf == [u \in Rules |-> Layouts(u)]

\* One pane for the results of all rules; a refused trace is left out.
ResultsPane ==
  LET pane[n \in 1..Len(RuleOrder)] ==
        IF n = 1 THEN <<RuleOrder[1]>>
        ELSE IF AddTraceIfCompatible(pane[n - 1], RuleOrder[n])
             THEN Append(pane[n - 1], RuleOrder[n])
             ELSE pane[n - 1]
  IN pane[Len(RuleOrder)]

-----------------------------------------------------------------------------
(* Kronos.                                                                 *)

Nothing == [krono |-> 0, knob |-> 0, case |-> 0, order |-> <<>>,
            panes |-> <<>>, key |-> KeyOf]

\* The order of the panes below the rule's: those that are fact panes in real
\* time, then those that are not rule panes in real time.  Both loads, the
\* kit's and the case's, ask this of their panes.
Arranged(mode, owned, top) ==
  LET type == [k \in DOMAIN owned |-> <<mode, PaneOf(owned[k]).kind>>]
      facts == {k \in DOMAIN owned : type[k] = <<"realtime", "fact">>}
      analogs == {k \in DOMAIN owned \ facts : type[k] # <<"realtime", "rule">>}
  IN {<<top>> \o f \o a : f \in SetToSeqs(facts), a \in SetToSeqs(analogs)}

\* A krono, its panes and its knob, with keys given from k on; case is the key
\* of the case it shows, 0 in real time.
Boards(mode, case, layout, keys, k) ==
  LET owned == [i \in k..(k + Len(layout) - 1) |-> layout[i - k + 1]]
      last == k + Len(layout)
  IN {[krono |-> last, knob |-> last + 1, case |-> case, order |-> o,
       panes |-> owned, key |-> keys] : o \in Arranged(mode, owned, k)}

\* A mutant: the next key is the lowest above those in use.
Fresh_Reused ==
  LET live == kronos \cup panes \cup traces \cup caseKeys \cup knobs
  IN 1 + CHOOSE k \in live : \A j \in live : j <= k

\* GenerateNewGuiKey: keys are given once.
Fresh == nextKey

Given(n) == /\ nextKey' = Fresh + n
            /\ nextKey' <= MaxKey

\* A mutant: the knob of a krono stays registered when the krono dies.
LoseKrono_KnobLeft(old) ==
  [kronos |-> kronos \ {old.krono},
   panes |-> panes \ DOMAIN old.panes,
   knobs |-> knobs]

\* What the tables keep when a krono and its panes die.
LoseKrono(old) ==
  [kronos |-> kronos \ {old.krono},
   panes |-> panes \ DOMAIN old.panes,
   knobs |-> knobs \ {old.knob}]

ReplaceKrono(old, new) ==
  LET left == LoseKrono(old)
  IN /\ kronos' = left.kronos \cup ({new.krono} \ {0})
     /\ panes' = left.panes \cup DOMAIN new.panes
     /\ knobs' = left.knobs \cup ({new.knob} \ {0})

-----------------------------------------------------------------------------
Init ==
  /\ nextKey = 1 + CHOOSE k \in {KeyOf[s] : s \in Sources} :
                     \A s \in Sources : KeyOf[s] <= k
  /\ kronos = {} /\ panes = {} /\ caseKeys = {} /\ knobs = {}
  /\ traces = {KeyOf[s] : s \in Sources}
  /\ kit = [board |-> Nothing, one |-> NoRule, all |-> FALSE]
  /\ cases = <<>>
  /\ seen = <<>>

\* The knob that selects a rule: the old krono dies with its panes, then the
\* chain of the rule is laid out.  The knob holds the rules of the kit only.
LoadRealtimeKronoWithLogicChainOfRule(u) ==
  /\ \E layout \in LayoutsOf[u] :
       /\ Given(Len(layout) + 2)
       /\ \E new \in Boards("realtime", 0, layout, KeyOf, Fresh) :
            /\ kit' = [board |-> new, one |-> u, all |-> FALSE]
            /\ ReplaceKrono(kit.board, new)
  /\ UNCHANGED <<traces, caseKeys, cases, seen>>

\* The knob that shows the results of all rules, or clears the krono.
LoadRealtimeKronoWithResultsFromAllRulesInKit ==
  /\ Given(3)
  /\ \E new \in Boards("realtime", 0, <<ResultsPane>>, KeyOf, Fresh) :
       /\ kit' = [board |-> new, one |-> NoRule, all |-> TRUE]
       /\ ReplaceKrono(kit.board, new)
  /\ UNCHANGED <<traces, caseKeys, cases, seen>>

ClearKitOfRealtimeKronoParts ==
  /\ kit' = [board |-> Nothing, one |-> NoRule, all |-> FALSE]
  /\ ReplaceKrono(kit.board, Nothing)
  /\ UNCHANGED <<nextKey, traces, caseKeys, cases, seen>>

\* A rule in auto mode fails: the case takes a key for itself, one for its
\* snapshot of the rule and one for each antecedent (in any one order: which
\* antecedent has which of them tells nothing), then builds its krono.
CCase(u) ==
  /\ u \notin DOMAIN cases
  /\ LET chain == RtTracesOfAntecedents[u]
         c == Fresh
         n == Cardinality(chain)
         number == CHOOSE f \in [chain -> 1..n] : IsInjective(f)
         keys == [s \in {u} \cup chain |-> IF s = u THEN c + 1 ELSE c + 1 + number[s]]
     IN /\ \E layout \in LayoutsOf[u] : /\ Given(Len(layout) + n + 4)
             /\ \E new \in Boards("snapshot", c, layout, keys, c + n + 2) :
                  /\ cases' = [r \in {u} \cup DOMAIN cases |->
                                 IF r = u THEN new ELSE cases[r]]
                  /\ ReplaceKrono(Nothing, new)
             /\ traces' = traces \cup {keys[s] : s \in DOMAIN keys}
             /\ caseKeys' = caseKeys \cup {c}
  /\ UNCHANGED <<kit, seen>>

\* The user closes the case: everything it owns leaves the tables.
CloseCase(u) ==
  /\ u \in DOMAIN cases
  /\ cases' = [r \in DOMAIN cases \ {u} |-> cases[r]]
  /\ ReplaceKrono(cases[u], Nothing)
  /\ traces' = traces \ {cases[u].key[s] : s \in DOMAIN cases[u].key}
  /\ caseKeys' = caseKeys \ {cases[u].case}
  /\ UNCHANGED <<nextKey, kit, seen>>

-----------------------------------------------------------------------------
(* Reading by key.                                                         *)

Shown == {kit.board} \cup {cases[u] : u \in DOMAIN cases}

PaneKeys(b, k) == [i \in DOMAIN b.panes[k] |-> b.key[b.panes[k][i]]]

Sheet(what, keys) == [of |-> what, keys |-> keys]

\* A trace in real time shows its source as it is logged now, whoever asks.
CTraceRealtime(s) == Sheet(s, <<>>)

\* One of a case shows the snapshot of the case, which its krono stands for.
CTraceSnapshot(s, b) == Sheet(s, <<b.krono>>)

SayFullGuiPackFromTrace(b, s) ==
  IF b.case = 0 THEN CTraceRealtime(s) ELSE CTraceSnapshot(s, b)

OnPanes(b) == UNION {ToSet(b.panes[k]) : k \in DOMAIN b.panes}
Keys(b) == ({b.krono, b.case} \ {0}) \cup DOMAIN b.panes \cup {b.key[s] : s \in OnPanes(b)}

\* A krono's pack lists its panes, a pane's its traces, a case's its krono.
PacksOf(b) ==
  [k \in Keys(b) |->
     CASE k = b.krono          -> Sheet("krono", b.order)
       [] k = b.case           -> Sheet("case", <<b.krono>>)
       [] k \in DOMAIN b.panes -> Sheet("pane", PaneKeys(b, k))
       [] OTHER -> SayFullGuiPackFromTrace(b, CHOOSE s \in OnPanes(b) : b.key[s] = k)]

\* The view answers a key that is in one of its tables and refuses any other.
Answers(k) == k \in kronos \cup panes \cup traces \cup caseKeys

Pack(k) ==
  IF \E s \in Sources : KeyOf[s] = k
  THEN CTraceRealtime(CHOOSE s \in Sources : KeyOf[s] = k)
  ELSE PacksOf(CHOOSE b \in Shown : k \in Keys(b))[k]

\* A client reads a krono and keeps the keys it was given.
Look(b) ==
  /\ b.krono # 0
  /\ seen' = PacksOf(b)
  /\ UNCHANGED <<nextKey, tables, kit, cases>>

Next ==
  \/ \E u \in Rules : \/ LoadRealtimeKronoWithLogicChainOfRule(u)
                      \/ CCase(u)
                      \/ CloseCase(u)
  \/ LoadRealtimeKronoWithResultsFromAllRulesInKit
  \/ ClearKitOfRealtimeKronoParts
  \/ \E b \in Shown : Look(b)

Spec == Init /\ [][Next]_vars

-----------------------------------------------------------------------------
(* The tables of the view and of the controller hold what the kit and its  *)
(* cases own, no more and no less, whatever was selected, opened and       *)
(* closed in between; every key listed on a krono or on a pane finds its   *)
(* object, and no object belongs to two owners.  (The d-tors of kronos,    *)
(* panes and traces and ClearKitOfRealtimeKronoParts, rule.cpp:900.)       *)
TablesMatchOwners ==
  /\ kronos = {b.krono : b \in Shown} \ {0}
  /\ knobs = {b.knob : b \in Shown} \ {0}
  /\ panes = UNION {DOMAIN b.panes : b \in Shown}
  /\ caseKeys = {cases[u].case : u \in DOMAIN cases}
  /\ traces = UNION {{b.key[s] : s \in DOMAIN b.key} : b \in Shown}
  /\ \A b \in Shown : /\ ToSet(b.order) = DOMAIN b.panes
                      /\ \A k \in DOMAIN b.panes : ToSet(PaneKeys(b, k)) \subseteq traces
  /\ \A b, d \in Shown : b # d => DOMAIN b.panes \cap DOMAIN d.panes = {}

\* The rule alone on top, then each antecedent on exactly one place, a pane
\* only joining traces with one kind, one axis and one step of time.
ShowsChain(u, b) ==
  LET top == b.order[1]
      rest == DOMAIN b.panes \ {top}
  IN /\ b.panes[top] = <<u>>
     /\ \A s \in RtTracesOfAntecedents[u] :
          \E k \in rest : \E i \in DOMAIN b.panes[k] :
            \A l \in rest : \A j \in DOMAIN b.panes[l] :
              b.panes[l][j] = s <=> k = l /\ i = j
     /\ \A k \in rest : \A i \in DOMAIN b.panes[k] :
          LET s == Of(b.panes[k][i])
              p == PaneOf(b.panes[k])
          IN s.kind = p.kind /\ s.axis = p.axis /\ s.rate = p.rate

\* Below the top one, each pane once and no pane of facts under one of analogs.
FactsAbove(b) ==
  /\ Len(b.order) = Cardinality(DOMAIN b.panes)
  /\ \A i, j \in DOMAIN b.order :
       1 < i /\ i < j /\ PaneOf(b.panes[b.order[i]]).kind = "analog"
         => PaneOf(b.panes[b.order[j]]).kind = "analog"

(* The krono of a rule, in real time or of a case, shows its result alone   *)
(* on top, then every antecedent the rule lends on exactly one pane, with   *)
(* traces like it, whatever the order in which the tables are walked; in    *)
(* real time facts are above analogs.  The krono of all rules shows each of *)
(* them.  (rule.cpp:506, 649, case.cpp:274.)                                *)
KronoShowsChain ==
  /\ \A u \in DOMAIN cases : ShowsChain(u, cases[u])
  /\ kit.one # NoRule => ShowsChain(kit.one, kit.board) /\ FactsAbove(kit.board)
  /\ kit.all => kit.board.panes[kit.board.order[1]] = RuleOrder

(* A key a client still holds is refused or answered with the very case,   *)
(* krono, pane or trace it was given for: a later selection or case never  *)
(* turns up under it.  (mvc_view.cpp:158-219, guiShadow.cpp:607.)          *)
HeldKeysHold == \A k \in DOMAIN seen : Answers(k) => Pack(k) = seen[k]
=============================================================================
