------------------------------- MODULE Traffic -------------------------------
(***************************************************************************)
(* The traffic analyzer (scheduler/traffic/traffic_analyzer.go) between    *)
(* RecordRequest, which anyone may call, and handleActions (main.go),      *)
(* which takes its signals.  Two bounded channels, both left without wait  *)
(* when full.  Time goes by in periods of the analysis ticker; a timestamp *)
(* is kept as its age, up to Window, from where on all are alike.          *)
(***************************************************************************)
EXTENDS Integers, Sequences, FiniteSets, FiniteSetsExt

CONSTANTS Models,
          Window,        \* windowSize, in periods of the ticker
          Threshold,     \* prewarmThresholdRPM * windowSize, in requests
          RequestCap,    \* capacity of requestEventCh
          SignalCap,     \* capacity of prewarmSignalCh
          MaxRate        \* bound: requests made in one period

ASSUME TrafficAssumption ==
  /\ IsFiniteSet(Models)
  /\ Window \in Nat \ {0} /\ Threshold \in Nat \ {0}
  /\ RequestCap \in Nat /\ SignalCap \in Nat

Ages == 0..Window

VARIABLES requests,    \* requestEventCh: [model, age]
          events,      \* how many timestamps of each age the analyzer keeps of each model
          prewarmSent, \* age of the last signal decided for each model; Window: none counts
          signals,     \* prewarmSignalCh: models
          tickDue,     \* the ticker's channel, which holds one tick
          todo,        \* models the analysis underway has not come to
          handled,     \* the model of the last signal handleActions took
          asked,       \* history: requests made for each model, by age
          dropped      \* history: a signal found the channel full

code == <<requests, events, prewarmSent, signals, tickDue, todo, handled>>
vars == <<code, asked, dropped>>

\* Counts stop at Threshold: analyze asks no more of them.
Capped(n)     == IF n < Threshold THEN n ELSE Threshold
CountOne(f, a) == [f EXCEPT ![a] = Capped(@ + 1)]
Older(a)      == IF a < Window THEN a + 1 ELSE Window
OlderAll(f)   == [a \in Ages |-> IF a = 0 THEN 0
                                ELSE IF a = Window THEN Capped(f[a] + f[a - 1])
                                ELSE f[a - 1]]
FreshCount(f) == MapThenSumSet(LAMBDA a : f[a], Ages \ {Window})

Nothing == [a \in Ages |-> 0]

Init ==
  /\ requests = <<>> /\ signals = <<>>
  /\ events = [m \in Models |-> Nothing] /\ asked = [m \in Models |-> Nothing]
  /\ prewarmSent = [m \in Models |-> Window]
  /\ tickDue = FALSE /\ todo = {} /\ handled = "nothing" /\ dropped = FALSE

-----------------------------------------------------------------------------
MadeThisPeriod == MapThenSumSet(LAMBDA n : asked[n][0], Models)

\* RecordRequest: stamped by its caller, and dropped when the channel is full.
RecordRequest(m) ==
  /\ MadeThisPeriod < MaxRate
  /\ asked' = [asked EXCEPT ![m] = CountOne(@, 0)]
  /\ requests' = IF Len(requests) < RequestCap
                 THEN Append(requests, [model |-> m, age |-> 0]) ELSE requests
  /\ UNCHANGED <<events, prewarmSent, signals, tickDue, todo, handled, dropped>>

\* Run takes a request: recordEvent.
Ingest ==
  /\ todo = {} /\ requests # <<>>
  /\ events' = [events EXCEPT ![Head(requests).model] = CountOne(@, Head(requests).age)]
  /\ requests' = Tail(requests)
  /\ UNCHANGED <<prewarmSent, signals, tickDue, todo, handled, asked, dropped>>

\* Run takes the tick: analyze will come to each model it has seen.
StartAnalysis ==
  /\ todo = {} /\ tickDue
  /\ tickDue' = FALSE
  /\ todo' = {m \in Models : events[m] # Nothing}
  /\ UNCHANGED <<requests, events, prewarmSent, signals, handled, asked, dropped>>

Pruned(f) == [f EXCEPT ![Window] = 0]

Due_Always(m, f) ==                    \* a slip: no rate limit
  FreshCount(f) >= Threshold
Due(m, f) == FreshCount(f) >= Threshold /\ prewarmSent[m] >= Window

\* One round of analyze's loop, with maybeSignalPrewarm: the signal is marked
\* sent before it is known whether the channel takes it.
Analyze_Unpruned(m) ==                 \* a slip: old timestamps count
  /\ m \in todo /\ todo' = todo \ {m}
  /\ IF FreshCount(events[m]) + events[m][Window] >= Threshold /\ prewarmSent[m] >= Window
     THEN /\ prewarmSent' = [prewarmSent EXCEPT ![m] = 0]
          /\ signals' = IF Len(signals) < SignalCap THEN Append(signals, m) ELSE signals
          /\ dropped' = (dropped \/ Len(signals) >= SignalCap)
     ELSE UNCHANGED <<prewarmSent, signals, dropped>>
  /\ UNCHANGED <<requests, events, tickDue, handled, asked>>
Analyze_StopsAtIdle(m) ==              \* a slip: return, for continue, at a model with none
  /\ m \in todo
  /\ todo' = IF FreshCount(events[m]) = 0 THEN {} ELSE todo \ {m}
  /\ events' = [events EXCEPT ![m] = Pruned(@)]
  /\ IF Due(m, Pruned(events[m]))
     THEN /\ prewarmSent' = [prewarmSent EXCEPT ![m] = 0]
          /\ signals' = IF Len(signals) < SignalCap THEN Append(signals, m) ELSE signals
          /\ dropped' = (dropped \/ Len(signals) >= SignalCap)
     ELSE UNCHANGED <<prewarmSent, signals, dropped>>
  /\ UNCHANGED <<requests, tickDue, handled, asked>>
Analyze(m) ==
  /\ m \in todo /\ todo' = todo \ {m}
  /\ events' = [events EXCEPT ![m] = Pruned(@)]
  /\ IF Due(m, Pruned(events[m]))
     THEN /\ prewarmSent' = [prewarmSent EXCEPT ![m] = 0]
          /\ signals' = IF Len(signals) < SignalCap THEN Append(signals, m) ELSE signals
          /\ dropped' = (dropped \/ Len(signals) >= SignalCap)
     ELSE UNCHANGED <<prewarmSent, signals, dropped>>
  /\ UNCHANGED <<requests, tickDue, handled, asked>>

\* handleActions takes a signal, and logs it.
HandleSignal ==
  /\ signals # <<>>
  /\ handled' = Head(signals) /\ signals' = Tail(signals)
  /\ UNCHANGED <<requests, events, prewarmSent, tickDue, todo, asked, dropped>>

\* handleActions, which never waits, gets to a signal before a window has passed.
Prompt == \A i \in 1..Len(signals) : prewarmSent[signals[i]] < Window - 1

\* A period passes; the analysis takes no time.  A tick nobody took is lost.
Clock ==
  /\ todo = {} /\ Prompt
  /\ requests' = [i \in 1..Len(requests) |-> [requests[i] EXCEPT !.age = Older(@)]]
  /\ events' = [m \in Models |-> OlderAll(events[m])]
  /\ asked' = [m \in Models |-> OlderAll(asked[m])]
  /\ prewarmSent' = [m \in Models |-> Older(prewarmSent[m])]
  /\ tickDue' = TRUE
  /\ UNCHANGED <<signals, todo, handled, dropped>>

Next == \/ \E m \in Models : RecordRequest(m) \/ Analyze(m)
        \/ Ingest \/ StartAnalysis \/ HandleSignal \/ Clock

\* Run's select takes a ready channel at random, so none for ever in vain.
Fairness == /\ \A m \in Models : WF_vars(Analyze(m))
            /\ WF_vars(StartAnalysis) /\ SF_vars(Ingest) /\ WF_vars(HandleSignal)

Spec == Init /\ [][Next]_vars /\ Fairness

-----------------------------------------------------------------------------
(* Properties.                                                             *)

\* Types and channel capacities; the analyzer never counts more requests of an age
\* than were made, wherever they waited (traffic_analyzer.go:93-104).
TypeOK ==
  /\ requests \in Seq([model : Models, age : Ages]) /\ Len(requests) <= RequestCap
  /\ events \in [Models -> [Ages -> 0..Threshold]]
  /\ asked \in [Models -> [Ages -> 0..Threshold]]
  /\ prewarmSent \in [Models -> Ages] /\ tickDue \in BOOLEAN /\ dropped \in BOOLEAN
  /\ signals \in Seq(Models) /\ Len(signals) <= SignalCap
  /\ todo \subseteq Models /\ handled \in Models \cup {"nothing"}
  /\ \A m \in Models, a \in Ages : events[m][a] <= asked[m][a]

\* A signal is earned by requests made within the last window, however long the
\* events waited in the channel or the map (traffic_analyzer.go:112-133).
SignalsAreEarned ==
  [][\A m \in Models : prewarmSent'[m] < prewarmSent[m] => FreshCount(asked[m]) >= Threshold]_vars

\* "rate-limits to once per window per model so we don't flood" the consumer
\* (traffic_analyzer.go:137-138): with room for one signal of each model, none is
\* lost, though a full channel would drop it and still hold it for sent (145-157).
SignalsAreNotLost == SignalCap >= Cardinality(Models) => ~dropped

\* A model an analysis finds hot, and has not signalled for a window, comes to
\* the scheduler's notice (traffic_analyzer.go:131-157, main.go:167-171).
BurstsAreNoticed ==
  \A m \in Models : m \in todo /\ FreshCount(events[m]) >= Threshold /\ prewarmSent[m] >= Window
                     ~> handled = m
=============================================================================
